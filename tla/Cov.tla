-------------------------------- MODULE Cov --------------------------------
(***************************************************************************)
(* Change-of-value subscriptions of the server (server/cov.go) with the    *)
(* requester that carries confirmed notifications (server/requester.go):   *)
(* workers that subscribe, cancel and delete objects, goroutines that      *)
(* change values, one goroutine per subscription that evaluates and sends, *)
(* the housekeeping that expires subscriptions, and Close.                 *)
(*                                                                         *)
(* A member of Subs is one subscribe request and the covSub it makes; a    *)
(* flag of covSub is the set of the subscriptions that have it.  A key     *)
(* (subKey) fixes what its requests ask for.  An object has one value, and *)
(* an identifier is not used again once its object is deleted.  Whether a  *)
(* subscriber answers, and when, is open.                                  *)
(***************************************************************************)
EXTENDS Integers, FiniteSets

CONSTANTS
  Subs, Keys, Objects, Writers, None,
  Monitored,   \* objects of the requests with a key
  Multiple,    \* keys of SubscribeCOVPropertyMultiple requests
  Confirmed,   \* keys with confirmed notifications
  Finite,      \* keys of subscriptions with a lifetime
  Refused,     \* keys of requests whose lifetime is over the limit
  Deletable,   \* objects that may be deleted
  Increment,   \* least difference that counts, 0 for any change
  Initial,     \* value of each object at the start
  Values,      \* values each object takes
  MaxCOV,      \* subscriptions the server keeps
  NumIds,      \* invoke IDs of the requester (256)
  Retries,     \* retransmissions of a confirmed notification
  MaxWrites    \* bound on the changes of values

ASSUME CovAssumption ==
  /\ None \notin Subs /\ None \notin Int /\ IsFiniteSet(Keys)
  /\ Monitored \in [Keys -> SUBSET Objects] /\ \A k \in Keys : Monitored[k] # {}
  /\ Values \in [Objects -> SUBSET Int]
  /\ Initial \in [Objects -> Int] /\ \A o \in Objects : Initial[o] \in Values[o]
  /\ Increment \in [Keys -> Nat]
  /\ MaxCOV \in Nat /\ NumIds \in Nat \ {0} /\ Retries \in Nat /\ MaxWrites \in Nat

VARIABLES
  value, exists,     \* values of the objects, and those the device has
  deleting,          \* objects between Remove and objectRemoved
  wpc, wobj, hit,    \* goroutines that change an object: step, object, sub list
  writes,            \* changes so far
  table,             \* covEngine.subs
  handler,           \* progress of each subscribe request
  key, targets,      \* covSub: key, remaining objects,
  last,              \*   values last notified,
  closed, dirty, initial, running,
  pc, todo, got, trigger,  \* covEngine.run and the locals of evaluate
  pending, next,     \* the requester's invoke IDs
  id, attempt, answered,   \* the locals of invoke
  dcc,               \* whether DeviceCommunicationControl allows initiation
  suppressed,        \* those whose last notification it stopped (history)
  server             \* Close: open, cancelled, closing, waited, closed

objectVars == <<value, exists, deleting>>
writerVars == <<wpc, wobj, hit, writes>>
subVars == <<key, targets>>
flagVars == <<dirty, initial, running>>
evalVars == <<last, todo, got, trigger, suppressed>>
reqVars == <<pending, next, id, attempt, answered>>
vars == <<objectVars, writerVars, table, handler, subVars, closed, flagVars, pc,
          evalVars, reqVars, dcc, server>>

Ids == 0 .. NumIds - 1
Nothing == [o \in Objects |-> None]

Init ==
  /\ value = Initial /\ exists = Objects /\ deleting = {}
  /\ wpc = [w \in Writers |-> "idle"] /\ wobj = [w \in Writers |-> None]
  /\ hit = [w \in Writers |-> {}] /\ writes = 0
  /\ table = [k \in Keys |-> None] /\ handler = [s \in Subs |-> "idle"]
  /\ key = [s \in Subs |-> None] /\ targets = [s \in Subs |-> {}]
  /\ last = [s \in Subs |-> Nothing]
  /\ closed = {} /\ dirty = {} /\ initial = {} /\ running = {}
  /\ pc = [s \in Subs |-> "none"] /\ todo = [s \in Subs |-> {}]
  /\ got = [s \in Subs |-> Nothing] /\ trigger = {} /\ suppressed = {}
  /\ pending = [i \in Ids |-> None] /\ next = 0
  /\ id = [s \in Subs |-> 0] /\ attempt = [s \in Subs |-> 0] /\ answered = {}
  /\ dcc = TRUE /\ server = "open"

AllExist(k) == Monitored[k] \subseteq exists
Live(s) == \E k \in Keys : table[k] = s
Active == {k \in Keys : table[k] # None}

(***************************************************************************)
(* Kicks: a subscription is marked, and its goroutine started unless it    *)
(* has one.  A kick marks and starts in one step: what happens in between  *)
(* finds the mark.                                                         *)
(***************************************************************************)
\* Mutant: a goroutine is started whatever Close has done.
asyncAlways(s) == pc' = [pc EXCEPT ![s] = "top"]

\* requester.async refuses once Close has begun.
async(s) == pc' = IF server = "open" THEN [pc EXCEPT ![s] = "top"] ELSE pc

\* Mutant: a change that meets a running evaluation is not marked.
kickIdleOnly(s, first) ==
  \/ s \in closed \cup running /\ UNCHANGED <<flagVars, pc>>
  \/ /\ s \notin closed \cup running
     /\ dirty' = dirty \cup {s}
     /\ initial' = initial \cup (IF first THEN {s} ELSE {})
     /\ running' = running \cup {s}
     /\ async(s)

kick(s, first) ==
  \/ s \in closed /\ UNCHANGED <<flagVars, pc>>
  \/ /\ s \notin closed
     /\ dirty' = dirty \cup {s}
     /\ initial' = initial \cup (IF first THEN {s} ELSE {})
     /\ running' = running \cup {s}
     /\ IF s \in running THEN UNCHANGED pc ELSE async(s)

(***************************************************************************)
(* Workers: subscribing, cancelling, deleting, communication control.      *)
(***************************************************************************)
\* Workers, housekeeping and the receive loop run until Close has waited for
\* them.
Serving == server \in {"open", "cancelled"}

\* The objects of a request are looked up before the engine is asked.  (One
\* by one; objects only disappear, so finding all is finding them at once.)
Lookup(s, k) ==
  /\ Serving /\ handler[s] = "idle"
  /\ \/ /\ AllExist(k)
        /\ handler' = [handler EXCEPT ![s] = "found"]
        /\ key' = [key EXCEPT ![s] = k]
        /\ targets' = [targets EXCEPT ![s] = Monitored[k]]
     \/ /\ ~AllExist(k)
        /\ handler' = [handler EXCEPT ![s] = "refused"]
        /\ UNCHANGED subVars
  /\ UNCHANGED <<objectVars, writerVars, table, closed, flagVars, pc, evalVars, reqVars,
                 dcc, server>>

\* errCOVLifetime and errCOVNoSpace.
NoRoom(k) == k \in Refused \/ (table[k] = None /\ Cardinality(Active) >= MaxCOV)

upsert(s) ==
  /\ handler[s] = "found"
  /\ \/ /\ NoRoom(key[s])
        /\ handler' = [handler EXCEPT ![s] = "refused"]
        /\ UNCHANGED <<table, closed>>
     \/ /\ ~NoRoom(key[s])
        /\ handler' = [handler EXCEPT ![s] = "added"]
        /\ table' = [table EXCEPT ![key[s]] = s]
        /\ closed' = closed \cup ({table[key[s]]} \ {None})
  /\ UNCHANGED <<objectVars, writerVars, subVars, flagVars, pc, evalVars, reqVars, dcc,
                 server>>

\* The acknowledgement is sent and result.after runs, or sending it fails.
Reply(s) ==
  /\ handler[s] = "added"
  /\ \/ /\ handler' = [handler EXCEPT ![s] = "done"]
        /\ kick(s, TRUE)
     \/ /\ handler' = [handler EXCEPT ![s] = "unsent"]
        /\ UNCHANGED <<flagVars, pc>>
  /\ UNCHANGED <<objectVars, writerVars, table, subVars, closed, evalVars, reqVars, dcc,
                 server>>

\* Mutant: a subscription that ends is not closed.
EndUnclosed(over) ==
  /\ UNCHANGED closed
  /\ table' = [k \in Keys |-> IF table[k] \in over THEN None ELSE table[k]]

\* Takes subscriptions out of the table and closes them.
End(over) ==
  /\ closed' = closed \cup over
  /\ table' = [k \in Keys |-> IF table[k] \in over THEN None ELSE table[k]]

\* A cancellation is refused when the object it names does not exist.
cancel(k) ==
  /\ Serving /\ table[k] # None
  /\ k \in Multiple \/ AllExist(k)
  /\ End({table[k]})
  /\ UNCHANGED <<objectVars, writerVars, handler, subVars, flagVars, pc, evalVars, reqVars,
                 dcc, server>>

\* deleteObject: the device forgets the object ...
deleteObject(o) ==
  /\ Serving /\ o \in exists \cap Deletable
  /\ exists' = exists \ {o} /\ deleting' = deleting \cup {o}
  /\ UNCHANGED <<value, writerVars, table, handler, subVars, closed, flagVars, pc, evalVars,
                 reqVars, dcc, server>>

\* ... and then the engine.
objectRemoved(o) ==
  /\ o \in deleting
  /\ deleting' = deleting \ {o}
  /\ targets' = [s \in Subs |-> IF Live(s) THEN targets[s] \ {o} ELSE targets[s]]
  /\ End({s \in Subs : Live(s) /\ targets[s] \ {o} = {}})
  /\ UNCHANGED <<value, exists, writerVars, handler, key, flagVars, pc, evalVars, reqVars,
                 dcc, server>>

\* DeviceCommunicationControl, or the end of its duration.
setDCC ==
  /\ Serving
  /\ dcc' = ~dcc
  /\ UNCHANGED <<objectVars, writerVars, table, handler, subVars, closed, flagVars, pc,
                 evalVars, reqVars, server>>

\* Housekeeping: some of the subscriptions with a lifetime have outlived it.
expire ==
  /\ Serving
  /\ \E over \in SUBSET {s \in Subs : Live(s) /\ key[s] \in Finite} :
       over # {} /\ End(over)
  /\ UNCHANGED <<objectVars, writerVars, handler, subVars, flagVars, pc, evalVars, reqVars,
                 dcc, server>>

(***************************************************************************)
(* A change of a value: under the object's lock, then the observers that   *)
(* are registered, then the subscriptions that changed hits, one by one.   *)
(***************************************************************************)
Write(w, o, v) ==
  /\ wpc[w] = "idle" /\ o \in exists /\ value[o] # v /\ writes < MaxWrites
  /\ value' = [value EXCEPT ![o] = v] /\ writes' = writes + 1
  /\ wpc' = [wpc EXCEPT ![w] = "dispatch"] /\ wobj' = [wobj EXCEPT ![w] = o]
  /\ UNCHANGED <<exists, deleting, hit, table, handler, subVars, closed, flagVars, pc,
                 evalVars, reqVars, dcc, server>>

dispatch(w) ==
  /\ wpc[w] = "dispatch"
  /\ wpc' = [wpc EXCEPT ![w] = IF server = "open" THEN "changed" ELSE "idle"]
  /\ UNCHANGED <<objectVars, wobj, hit, writes, table, handler, subVars, closed, flagVars,
                 pc, evalVars, reqVars, dcc, server>>

changed(w) ==
  /\ wpc[w] = "changed"
  /\ wpc' = [wpc EXCEPT ![w] = "kick"]
  /\ hit' = [hit EXCEPT ![w] = {s \in Subs : Live(s) /\ wobj[w] \in targets[s]}]
  /\ UNCHANGED <<objectVars, wobj, writes, table, handler, subVars, closed, flagVars, pc,
                 evalVars, reqVars, dcc, server>>

Kick(w) ==
  /\ wpc[w] = "kick"
  /\ \/ \E s \in hit[w] :
          /\ hit' = [hit EXCEPT ![w] = @ \ {s}]
          /\ kick(s, FALSE)
          /\ UNCHANGED wpc
     \/ /\ hit[w] = {}
        /\ wpc' = [wpc EXCEPT ![w] = "idle"]
        /\ UNCHANGED <<hit, flagVars, pc>>
  /\ UNCHANGED <<objectVars, wobj, writes, table, handler, subVars, closed, evalVars,
                 reqVars, dcc, server>>

(***************************************************************************)
(* The goroutine of a subscription.                                        *)
(***************************************************************************)
\* covEngine.run: the next round, or the end.
Top(s) ==
  /\ pc[s] = "top"
  /\ \/ /\ s \notin dirty \/ s \in closed
        /\ running' = running \ {s}
        /\ pc' = [pc EXCEPT ![s] = "none"]
        /\ UNCHANGED <<dirty, initial, trigger>>
     \/ /\ s \in dirty \ closed
        /\ dirty' = dirty \ {s} /\ initial' = initial \ {s}
        /\ trigger' = (trigger \ {s}) \cup (initial \cap {s})
        /\ pc' = [pc EXCEPT ![s] = "targets"]
        /\ UNCHANGED running
  /\ UNCHANGED <<objectVars, writerVars, table, handler, subVars, closed, last, todo, got,
                 suppressed, reqVars, dcc, server>>

Targets(s) ==
  /\ pc[s] = "targets"
  /\ pc' = [pc EXCEPT ![s] = "read"]
  /\ todo' = [todo EXCEPT ![s] = targets[s]] /\ got' = [got EXCEPT ![s] = Nothing]
  /\ UNCHANGED <<objectVars, writerVars, table, handler, subVars, closed, flagVars, last,
                 trigger, suppressed, reqVars, dcc, server>>

Distance(a, b) == IF a < b THEN b - a ELSE a - b

significant(k, was, v) ==
  IF Increment[k] = 0 THEN v # was ELSE Distance(v, was) >= Increment[k]

Triggers(s, o) ==
  o \in exists /\ (last[s][o] = None \/ significant(key[s], last[s][o], value[o]))

\* One object of evaluate; a deleted one is passed over.  (The code takes the
\* objects in the order of the request.)
Read(s) ==
  /\ pc[s] = "read"
  /\ \E o \in todo[s] :
       /\ todo' = [todo EXCEPT ![s] = @ \ {o}]
       /\ got' = [got EXCEPT ![s] =
            [p \in Objects |-> IF p = o /\ o \in exists THEN value[o] ELSE got[s][p]]]
       /\ trigger' = trigger \cup (IF Triggers(s, o) THEN {s} ELSE {})
  /\ UNCHANGED <<objectVars, writerVars, table, handler, subVars, closed, flagVars, pc,
                 last, suppressed, reqVars, dcc, server>>

\* Whether to notify; the values are remembered as notified before they are
\* sent.  A notification that cannot be encoded is dropped.
Decide(s) ==
  /\ pc[s] = "read" /\ todo[s] = {}
  /\ \/ /\ s \in trigger /\ dcc
        /\ last' = [last EXCEPT ![s] =
             [o \in Objects |-> IF got[s][o] = None THEN last[s][o] ELSE got[s][o]]]
        /\ suppressed' = suppressed \ {s}
        /\ \/ pc' = [pc EXCEPT ![s] = "top"]
           \/ /\ key[s] \in Multiple \/ got[s] # Nothing
              /\ pc' = [pc EXCEPT ![s] = IF key[s] \in Confirmed THEN "invoke" ELSE "send"]
     \/ /\ s \notin trigger \/ ~dcc
        /\ suppressed' = suppressed \cup (trigger \cap {s})
        /\ pc' = [pc EXCEPT ![s] = "top"]
        /\ UNCHANGED last
  /\ got' = [got EXCEPT ![s] = Nothing] /\ trigger' = trigger \ {s}
  /\ UNCHANGED <<objectVars, writerVars, table, handler, subVars, closed, flagVars, todo,
                 reqVars, dcc, server>>

\* An unconfirmed notification is sent once, whatever becomes of it.
Send(s) ==
  /\ pc[s] = "send"
  /\ pc' = [pc EXCEPT ![s] = "top"]
  /\ UNCHANGED <<objectVars, writerVars, table, handler, subVars, closed, flagVars,
                 evalVars, reqVars, dcc, server>>

(***************************************************************************)
(* requester.invoke                                                        *)
(***************************************************************************)
Later(n) == (next + n) % NumIds

\* The first free invoke ID from next on, all of them tried once.
invoke(s) ==
  /\ pc[s] = "invoke"
  /\ \/ /\ \A i \in Ids : pending[i] # None
        /\ pc' = [pc EXCEPT ![s] = "top"]
        /\ UNCHANGED reqVars
     \/ \E n \in Ids :
          /\ pending[Later(n)] = None
          /\ \A j \in Ids : j < n => pending[Later(j)] # None
          /\ pending' = [pending EXCEPT ![Later(n)] = s]
          /\ next' = Later(n + 1)
          /\ id' = [id EXCEPT ![s] = Later(n)]
          /\ attempt' = [attempt EXCEPT ![s] = 0] /\ answered' = answered \ {s}
          /\ pc' = [pc EXCEPT ![s] = "transmit"]
  /\ UNCHANGED <<objectVars, writerVars, table, handler, subVars, closed, flagVars,
                 evalVars, dcc, server>>

\* invoke returns; its deferred function releases the ID.
Return(s) ==
  /\ pending' = [pending EXCEPT ![id[s]] = None]
  /\ pc' = [pc EXCEPT ![s] = "top"]
  /\ id' = [id EXCEPT ![s] = 0] /\ attempt' = [attempt EXCEPT ![s] = 0]
  /\ answered' = answered \ {s}
  /\ UNCHANGED next

Transmit(s) ==
  /\ pc[s] = "transmit"
  /\ \/ pc' = [pc EXCEPT ![s] = "wait"] /\ UNCHANGED reqVars
     \/ Return(s)
  /\ UNCHANGED <<objectVars, writerVars, table, handler, subVars, closed, flagVars,
                 evalVars, dcc, server>>

\* requester.response: the channel holds one answer, to this request or a late
\* one to an earlier request with its invoke ID.
response(s) ==
  /\ Serving /\ pc[s] \in {"transmit", "wait"} /\ s \notin answered
  /\ answered' = answered \cup {s}
  /\ UNCHANGED <<objectVars, writerVars, table, handler, subVars, closed, flagVars, pc,
                 evalVars, pending, next, id, attempt, dcc, server>>

\* An answer, the end of the server, or the last deadline ends the wait ...
WaitOver(s) ==
  /\ pc[s] = "wait"
  /\ s \in answered \/ server # "open" \/ attempt[s] = Retries
  /\ Return(s)
  /\ UNCHANGED <<objectVars, writerVars, table, handler, subVars, closed, flagVars,
                 evalVars, dcc, server>>

\* ... and an earlier deadline starts the next attempt, even when an answer
\* has come in.
Retry(s) ==
  /\ pc[s] = "wait" /\ attempt[s] < Retries
  /\ pc' = [pc EXCEPT ![s] = "transmit"] /\ attempt' = [attempt EXCEPT ![s] = @ + 1]
  /\ UNCHANGED <<objectVars, writerVars, table, handler, subVars, closed, flagVars,
                 evalVars, pending, next, id, answered, dcc, server>>

(***************************************************************************)
(* Server.Close: cancel, wait for the workers, refuse new goroutines and   *)
(* wait for the running ones, close the engine.                            *)
(***************************************************************************)
CloseStep(from, to) ==
  /\ server = from /\ server' = to
  /\ UNCHANGED <<objectVars, writerVars, handler, subVars, flagVars, pc, evalVars, reqVars,
                 dcc>>

Idle == deleting = {} /\ \A s \in Subs : handler[s] \notin {"found", "added"}

CloseCancels == CloseStep("open", "cancelled") /\ UNCHANGED <<table, closed>>
CloseDrains == Idle /\ CloseStep("cancelled", "closing") /\ UNCHANGED <<table, closed>>
CloseWaits ==
  /\ \A s \in Subs : pc[s] = "none"
  /\ CloseStep("closing", "waited") /\ UNCHANGED <<table, closed>>
CloseEngine == CloseStep("waited", "closed") /\ End({s \in Subs : Live(s)})

Rest == server = "closed" /\ UNCHANGED vars

Handle(s) == (\E k \in Keys : Lookup(s, k)) \/ upsert(s) \/ Reply(s)
Round(s) == Top(s) \/ Targets(s) \/ Read(s) \/ Decide(s) \/ Send(s) \/ invoke(s)
            \/ Transmit(s) \/ WaitOver(s) \/ Retry(s)
Change(w) == (\E o \in Objects : \E v \in Values[o] : Write(w, o, v))
             \/ dispatch(w) \/ changed(w) \/ Kick(w)
Closing == CloseCancels \/ CloseDrains \/ CloseWaits \/ CloseEngine

Next ==
  \/ \E s \in Subs : Handle(s) \/ Round(s) \/ response(s)
  \/ \E k \in Keys : cancel(k)
  \/ \E o \in Objects : deleteObject(o) \/ objectRemoved(o)
  \/ \E w \in Writers : Change(w)
  \/ setDCC \/ expire \/ Closing \/ Rest

Spec == Init /\ [][Next]_vars

(***************************************************************************)
(* Properties.                                                             *)
(***************************************************************************)
AllValues == UNION {Values[o] : o \in Objects}
Report == [Objects -> AllValues \cup {None}]
Added == {"added", "done", "unsent"}

\* The type invariant.
TypeOK ==
  /\ value \in [Objects -> AllValues] /\ exists \subseteq Objects /\ deleting \subseteq Objects
  /\ wpc \in [Writers -> {"idle", "dispatch", "changed", "kick"}]
  /\ wobj \in [Writers -> Objects \cup {None}] /\ hit \in [Writers -> SUBSET Subs]
  /\ writes \in 0 .. MaxWrites
  /\ table \in [Keys -> Subs \cup {None}]
  /\ handler \in [Subs -> Added \cup {"idle", "found", "refused"}]
  /\ key \in [Subs -> Keys \cup {None}] /\ targets \in [Subs -> SUBSET Objects]
  /\ last \in [Subs -> Report] /\ closed \subseteq Subs
  /\ dirty \subseteq Subs /\ initial \subseteq Subs /\ running \subseteq Subs
  /\ pc \in [Subs -> {"none", "top", "targets", "read", "send", "invoke", "transmit", "wait"}]
  /\ todo \in [Subs -> SUBSET Objects] /\ got \in [Subs -> Report]
  /\ trigger \subseteq Subs /\ suppressed \subseteq Subs
  /\ pending \in [Ids -> Subs \cup {None}] /\ next \in Ids
  /\ id \in [Subs -> Ids] /\ attempt \in [Subs -> 0 .. Retries] /\ answered \subseteq Subs
  /\ dcc \in BOOLEAN /\ server \in {"open", "cancelled", "closing", "waited", "closed"}

\* The server never holds more subscriptions than it is configured for, also
\* when requests are looked up at once and some replace older ones.
WithinLimit == Cardinality(Active) <= MaxCOV

\* A subscription that was added is in the table, under its key and with an
\* object to monitor, exactly until it is closed: replacing, cancelling,
\* expiring, deleting its last object and Close each do both, so that none
\* goes on after it left the table and none in the table is mute.
TableIsLive ==
  /\ \A s \in Subs : handler[s] \in Added => (Live(s) <=> s \notin closed)
  /\ \A k \in Keys : table[k] # None => key[table[k]] = k /\ targets[table[k]] # {}

\* While the server is open a subscription is marked running exactly when it
\* has its goroutine: kick starts none for a marked one, so a mark left behind
\* would silence the subscription for good.
RunningHasGoroutine ==
  server = "open" => \A s \in Subs : s \in running <=> pc[s] # "none"

Fresh(s, o) == last[s][o] # None /\ ~significant(key[s], last[s][o], value[o])

\* A writer of o still has to kick s.
KickDue(s, o) ==
  \E w \in Writers : \/ wobj[w] = o /\ wpc[w] \in {"dispatch", "changed"}
                     \/ wpc[w] = "kick" /\ s \in hit[w]

\* An evaluation of s is due or has not come to its decision.
EvaluationDue(s) == s \in dirty \/ pc[s] \in {"targets", "read"}

\* No change is lost: when nothing is due for a subscription, the value of an
\* object in its latest notification differs from the current value by less
\* than the increment, however writes, evaluations, retries, re-subscriptions
\* and deletions interleave.  (Unless DeviceCommunicationControl stopped the
\* notification, or the request's acknowledgement could not be sent, so that
\* kick was never called.)
NoLostChange ==
  server = "open" =>
    \A s \in Subs : \A o \in targets[s] \cap exists :
      Live(s) /\ s \notin suppressed /\ (handler[s] = "done" \/ last[s][o] # None)
        => EvaluationDue(s) \/ KickDue(s, o) \/ Fresh(s, o)

\* Once Close has waited for the goroutines, none runs and none starts again,
\* and no invoke ID is left in use; once it returns, no subscription is left.
ClosedIsQuiet ==
  /\ server \in {"waited", "closed"} =>
       (\A s \in Subs : pc[s] = "none") /\ (\A i \in Ids : pending[i] = None)
  /\ server = "closed" => Active = {}
=============================================================================
