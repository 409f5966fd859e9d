----------------------------- MODULE CovProofs -----------------------------
(***************************************************************************)
(* The inductive invariant of Cov and the theorems about it, for every value*)
(* of its constants: first the types and the table of subscriptions, then the*)
(* goroutines with their invoke IDs and the requests that wait, then that no*)
(* change is lost.                                                         *)
(***************************************************************************)
EXTENDS Cov, FiniteSetTheorems, TLAPS

(***************************************************************************)
(* The inductive invariant.                                                *)
(***************************************************************************)
\* A request that has not been added has left no trace; one that has been
\* found has a key and objects.
Waiting ==
  /\ \A s \in Subs : handler[s] \notin Added =>
       /\ s \notin closed /\ s \notin dirty /\ s \notin running /\ s \notin suppressed
       /\ pc[s] = "none" /\ ~Live(s) /\ \A o \in Objects : last[s][o] = None
  /\ \A s \in Subs : handler[s] \notin {"idle", "refused"} => key[s] \in Keys
  /\ \A s \in Subs : handler[s] = "found" => targets[s] # {}
  /\ \A w \in Writers : \A s \in hit[w] : handler[s] \in Added

\* The goroutines and their marks.
Goroutines ==
  /\ \A s \in Subs : pc[s] # "none" => s \in running
  /\ RunningHasGoroutine
  /\ server \in {"waited", "closed"} => \A s \in Subs : pc[s] = "none"

\* An invoke ID in use belongs to the one goroutine that waits under it.
PendingOwner ==
  /\ \A i \in Ids : pending[i] # None =>
       pc[pending[i]] \in {"transmit", "wait"} /\ id[pending[i]] = i
  /\ \A s \in Subs : pc[s] \in {"transmit", "wait"} => pending[id[s]] = s

\* What an evaluation has read is the current value, unless another
\* evaluation follows.
Reading ==
  server = "open" =>
    \A s \in Subs : Live(s) /\ pc[s] = "read" =>
      \A o \in (targets[s] \cap exists) \ todo[s] :
        got[s][o] # None /\ (got[s][o] = value[o] \/ s \in dirty \/ KickDue(s, o))

\* An evaluation that has not triggered has read nothing significant.
Untriggered ==
  \A s \in Subs : pc[s] = "read" /\ s \notin trigger =>
    \A o \in Objects : got[s][o] # None =>
      last[s][o] # None /\ ~significant(key[s], last[s][o], got[s][o])

\* No request is served once Close has waited for the workers, and no
\* subscription is left once it has returned.
EndOfClose ==
  /\ ~Serving => \A s \in Subs : handler[s] \notin {"found", "added"}
  /\ server = "closed" => Active = {}

Inv ==
  /\ TypeOK /\ WithinLimit /\ Waiting /\ TableIsLive /\ Goroutines /\ PendingOwner
  /\ Reading /\ Untriggered /\ NoLostChange /\ EndOfClose

(***************************************************************************)
(* Lemmas about the operators.                                             *)
(***************************************************************************)
\* No value is significantly different from itself (significant).
LEMMA SameInsignificant ==
  ASSUME NEW k \in Keys, NEW v \in Int
  PROVE  ~significant(k, v, v)
  BY CovAssumption DEF significant, Distance

\* The values of the objects are integers.
LEMMA ValuesAreInt == AllValues \subseteq Int /\ None \notin AllValues
  BY Zenon, CovAssumption DEF AllValues

\* The ID that invoke tries is an invoke ID.
LEMMA LaterIsId ==
  ASSUME NEW n \in Nat, next \in Ids
  PROVE  Later(n) \in Ids
<1>1. NumIds \in Nat /\ NumIds > 0 /\ next \in Nat
  BY CovAssumption DEF Ids
<1>2. next + n \in Nat
  BY <1>1
<1> QED
  BY <1>1, <1>2 DEF Later, Ids

\* The variables are functions of the requests, keys, writers, objects and IDs.
LEMMA Domains ==
  Inv => /\ DOMAIN handler = Subs /\ DOMAIN key = Subs /\ DOMAIN targets = Subs
         /\ DOMAIN pc = Subs /\ DOMAIN todo = Subs /\ DOMAIN got = Subs
         /\ DOMAIN last = Subs /\ DOMAIN id = Subs /\ DOMAIN attempt = Subs
         /\ DOMAIN table = Keys /\ DOMAIN pending = Ids /\ DOMAIN value = Objects
         /\ DOMAIN wpc = Writers /\ DOMAIN wobj = Writers /\ DOMAIN hit = Writers
  BY Zenon DEF Inv, TypeOK

\* The values of these functions.
LEMMA Ranges ==
  Inv => /\ next \in Ids
         /\ \A w \in Writers : hit[w] \subseteq Subs
         /\ \A k \in Keys : table[k] \in Subs \cup {None}
         /\ \A i \in Ids : pending[i] \in Subs \cup {None}
         /\ \A s \in Subs : id[s] \in Ids /\ targets[s] \subseteq Objects
         /\ \A o \in Objects : value[o] \in AllValues
  BY Zenon DEF Inv, TypeOK

(***************************************************************************)
(* Types.                                                                  *)
(***************************************************************************)
\* newCOVEngine and newRequester start with well-typed state.
LEMMA InitTypes == Init => TypeOK
<1> SUFFICES ASSUME Init PROVE TypeOK
  BY Zenon
<1>1. value \in [Objects -> AllValues]
  BY Zenon, CovAssumption DEF Init, AllValues
<1>2. Nothing \in Report
  BY Zenon DEF Nothing, Report
<1>3. 0 \in Ids /\ 0 \in 0 .. Retries /\ 0 \in 0 .. MaxWrites
  BY CovAssumption DEF Ids
<1> QED
  BY Zenon, <1>1, <1>2, <1>3 DEF Init, TypeOK, Added

\* kick keeps the types of the flags and of the goroutines.
LEMMA KickTypes ==
  ASSUME TypeOK, NEW s \in Subs, NEW first \in BOOLEAN, kick(s, first)
  PROVE  /\ dirty' \subseteq Subs /\ initial' \subseteq Subs /\ running' \subseteq Subs
         /\ pc' \in [Subs -> {"none", "top", "targets", "read", "send", "invoke",
                              "transmit", "wait"}]
  BY Zenon DEF TypeOK, kick, async, flagVars

\* Taking subscriptions out of the table keeps its type.
LEMMA EndTypes ==
  ASSUME TypeOK, NEW over \in SUBSET Subs, End(over)
  PROVE  closed' \subseteq Subs /\ table' \in [Keys -> Subs \cup {None}]
  BY Zenon DEF TypeOK, End

\* Every step of the engine, the requester and Close keeps the types.
LEMMA NextTypes == TypeOK /\ Waiting /\ [Next]_vars => TypeOK'
<1> SUFFICES ASSUME TypeOK, Waiting, [Next]_vars PROVE TypeOK'
  BY Zenon
<1> USE DEF objectVars, writerVars, subVars, flagVars, evalVars, reqVars
<1>1. ASSUME NEW s \in Subs, NEW k \in Keys, Lookup(s, k) PROVE TypeOK'
  BY SMTT(60), <1>1, CovAssumption DEF TypeOK, Lookup, Added
<1>2. ASSUME NEW s \in Subs, upsert(s) PROVE TypeOK'
  <2>1. key[s] \in Keys
    BY Zenon, <1>2 DEF Waiting, upsert
  <2>2. table' \in [Keys -> Subs \cup {None}] /\ closed' \subseteq Subs
    BY SMTT(30), <1>2, <2>1 DEF TypeOK, upsert
  <2>3. handler' \in [Subs -> Added \cup {"idle", "found", "refused"}]
    BY <1>2 DEF TypeOK, upsert, Added
  <2> QED
    BY Zenon, <1>2, <2>2, <2>3 DEF TypeOK, upsert
<1>3. ASSUME NEW s \in Subs, Reply(s) PROVE TypeOK'
  <2>1. /\ dirty' \subseteq Subs /\ initial' \subseteq Subs /\ running' \subseteq Subs
        /\ pc' \in [Subs -> {"none", "top", "targets", "read", "send", "invoke",
                             "transmit", "wait"}]
    BY Zenon, <1>3, KickTypes DEF TypeOK, Reply
  <2>2. handler' \in [Subs -> Added \cup {"idle", "found", "refused"}]
    BY Zenon, <1>3 DEF TypeOK, Reply, Added
  <2> QED
    BY Zenon, <1>3, <2>1, <2>2 DEF TypeOK, Reply
<1>4. ASSUME NEW s \in Subs, Top(s) PROVE TypeOK'
  BY <1>4 DEF TypeOK, Top
<1>5. ASSUME NEW s \in Subs, Targets(s) PROVE TypeOK'
  BY Zenon, <1>5 DEF TypeOK, Targets, Report, Nothing
<1>6. ASSUME NEW s \in Subs, Read(s) PROVE TypeOK'
  <2>1. PICK o \in todo[s] :
          /\ todo' = [todo EXCEPT ![s] = @ \ {o}]
          /\ got' = [got EXCEPT ![s] =
               [p \in Objects |-> IF p = o /\ o \in exists THEN value[o] ELSE got[s][p]]]
          /\ trigger' = trigger \cup (IF Triggers(s, o) THEN {s} ELSE {})
    BY Zenon, <1>6 DEF Read
  <2>2. [p \in Objects |-> IF p = o /\ o \in exists THEN value[o] ELSE got[s][p]] \in Report
    BY DEF TypeOK, Report
  <2>3. todo' \in [Subs -> SUBSET Objects] /\ got' \in [Subs -> Report] /\ trigger' \subseteq Subs
    BY Zenon, <2>1, <2>2 DEF TypeOK
  <2> QED
    BY Zenon, <1>6, <2>3 DEF TypeOK, Read
<1>7. ASSUME NEW s \in Subs, Decide(s) PROVE TypeOK'
  <2>1. [o \in Objects |-> IF got[s][o] = None THEN last[s][o] ELSE got[s][o]] \in Report
    BY DEF TypeOK, Report
  <2>2. Nothing \in Report
    BY Zenon DEF Nothing, Report
  <2> QED
    BY SMTT(30), <1>7, <2>1, <2>2 DEF TypeOK, Decide
<1>8. ASSUME NEW s \in Subs, Send(s) PROVE TypeOK'
  BY Zenon, <1>8 DEF TypeOK, Send
<1>9. ASSUME NEW s \in Subs, invoke(s) PROVE TypeOK'
  <2>1. CASE UNCHANGED reqVars
    BY <1>9, <2>1 DEF TypeOK, invoke
  <2>2. ASSUME NEW n \in Ids, pending' = [pending EXCEPT ![Later(n)] = s],
               next' = Later(n + 1), id' = [id EXCEPT ![s] = Later(n)],
               attempt' = [attempt EXCEPT ![s] = 0], answered' = answered \ {s},
               pc' = [pc EXCEPT ![s] = "transmit"]
        PROVE  TypeOK'
    <3>1. n \in Nat /\ n + 1 \in Nat
      BY CovAssumption DEF Ids
    <3>2. Later(n) \in Ids /\ Later(n + 1) \in Ids
      BY Zenon, <3>1, LaterIsId DEF TypeOK
    <3>3. 0 \in 0 .. Retries
      BY CovAssumption
    <3> QED
      BY Zenon, <1>9, <2>2, <3>2, <3>3 DEF TypeOK, invoke
  <2> QED
    BY Zenon, <1>9, <2>1, <2>2 DEF invoke
<1>10. ASSUME NEW s \in Subs, Transmit(s) \/ WaitOver(s) PROVE TypeOK'
  <2>1. 0 \in 0 .. Retries /\ 0 \in Ids
    BY CovAssumption DEF Ids
  <2> QED
    BY <1>10, <2>1 DEF TypeOK, Transmit, WaitOver, Return
<1>11. ASSUME NEW s \in Subs, Retry(s) PROVE TypeOK'
  <2>1. attempt[s] + 1 \in 0 .. Retries
    BY <1>11, CovAssumption DEF Retry, TypeOK
  <2> QED
    BY Zenon, <1>11, <2>1 DEF TypeOK, Retry
<1>12. ASSUME NEW s \in Subs, response(s) PROVE TypeOK'
  BY Zenon, <1>12 DEF TypeOK, response
<1>13. ASSUME NEW k \in Keys, cancel(k) PROVE TypeOK'
  <2>1. {table[k]} \in SUBSET Subs
    BY Zenon, <1>13 DEF TypeOK, cancel
  <2> QED
    BY Zenon, <1>13, <2>1, EndTypes DEF TypeOK, cancel
<1>14. ASSUME NEW o \in Objects, deleteObject(o) PROVE TypeOK'
  BY Zenon, <1>14 DEF TypeOK, deleteObject
<1>15. ASSUME NEW o \in Objects, objectRemoved(o) PROVE TypeOK'
  <2>1. closed' \subseteq Subs /\ table' \in [Keys -> Subs \cup {None}]
    BY Zenon, <1>15, EndTypes DEF objectRemoved
  <2> QED
    BY Zenon, <1>15, <2>1 DEF TypeOK, objectRemoved
<1>16. ASSUME NEW w \in Writers, NEW o \in Objects, NEW v \in Values[o], Write(w, o, v)
       PROVE  TypeOK'
  <2>1. v \in AllValues
    BY Zenon DEF AllValues
  <2>2. writes + 1 \in 0 .. MaxWrites
    BY <1>16, CovAssumption DEF Write, TypeOK
  <2> QED
    BY Zenon, <1>16, <2>1, <2>2 DEF TypeOK, Write
<1>17. ASSUME NEW w \in Writers, dispatch(w) \/ changed(w) PROVE TypeOK'
  BY <1>17 DEF TypeOK, dispatch, changed
<1>18. ASSUME NEW w \in Writers, Kick(w) PROVE TypeOK'
  <2>1. ASSUME NEW s \in hit[w], hit' = [hit EXCEPT ![w] = @ \ {s}], kick(s, FALSE),
               UNCHANGED wpc
        PROVE  TypeOK'
    <3>1. s \in Subs
      BY Zenon DEF TypeOK
    <3> QED
      BY Zenon, <1>18, <2>1, <3>1, KickTypes DEF TypeOK, Kick
  <2>2. CASE hit[w] = {}
    BY Zenon, <1>18, <2>2 DEF TypeOK, Kick
  <2> QED
    BY Zenon, <1>18, <2>1, <2>2 DEF Kick
<1>19. CASE setDCC
  BY Zenon, <1>19 DEF TypeOK, setDCC
<1>20. CASE expire
  <2>1. closed' \subseteq Subs /\ table' \in [Keys -> Subs \cup {None}]
    BY Zenon, <1>20, EndTypes DEF expire
  <2> QED
    BY Zenon, <1>20, <2>1 DEF TypeOK, expire
<1>21. CASE CloseCancels \/ CloseDrains \/ CloseWaits
  BY <1>21 DEF TypeOK, CloseCancels, CloseDrains, CloseWaits, CloseStep
<1>22. CASE CloseEngine
  <2>1. closed' \subseteq Subs /\ table' \in [Keys -> Subs \cup {None}]
    BY Zenon, <1>22, EndTypes DEF CloseEngine
  <2> QED
    BY Zenon, <1>22, <2>1 DEF TypeOK, CloseEngine, CloseStep
<1>23. CASE UNCHANGED vars
  BY Zenon, <1>23 DEF TypeOK, vars
<1> QED
  BY Zenon, <1>1, <1>2, <1>3, <1>4, <1>5, <1>6, <1>7, <1>8, <1>9, <1>10, <1>11, <1>12, <1>13, <1>14,
     <1>15, <1>16, <1>17, <1>18, <1>19, <1>20, <1>21, <1>22, <1>23
     DEF Next, Handle, Round, Change, Closing, Rest
(***************************************************************************)
(* The table.                                                              *)
(***************************************************************************)
\* End takes exactly the given subscriptions out of the table.
LEMMA EndLive ==
  ASSUME TypeOK, NEW over \in SUBSET Subs, End(over)
  PROVE  /\ \A s \in Subs : Live(s)' <=> Live(s) /\ s \notin over
         /\ Active' \subseteq Active
  BY Zenon, CovAssumption DEF TypeOK, End, Live, Active

\* The steps that change the table, and what they do to it.
LEMMA TableSteps ==
  ASSUME TypeOK, [Next]_vars
  PROVE  \/ UNCHANGED table
         \/ \E s \in Subs : upsert(s)
         \/ \E over \in SUBSET Subs : End(over)
<1> USE DEF objectVars, writerVars, subVars, flagVars, evalVars, reqVars
<1>1. ASSUME NEW s \in Subs, Handle(s) PROVE UNCHANGED table \/ upsert(s)
  BY Zenon, <1>1 DEF Handle, Lookup, Reply
<1>2. ASSUME NEW s \in Subs, Round(s) \/ response(s) PROVE UNCHANGED table
  BY Zenon, <1>2 DEF Round, response, Top, Targets, Read, Decide, Send, invoke, Transmit, WaitOver,
       Retry
<1>3. ASSUME NEW k \in Keys, cancel(k)
      PROVE  \E over \in SUBSET Subs : End(over)
  <2>1. {table[k]} \in SUBSET Subs
    BY Zenon, <1>3 DEF TypeOK, cancel
  <2> QED
    BY Zenon, <1>3, <2>1 DEF cancel
<1>4. ASSUME NEW o \in Objects, deleteObject(o) \/ objectRemoved(o)
      PROVE  UNCHANGED table \/ \E over \in SUBSET Subs : End(over)
  BY Zenon, <1>4 DEF deleteObject, objectRemoved
<1>5. ASSUME NEW w \in Writers, Change(w) PROVE UNCHANGED table
  BY Zenon, <1>5 DEF Change, Write, dispatch, changed, Kick
<1>6. CASE setDCC \/ CloseCancels \/ CloseDrains \/ CloseWaits \/ Rest \/ UNCHANGED vars
  BY Zenon, <1>6 DEF setDCC, CloseCancels, CloseDrains, CloseWaits, Rest, vars
<1>7. CASE expire \/ CloseEngine
  BY Zenon, <1>7 DEF expire, CloseEngine
<1> QED
  BY Zenon, <1>1, <1>2, <1>3, <1>4, <1>5, <1>6, <1>7 DEF Next, Closing

\* Close finds the workers idle, and leaves the table empty.
LEMMA NextEndOfClose == Inv /\ TypeOK' /\ [Next]_vars => EndOfClose'
<1> SUFFICES ASSUME Inv, TypeOK', [Next]_vars PROVE EndOfClose'
  BY Zenon
<1> USE DEF objectVars, writerVars, subVars, flagVars, evalVars, reqVars
<1>1. ASSUME NEW s \in Subs, NEW k \in Keys, Lookup(s, k) PROVE EndOfClose'
  BY Zenon, <1>1, Domains, Ranges DEF Inv, EndOfClose, Lookup, Serving, Active
<1>2. ASSUME NEW s \in Subs, upsert(s) \/ Reply(s) PROVE EndOfClose'
  <2>1. Serving /\ server' = server
    BY Zenon, <1>2 DEF Inv, EndOfClose, upsert, Reply
  <2> QED
    BY Zenon, <2>1 DEF EndOfClose, Serving
<1>3. CASE CloseDrains
  BY Zenon, <1>3 DEF EndOfClose, CloseDrains, CloseStep, Idle
<1>4. CASE CloseEngine
  <2>1. \A s \in Subs : ~Live(s)'
    BY Zenon, <1>4, EndLive DEF Inv, CloseEngine
  <2>2. Active' = {}
    BY Zenon, <2>1 DEF TypeOK, Active, Live
  <2> QED
    BY Zenon, <1>4, <2>2 DEF Inv, EndOfClose, CloseEngine, CloseStep, Serving
<1>5. CASE CloseCancels \/ CloseWaits
  BY Zenon, <1>5 DEF Inv, EndOfClose, CloseCancels, CloseWaits, CloseStep, Serving, Active
<1>6. CASE UNCHANGED <<handler, server>> /\ Active' \subseteq Active
  BY Zenon, <1>6 DEF Inv, EndOfClose, Serving
<1>7. ASSUME UNCHANGED <<handler, server>>, \A s \in Subs : ~upsert(s) PROVE EndOfClose'
  <2>1. Active' \subseteq Active
    BY Zenon, <1>7, TableSteps, EndLive DEF Inv, Active
  <2> QED
    BY Zenon, <1>6, <1>7, <2>1
<1>8. \/ UNCHANGED <<handler, server>>
      \/ \E s \in Subs : (\E k \in Keys : Lookup(s, k)) \/ upsert(s) \/ Reply(s)
      \/ CloseCancels \/ CloseDrains \/ CloseWaits \/ CloseEngine
  <2>1. ASSUME NEW s \in Subs, Round(s) \/ response(s) PROVE UNCHANGED <<handler, server>>
    BY Zenon, <2>1 DEF Round, response, Top, Targets, Read, Decide, Send, invoke, Transmit,
         WaitOver, Retry
  <2>2. ASSUME NEW w \in Writers, Change(w) PROVE UNCHANGED <<handler, server>>
    BY Zenon, <2>2 DEF Change, Write, dispatch, changed, Kick
  <2>3. ASSUME NEW k \in Keys, cancel(k) PROVE UNCHANGED <<handler, server>>
    BY Zenon, <2>3 DEF cancel
  <2>4. ASSUME NEW o \in Objects, deleteObject(o) \/ objectRemoved(o)
        PROVE  UNCHANGED <<handler, server>>
    BY Zenon, <2>4 DEF deleteObject, objectRemoved
  <2>5. CASE setDCC \/ expire \/ Rest \/ UNCHANGED vars
    BY Zenon, <2>5 DEF setDCC, expire, Rest, vars
  <2> QED
    BY Zenon, <2>1, <2>2, <2>3, <2>4, <2>5 DEF Next, Handle, Closing
<1> QED
  BY Zenon, <1>1, <1>2, <1>3, <1>4, <1>5, <1>7, <1>8

\* A subscription leaves the table exactly when it is closed.
LEMMA NextTableIsLive == Inv /\ TypeOK' /\ [Next]_vars => TableIsLive'
<1> SUFFICES ASSUME Inv, TypeOK', [Next]_vars PROVE TableIsLive'
  BY Zenon
<1> USE DEF objectVars, writerVars, subVars, flagVars, evalVars, reqVars
<1>1. ASSUME NEW s \in Subs, NEW k \in Keys, Lookup(s, k) PROVE TableIsLive'
  <2>1. ~Live(s) /\ handler[s] \notin Added /\ handler'[s] \notin Added
    BY Zenon, <1>1, Domains, Ranges DEF Inv, Waiting, Lookup, Added
  <2>2. \A t \in Subs : t # s => handler'[t] = handler[t] /\ key'[t] = key[t]
                                  /\ targets'[t] = targets[t]
    BY Zenon, <1>1, Domains, Ranges DEF Lookup
  <2>3. UNCHANGED <<table, closed>>
    BY Zenon, <1>1 DEF Lookup
  <2> QED
    BY Zenon, <2>1, <2>2, <2>3, Domains, Ranges DEF Inv, TableIsLive, Live
<1>2. ASSUME NEW s \in Subs, upsert(s) PROVE TableIsLive'
  <2>1. key[s] \in Keys /\ targets[s] # {} /\ ~Live(s) /\ s \notin closed
    BY Zenon, <1>2 DEF Inv, Waiting, upsert, Added
  <2>2. CASE UNCHANGED <<table, closed>> /\ handler' = [handler EXCEPT ![s] = "refused"]
    BY SMTT(30), <1>2, <2>1, <2>2, Domains, Ranges DEF Inv, TableIsLive, Live, upsert, Added
  <2>3. CASE /\ table' = [table EXCEPT ![key[s]] = s]
             /\ closed' = closed \cup ({table[key[s]]} \ {None})
             /\ handler' = [handler EXCEPT ![s] = "added"]
    <3>1. UNCHANGED <<key, targets>>
      BY Zenon, <1>2 DEF upsert
    <3>2. \A k \in Keys : table'[k] # None => key'[table'[k]] = k /\ targets'[table'[k]] # {}
      BY Zenon, <2>1, <2>3, <3>1, Domains, Ranges DEF Inv, TableIsLive
    <3>3. Live(s)' /\ s \notin closed'
      BY Zenon, <2>1, <2>3, Domains, Ranges DEF Live
    <3>4. ASSUME NEW t \in Subs, t # s, handler'[t] \in Added
          PROVE  Live(t)' <=> t \notin closed'
      <4>1. handler[t] \in Added
        BY Zenon, <2>3, <3>4, Domains, Ranges
      <4>2. Live(t) <=> t \notin closed
        BY Zenon, <4>1 DEF Inv, TableIsLive
      <4>3. Live(t)' <=> Live(t) /\ table[key[s]] # t
        BY SMTT(30), <2>1, <2>3, <3>4, CovAssumption, Domains, Ranges DEF Inv, TableIsLive, Live
      <4> QED
        BY Zenon, <2>3, <4>2, <4>3, CovAssumption
    <3> QED
      BY Zenon, <3>2, <3>3, <3>4 DEF TableIsLive
  <2> QED
    BY Zenon, <1>2, <2>2, <2>3 DEF upsert
<1>3. ASSUME NEW s \in Subs, Reply(s) PROVE TableIsLive'
  <2>1. \A t \in Subs : handler'[t] \in Added => handler[t] \in Added
    BY Zenon, <1>3, Domains, Ranges DEF Reply, Added
  <2>2. UNCHANGED <<table, closed, key, targets>>
    BY Zenon, <1>3 DEF Reply
  <2> QED
    BY Zenon, <2>1, <2>2 DEF Inv, TableIsLive, Live
<1>4. ASSUME NEW over \in SUBSET Subs, End(over), UNCHANGED <<handler, key>>,
             \A s \in Subs : Live(s)' => targets'[s] # {}
      PROVE  TableIsLive'
  <2>1. \A s \in Subs : Live(s)' <=> Live(s) /\ s \notin over
    BY Zenon, <1>4, EndLive DEF Inv
  <2>2. \A s \in Subs : handler'[s] \in Added => (Live(s)' <=> s \notin closed')
    BY Zenon, <1>4, <2>1 DEF Inv, TableIsLive, End
  <2>3. ASSUME NEW k \in Keys, table'[k] # None
        PROVE  key'[table'[k]] = k /\ targets'[table'[k]] # {}
    <3>1. table'[k] = table[k] /\ table[k] \in Subs
      BY Zenon, <1>4, <2>3, Domains, Ranges DEF End
    <3>2. Live(table[k])'
      BY Zenon, <3>1 DEF Live
    <3> QED
      BY Zenon, <1>4, <2>3, <3>1, <3>2 DEF Inv, TableIsLive
  <2> QED
    BY Zenon, <2>2, <2>3 DEF TableIsLive
<1>5. ASSUME NEW over \in SUBSET Subs, End(over), UNCHANGED <<handler, key, targets>>
      PROVE  TableIsLive'
  <2>1. \A s \in Subs : Live(s)' => Live(s)
    BY Zenon, <1>5, EndLive DEF Inv
  <2>2. \A s \in Subs : Live(s) => targets[s] # {}
    BY CovAssumption DEF Inv, TableIsLive, Live
  <2>3. \A s \in Subs : Live(s)' => targets'[s] # {}
    BY Zenon, <1>5, <2>1, <2>2
  <2> QED
    BY Zenon, <1>4, <1>5, <2>3
<1>6. ASSUME NEW k \in Keys, cancel(k) PROVE TableIsLive'
  <2>1. {table[k]} \in SUBSET Subs
    BY Zenon, <1>6, Domains, Ranges DEF cancel
  <2> QED
    BY Zenon, <1>5, <1>6, <2>1 DEF cancel
<1>7. ASSUME NEW o \in Objects, objectRemoved(o) PROVE TableIsLive'
  <2> DEFINE over == {s \in Subs : Live(s) /\ targets[s] \ {o} = {}}
  <2>1. over \in SUBSET Subs /\ End(over) /\ UNCHANGED <<handler, key>>
    BY Zenon, <1>7 DEF objectRemoved
  <2>2. \A s \in Subs : Live(s)' => Live(s) /\ s \notin over
    BY Zenon, <2>1, EndLive DEF Inv
  <2>3. \A s \in Subs : Live(s)' => targets'[s] # {}
    BY Zenon, <1>7, <2>2 DEF objectRemoved
  <2> QED
    BY Zenon, <1>4, <2>1, <2>3
<1>8. CASE expire \/ CloseEngine
  BY Zenon, <1>5, <1>8 DEF expire, CloseEngine, CloseStep
<1>9. CASE UNCHANGED <<table, closed, handler, key, targets>>
  BY Zenon, <1>9 DEF Inv, TableIsLive, Live
<1>10. ASSUME NEW s \in Subs, Round(s) \/ response(s)
       PROVE  UNCHANGED <<table, closed, handler, key, targets>>
  BY Zenon, <1>10 DEF Round, response, Top, Targets, Read, Decide, Send, invoke, Transmit,
       WaitOver, Retry
<1>11. ASSUME NEW w \in Writers, Change(w)
       PROVE  UNCHANGED <<table, closed, handler, key, targets>>
  BY Zenon, <1>11 DEF Change, Write, dispatch, changed, Kick
<1>12. ASSUME NEW o \in Objects, deleteObject(o)
       PROVE  UNCHANGED <<table, closed, handler, key, targets>>
  BY Zenon, <1>12 DEF deleteObject
<1>13. CASE setDCC \/ CloseCancels \/ CloseDrains \/ CloseWaits \/ Rest \/ UNCHANGED vars
  BY Zenon, <1>9, <1>13 DEF setDCC, CloseCancels, CloseDrains, CloseWaits, CloseStep, Rest, vars
<1> QED
  BY Zenon, <1>1, <1>2, <1>3, <1>6, <1>7, <1>8, <1>9, <1>10, <1>11, <1>12, <1>13 DEF Next, Handle,
       Closing

(***************************************************************************)
(* Requests and goroutines.                                                *)
(***************************************************************************)
\* What a kick does: it marks a subscription that is not closed, and starts
\* its goroutine if it has none and the server is open.
LEMMA KickEffect ==
  ASSUME Inv, NEW s \in Subs, NEW first \in BOOLEAN, kick(s, first)
  PROVE  /\ dirty \subseteq dirty' /\ dirty' \subseteq dirty \cup {s}
         /\ running \subseteq running' /\ running' \subseteq running \cup {s}
         /\ s \notin closed => s \in dirty' /\ s \in running'
         /\ \A t \in Subs : t # s => pc'[t] = pc[t]
         /\ \/ pc'[s] = pc[s]
            \/ pc[s] = "none" /\ pc'[s] = "top" /\ server = "open" /\ s \in running'
         /\ server = "open" /\ s \in running' => pc'[s] # "none"
<1>1. pc[s] # "none" => s \in running
  BY Zenon DEF Inv, Goroutines
<1>2. server = "open" => (s \in running <=> pc[s] # "none")
  BY Zenon DEF Inv, Goroutines, RunningHasGoroutine
<1>3. CASE s \in closed /\ UNCHANGED <<flagVars, pc>>
  BY Zenon, <1>2, <1>3 DEF flagVars
<1>4. CASE s \notin closed /\ s \in running
  BY Zenon, <1>2, <1>4 DEF kick
<1>5. CASE s \notin closed /\ s \notin running
  BY Zenon, <1>1, <1>5, Domains, Ranges DEF kick, async
<1> QED
  BY Zenon, <1>3, <1>4, <1>5 DEF kick

\* A goroutine belongs to a request that was added.
LEMMA RunnerIsAdded ==
  ASSUME Inv, NEW s \in Subs, pc[s] # "none"
  PROVE  handler[s] \in Added /\ key[s] \in Keys
  BY Zenon DEF Inv, Waiting, Added

\* A request leaves no trace before upsert, whatever the other actors do.
LEMMA NextWaiting == Inv /\ TypeOK' /\ [Next]_vars => Waiting'
<1> SUFFICES ASSUME Inv, TypeOK', [Next]_vars PROVE Waiting'
  BY Zenon
<1> USE DEF objectVars, writerVars, subVars, flagVars, evalVars, reqVars
<1>1. ASSUME NEW s \in Subs, NEW k \in Keys, Lookup(s, k) PROVE Waiting'
  <2>1. handler[s] \notin Added /\ handler'[s] \notin Added
    BY Zenon, <1>1, Domains, Ranges DEF Lookup, Added
  <2>2. \A t \in Subs : t # s => handler'[t] = handler[t] /\ key'[t] = key[t]
                                  /\ targets'[t] = targets[t]
    BY Zenon, <1>1, Domains, Ranges DEF Lookup
  <2>3. handler'[s] \notin {"idle", "refused"} => key'[s] \in Keys /\ targets'[s] # {}
    BY <1>1, CovAssumption, Domains, Ranges DEF Lookup
  <2>4. UNCHANGED <<closed, dirty, running, suppressed, pc, table, last, hit>>
    BY Zenon, <1>1 DEF Lookup
  <2>5. ~Live(s)' /\ \A t \in Subs : Live(t)' <=> Live(t)
    BY Zenon, <2>1, <2>4 DEF Inv, Waiting, Live
  <2>6. \A t \in Subs : handler'[t] \notin Added => handler[t] \notin Added
    BY Zenon, <2>1, <2>2
  <2>7. \A t \in Subs : handler'[t] \in Added <=> handler[t] \in Added
    BY Zenon, <2>1, <2>2
  <2>8. \A w \in Writers : \A t \in hit'[w] : handler'[t] \in Added
    BY Zenon, <2>4, <2>7, Domains, Ranges DEF Inv, Waiting
  <2>9. \A t \in Subs : handler'[t] \notin {"idle", "refused"} => key'[t] \in Keys
    BY Zenon, <2>2, <2>3 DEF Inv, Waiting
  <2>10. \A t \in Subs : handler'[t] = "found" => targets'[t] # {}
    BY Zenon, <2>2, <2>3 DEF Inv, Waiting
  <2> QED
    BY Zenon, <2>4, <2>5, <2>6, <2>8, <2>9, <2>10 DEF Inv, Waiting
<1>2. ASSUME NEW s \in Subs, upsert(s) PROVE Waiting'
  <2>1. key[s] \in Keys
    BY Zenon, <1>2 DEF Inv, Waiting, upsert
  <2>2. \A t \in Subs : t # s => handler'[t] = handler[t]
    BY Zenon, <1>2, Domains, Ranges DEF upsert
  <2>3. UNCHANGED <<key, targets, dirty, running, suppressed, pc, last, hit>>
    BY Zenon, <1>2 DEF upsert
  <2>4. handler[s] = "found" /\ handler[s] \notin Added
    BY Zenon, <1>2 DEF upsert, Added
  <2>5. CASE handler' = [handler EXCEPT ![s] = "refused"] /\ UNCHANGED <<table, closed>>
    <3>1. handler'[s] = "refused"
      BY Zenon, <2>5, Domains, Ranges
    <3> QED
      BY ZenonT(30), <2>2, <2>3, <2>4, <2>5, <3>1, Domains, Ranges DEF Inv, Waiting, Live
  <2>6. CASE /\ handler' = [handler EXCEPT ![s] = "added"]
             /\ table' = [table EXCEPT ![key[s]] = s]
             /\ closed' = closed \cup ({table[key[s]]} \ {None})
    <3>1. handler'[s] = "added" /\ handler'[s] \in Added
      BY Zenon, <2>6, Domains, Ranges DEF Added
    <3>2. ASSUME NEW t \in Subs, t # s, handler[t] \notin Added
          PROVE  ~Live(t)' /\ t \notin closed'
      <4>1. ~Live(t) /\ t \notin closed
        BY Zenon, <3>2 DEF Inv, Waiting
      <4> QED
        BY Zenon, <2>1, <2>6, <3>2, <4>1, Domains, Ranges DEF Live
    <3> QED
      BY Zenon, <2>1, <2>2, <2>3, <3>1, <3>2, Domains, Ranges DEF Inv, Waiting
  <2> QED
    BY Zenon, <1>2, <2>5, <2>6 DEF upsert
<1>3. ASSUME NEW s \in Subs, Reply(s) PROVE Waiting'
  <2>1. handler[s] = "added" /\ \E h \in {"done", "unsent"} : handler' = [handler EXCEPT ![s] = h]
    BY Zenon, <1>3 DEF Reply
  <2>2. /\ \A t \in Subs : t # s => handler'[t] = handler[t]
        /\ handler'[s] \in {"done", "unsent"}
    BY Zenon, <2>1, Domains, Ranges
  <2>3. UNCHANGED <<key, targets, closed, suppressed, table, last, hit>>
    BY Zenon, <1>3 DEF Reply
  <2>4. /\ dirty' \subseteq dirty \cup {s} /\ running' \subseteq running \cup {s}
        /\ \A t \in Subs : t # s => pc'[t] = pc[t]
    BY ZenonT(30), <1>3, KickEffect DEF Reply
  <2>5. \A t \in Subs : handler'[t] \in Added <=> handler[t] \in Added
    BY Zenon, <2>1, <2>2 DEF Added
  <2>6. handler[s] \in Added /\ \A t \in Subs : Live(t)' <=> Live(t)
    BY Zenon, <2>1, <2>3 DEF Added, Live
  <2>7. \A w \in Writers : \A t \in hit'[w] : handler'[t] \in Added
    BY Zenon, <2>3, <2>5, Domains, Ranges DEF Inv, Waiting
  <2>8. \A t \in Subs : /\ handler'[t] \notin {"idle", "refused"} => key'[t] \in Keys
                        /\ handler'[t] = "found" => targets'[t] # {}
    BY Zenon, <2>1, <2>2, <2>3 DEF Inv, Waiting
  <2> QED
    BY Zenon, <2>3, <2>4, <2>5, <2>6, <2>7, <2>8 DEF Inv, Waiting
<1>4. ASSUME NEW s \in Subs, Round(s) \/ response(s) PROVE Waiting'
  <2>1. pc[s] # "none"
    BY Zenon, <1>4 DEF Round, response, Top, Targets, Read, Decide, Send, invoke, Transmit,
         WaitOver, Retry
  <2>2. handler[s] \in Added
    BY Zenon, <2>1, RunnerIsAdded
  <2>3. UNCHANGED <<handler, key, targets, closed, table, hit>>
    BY Zenon, <1>4 DEF Round, response, Top, Targets, Read, Decide, Send, invoke, Transmit,
         WaitOver, Retry
  <2>4. /\ dirty' \subseteq dirty /\ running' \subseteq running
        /\ suppressed' \subseteq suppressed \cup {s}
    BY Zenon, <1>4 DEF Round, response, Top, Targets, Read, Decide, Send, invoke, Transmit,
         WaitOver, Retry
  <2>5. \A t \in Subs : t # s => pc'[t] = pc[t]
    BY Zenon, <1>4, Domains, Ranges DEF Round, response, Top, Targets, Read, Decide, Send, invoke,
         Transmit, WaitOver, Retry, Return
  <2>6. \A t \in Subs : t # s => last'[t] = last[t]
    BY Zenon, <1>4, Domains, Ranges DEF Round, response, Top, Targets, Read, Decide, Send, invoke,
         Transmit, WaitOver, Retry
  <2> QED
    BY <2>2, <2>3, <2>4, <2>5, <2>6, Domains, Ranges DEF Inv, Waiting, Live
<1>5. ASSUME NEW over \in SUBSET Subs, End(over), \A s \in over : Live(s),
             UNCHANGED <<handler, key, dirty, running, suppressed, pc, last, hit>>,
             \A s \in Subs : ~Live(s) => targets'[s] = targets[s]
      PROVE  Waiting'
  <2>1. \A s \in Subs : Live(s)' => Live(s)
    BY Zenon, <1>5, EndLive DEF Inv
  <2>2. \A s \in Subs : handler[s] \notin Added => ~Live(s) /\ s \notin over
    BY Zenon, <1>5 DEF Inv, Waiting
  <2>3. \A s \in Subs : handler[s] \notin Added => s \notin closed'
    BY Zenon, <1>5, <2>2 DEF Inv, Waiting, End
  <2>4. \A s \in Subs : handler[s] = "found" => handler[s] \notin Added
    BY Zenon DEF Added
  <2> QED
    BY Zenon, <1>5, <2>1, <2>2, <2>3, <2>4 DEF Inv, Waiting
<1>6. ASSUME NEW k \in Keys, cancel(k) PROVE Waiting'
  <2>1. {table[k]} \in SUBSET Subs /\ \A s \in {table[k]} : Live(s)
    BY Zenon, <1>6, Domains, Ranges DEF cancel, Live
  <2> QED
    BY Zenon, <1>5, <1>6, <2>1 DEF cancel
<1>7. ASSUME NEW o \in Objects, objectRemoved(o) PROVE Waiting'
  BY ZenonT(30), <1>5, <1>7 DEF objectRemoved
<1>8. CASE expire \/ CloseEngine
  BY Zenon, <1>5, <1>8 DEF expire, CloseEngine, CloseStep
<1>9. ASSUME NEW w \in Writers, changed(w) PROVE Waiting'
  <2>1. \A s \in Subs : Live(s) => handler[s] \in Added
    BY Zenon DEF Inv, Waiting
  <2>2. \A x \in Writers : \A s \in hit'[x] : handler[s] \in Added
    BY Zenon, <1>9, <2>1, Domains, Ranges DEF Inv, Waiting, changed
  <2>3. UNCHANGED <<handler, key, targets, closed, dirty, running, suppressed, pc, table, last>>
    BY Zenon, <1>9 DEF changed
  <2> QED
    BY Zenon, <2>2, <2>3 DEF Inv, Waiting, Live
<1>10. ASSUME NEW w \in Writers, Kick(w) PROVE Waiting'
  <2>1. UNCHANGED <<handler, key, targets, closed, suppressed, table, last>>
    BY Zenon, <1>10 DEF Kick
  <2>2. ASSUME NEW s \in hit[w], hit' = [hit EXCEPT ![w] = @ \ {s}], kick(s, FALSE)
        PROVE  Waiting'
    <3>1. s \in Subs /\ handler[s] \in Added
      BY Zenon, Domains, Ranges DEF Inv, Waiting
    <3>2. /\ dirty' \subseteq dirty \cup {s} /\ running' \subseteq running \cup {s}
          /\ \A t \in Subs : t # s => pc'[t] = pc[t]
      BY Zenon, <2>2, <3>1, KickEffect
    <3>3. \A x \in Writers : hit'[x] \subseteq hit[x]
      BY Zenon, <2>2, Domains, Ranges
    <3> QED
      BY Zenon, <2>1, <3>1, <3>2, <3>3 DEF Inv, Waiting, Live
  <2>3. CASE UNCHANGED <<hit, flagVars, pc>>
    BY Zenon, <2>1, <2>3 DEF Inv, Waiting, Live
  <2> QED
    BY Zenon, <1>10, <2>2, <2>3 DEF Kick
<1>11. CASE UNCHANGED <<handler, key, targets, closed, dirty, running, suppressed, pc, table,
                        last, hit>>
  BY Zenon, <1>11 DEF Inv, Waiting, Live
<1>12. ASSUME NEW w \in Writers, NEW o \in Objects, NEW v \in Values[o], Write(w, o, v)
       PROVE  Waiting'
  BY Zenon, <1>11, <1>12 DEF Write
<1>13. ASSUME NEW w \in Writers, dispatch(w) PROVE Waiting'
  BY Zenon, <1>11, <1>13 DEF dispatch
<1>14. ASSUME NEW o \in Objects, deleteObject(o) PROVE Waiting'
  BY Zenon, <1>11, <1>14 DEF deleteObject
<1>15. CASE setDCC \/ CloseCancels \/ CloseDrains \/ CloseWaits \/ Rest \/ UNCHANGED vars
  BY Zenon, <1>11, <1>15 DEF setDCC, CloseCancels, CloseDrains, CloseWaits, CloseStep, Rest, vars
<1> QED
  BY Zenon, <1>1, <1>2, <1>3, <1>4, <1>6, <1>7, <1>8, <1>9, <1>10, <1>12, <1>13, <1>14, <1>15 DEF
       Next, Handle, Change, Closing
\* kick and run keep the mark and the goroutine together.
LEMMA NextGoroutines == Inv /\ TypeOK' /\ [Next]_vars => Goroutines'
<1> SUFFICES ASSUME Inv, TypeOK', [Next]_vars PROVE Goroutines'
  BY Zenon
<1> USE DEF objectVars, writerVars, subVars, flagVars, evalVars, reqVars
<1>1. ASSUME NEW s \in Subs, NEW first \in BOOLEAN, kick(s, first), UNCHANGED server
      PROVE  Goroutines'
  BY SMTT(30), <1>1, KickEffect, Domains, Ranges DEF Inv, Goroutines, RunningHasGoroutine
<1>2. ASSUME NEW s \in Subs, Top(s) PROVE Goroutines'
  BY Zenon, <1>2, Domains, Ranges DEF Inv, Goroutines, RunningHasGoroutine, Top
<1>3. ASSUME NEW s \in Subs, pc[s] # "none", UNCHANGED <<running, server>>,
             \E p : p # "none" /\ pc' = [pc EXCEPT ![s] = p]
      PROVE  Goroutines'
  BY Zenon, <1>3, Domains, Ranges DEF Inv, Goroutines, RunningHasGoroutine
<1>4. CASE UNCHANGED <<running, pc, server>>
  BY Zenon, <1>4 DEF Inv, Goroutines, RunningHasGoroutine
<1>5. CASE CloseCancels \/ CloseDrains \/ CloseWaits \/ CloseEngine
  BY Zenon, <1>5 DEF Inv, Goroutines, RunningHasGoroutine, CloseCancels, CloseDrains, CloseWaits,
       CloseEngine, CloseStep
<1>6. ASSUME NEW s \in Subs, Handle(s) PROVE Goroutines'
  BY ZenonT(30), <1>1, <1>4, <1>6 DEF Handle, Lookup, upsert, Reply
<1>7. ASSUME NEW s \in Subs, Round(s) PROVE Goroutines'
  <2>1. CASE Targets(s) \/ Send(s) \/ Retry(s)
    BY Zenon, <1>3, <2>1 DEF Targets, Send, Retry
  <2>2. CASE Read(s)
    BY Zenon, <1>4, <2>2 DEF Read
  <2>3. CASE Decide(s)
    BY Zenon, <1>3, <2>3 DEF Decide
  <2>4. CASE invoke(s) \/ Transmit(s) \/ WaitOver(s)
    BY Zenon, <1>3, <2>4 DEF invoke, Transmit, WaitOver, Return
  <2> QED
    BY Zenon, <1>2, <1>7, <2>1, <2>2, <2>3, <2>4 DEF Round
<1>8. ASSUME NEW w \in Writers, Change(w) PROVE Goroutines'
  <2>1. ASSUME NEW s \in hit[w], kick(s, FALSE), UNCHANGED server PROVE Goroutines'
    <3>1. s \in Subs
      BY Zenon, Domains, Ranges
    <3> QED
      BY Zenon, <1>1, <2>1, <3>1
  <2>2. CASE Kick(w)
    BY ZenonT(30), <1>4, <2>1, <2>2 DEF Kick
  <2> QED
    BY ZenonT(30), <1>4, <1>8, <2>2 DEF Change, Write, dispatch, changed
<1>9. ASSUME NEW s \in Subs, response(s) PROVE Goroutines'
  BY Zenon, <1>4, <1>9 DEF response
<1>10. ASSUME NEW k \in Keys, cancel(k) PROVE Goroutines'
  BY Zenon, <1>4, <1>10 DEF cancel
<1>11. ASSUME NEW o \in Objects, deleteObject(o) \/ objectRemoved(o) PROVE Goroutines'
  BY Zenon, <1>4, <1>11 DEF deleteObject, objectRemoved
<1>12. CASE setDCC \/ expire \/ Rest \/ UNCHANGED vars
  BY Zenon, <1>4, <1>12 DEF setDCC, expire, Rest, vars
<1> QED
  BY Zenon, <1>5, <1>6, <1>7, <1>8, <1>9, <1>10, <1>11, <1>12 DEF Next, Closing

\* invoke takes a free invoke ID and gives back its own.
LEMMA NextPendingOwner == Inv /\ TypeOK' /\ [Next]_vars => PendingOwner'
<1> SUFFICES ASSUME Inv, TypeOK', [Next]_vars PROVE PendingOwner'
  BY Zenon
<1> USE DEF objectVars, writerVars, subVars, flagVars, evalVars, reqVars
<1> DEFINE Out == {"transmit", "wait"}
<1>1. ASSUME UNCHANGED <<pending, id>>, \A t \in Subs : pc'[t] \in Out <=> pc[t] \in Out
      PROVE  PendingOwner'
  BY Zenon, <1>1, Domains, Ranges DEF Inv, PendingOwner
<1>2. ASSUME NEW s \in Subs, NEW first \in BOOLEAN, kick(s, first), UNCHANGED <<pending, id>>
      PROVE  PendingOwner'
  <2>1. \A t \in Subs : pc'[t] \in Out <=> pc[t] \in Out
    BY Zenon, <1>2, KickEffect
  <2> QED
    BY Zenon, <1>1, <1>2, <2>1
<1>3. ASSUME NEW s \in Subs, NEW p, pc' = [pc EXCEPT ![s] = p], p \in Out <=> pc[s] \in Out,
             UNCHANGED <<pending, id>>
      PROVE  PendingOwner'
  <2>1. \A t \in Subs : pc'[t] \in Out <=> pc[t] \in Out
    BY Zenon, <1>3, Domains, Ranges
  <2> QED
    BY Zenon, <1>1, <1>3, <2>1
<1>4. CASE UNCHANGED <<pending, id, pc>>
  BY Zenon, <1>1, <1>4
<1>5. ASSUME NEW s \in Subs, pc[s] \in Out, Return(s) PROVE PendingOwner'
  <2>1. pending[id[s]] = s /\ \A i \in Ids : pending[i] = s => i = id[s]
    BY SMTT(30), <1>5, CovAssumption DEF Inv, PendingOwner
  <2>2. \A t \in Subs : t # s => pc'[t] = pc[t] /\ id'[t] = id[t]
    BY Zenon, <1>5, Domains, Ranges DEF Return
  <2>3. pc'[s] = "top" /\ id[s] \in Ids
    BY Zenon, <1>5, Domains, Ranges DEF Return
  <2>4. ASSUME NEW i \in Ids, pending'[i] # None
        PROVE  pc'[pending'[i]] \in Out /\ id'[pending'[i]] = i
    <3>1. i # id[s] /\ pending'[i] = pending[i]
      BY Zenon, <1>5, <2>3, <2>4, Domains, Ranges DEF Return
    <3>2. pending[i] \in Subs /\ pending[i] # s
      BY Zenon, <2>1, <2>4, <3>1, Domains, Ranges
    <3> QED
      BY SMTT(30), <2>2, <2>4, <3>1, <3>2 DEF Inv, PendingOwner
  <2>5. ASSUME NEW t \in Subs, pc'[t] \in Out PROVE pending'[id'[t]] = t
    <3>1. t # s /\ pc[t] \in Out /\ id'[t] = id[t]
      BY Zenon, <2>2, <2>3, <2>5
    <3>2. pending[id[t]] = t /\ id[t] \in Ids
      BY Zenon, <3>1, Domains, Ranges DEF Inv, PendingOwner
    <3>3. id[t] # id[s]
      BY Zenon, <2>1, <3>1, <3>2
    <3> QED
      BY Zenon, <1>5, <3>1, <3>2, <3>3, Domains, Ranges DEF Return
  <2> QED
    BY Zenon, <2>4, <2>5 DEF PendingOwner
<1>6. ASSUME NEW s \in Subs, invoke(s) PROVE PendingOwner'
  <2>1. pc[s] = "invoke" /\ pc[s] \notin Out
    BY Zenon, <1>6 DEF invoke
  <2>2. CASE pc' = [pc EXCEPT ![s] = "top"] /\ UNCHANGED reqVars
    BY ZenonT(30), <1>3, <2>1, <2>2
  <2>3. ASSUME NEW i \in Ids, pending[i] = None, pending' = [pending EXCEPT ![i] = s],
               id' = [id EXCEPT ![s] = i], pc' = [pc EXCEPT ![s] = "transmit"]
        PROVE  PendingOwner'
    <3>1. \A j \in Ids : pending[j] # s
      BY SMTT(30), <2>1, CovAssumption DEF Inv, PendingOwner
    <3>2. pc'[s] = "transmit" /\ id'[s] = i /\ pending'[i] = s
      BY Zenon, <2>3, Domains, Ranges
    <3>3. \A t \in Subs : t # s => pc'[t] = pc[t] /\ id'[t] = id[t]
      BY Zenon, <2>3, Domains, Ranges
    <3>4. \A j \in Ids : j # i => pending'[j] = pending[j]
      BY Zenon, <2>3, Domains, Ranges
    <3>5. \A j \in Ids : pending'[j] # None => pc'[pending'[j]] \in Out /\ id'[pending'[j]] = j
      BY <3>1, <3>2, <3>3, <3>4, Domains, Ranges DEF Inv, PendingOwner
    <3>6. ASSUME NEW t \in Subs, t # s, pc'[t] \in Out PROVE pending'[id'[t]] = t
      <4>1. pending[id[t]] = t /\ id[t] \in Ids /\ id'[t] = id[t]
        BY Zenon, <3>3, <3>6, Domains, Ranges DEF Inv, PendingOwner
      <4> QED
        BY Zenon, <2>3, <3>4, <4>1, CovAssumption
    <3> QED
      BY Zenon, <3>2, <3>5, <3>6 DEF PendingOwner
  <2>4. \A n \in Ids : n \in Nat
    BY CovAssumption DEF Ids
  <2>5. \A n \in Ids : Later(n) \in Ids
    BY ZenonT(30), <2>4, LaterIsId, Domains, Ranges
  <2> QED
    BY Zenon, <1>6, <2>2, <2>3, <2>5 DEF invoke
<1>7. ASSUME NEW s \in Subs, Handle(s) PROVE PendingOwner'
  BY Zenon, <1>2, <1>4, <1>7 DEF Handle, Lookup, upsert, Reply
<1>8. ASSUME NEW s \in Subs, Round(s) PROVE PendingOwner'
  <2>1. CASE Top(s)
    BY Zenon, <1>3, <2>1 DEF Top
  <2>2. CASE Targets(s) \/ Send(s) \/ Retry(s)
    BY Zenon, <1>3, <2>2 DEF Targets, Send, Retry
  <2>3. CASE Read(s)
    BY Zenon, <1>4, <2>3 DEF Read
  <2>4. CASE Decide(s)
    BY Zenon, <1>3, <2>4 DEF Decide
  <2>5. CASE Transmit(s) \/ WaitOver(s)
    BY Zenon, <1>3, <1>5, <2>5 DEF Transmit, WaitOver
  <2> QED
    BY Zenon, <1>6, <1>8, <2>1, <2>2, <2>3, <2>4, <2>5 DEF Round
<1>9. ASSUME NEW w \in Writers, Change(w) PROVE PendingOwner'
  <2>1. ASSUME NEW s \in hit[w], kick(s, FALSE), UNCHANGED <<pending, id>> PROVE PendingOwner'
    <3>1. s \in Subs
      BY Zenon, Domains, Ranges
    <3> QED
      BY Zenon, <1>2, <2>1, <3>1
  <2>2. CASE Kick(w)
    BY Zenon, <1>4, <2>1, <2>2 DEF Kick
  <2> QED
    BY Zenon, <1>4, <1>9, <2>2 DEF Change, Write, dispatch, changed
<1>10. ASSUME NEW s \in Subs, response(s) PROVE PendingOwner'
  BY Zenon, <1>4, <1>10 DEF response
<1>11. ASSUME NEW k \in Keys, cancel(k) PROVE PendingOwner'
  BY Zenon, <1>4, <1>11 DEF cancel
<1>12. ASSUME NEW o \in Objects, deleteObject(o) \/ objectRemoved(o) PROVE PendingOwner'
  BY Zenon, <1>4, <1>12 DEF deleteObject, objectRemoved
<1>13. CASE setDCC \/ expire \/ Closing \/ Rest \/ UNCHANGED vars
  BY Zenon, <1>4, <1>13 DEF setDCC, expire, Closing, CloseCancels, CloseDrains, CloseWaits,
       CloseEngine, CloseStep, Rest, vars
<1> QED
  BY Zenon, <1>7, <1>8, <1>9, <1>10, <1>11, <1>12, <1>13 DEF Next
(***************************************************************************)
(* Evaluations.                                                            *)
(***************************************************************************)
\* evaluate triggers on the first significant value it reads.
LEMMA NextUntriggered == Inv /\ TypeOK' /\ [Next]_vars => Untriggered'
<1> SUFFICES ASSUME Inv, TypeOK', [Next]_vars PROVE Untriggered'
  BY Zenon
<1> USE DEF objectVars, writerVars, subVars, flagVars, evalVars, reqVars
<1>1. ASSUME UNCHANGED <<last, got, trigger>>,
             \A t \in Subs : pc'[t] = "read" => pc[t] = "read" /\ key'[t] = key[t]
      PROVE  Untriggered'
  BY Zenon, <1>1 DEF Inv, Untriggered, significant
<1>2. ASSUME NEW s \in Subs, NEW first \in BOOLEAN, kick(s, first),
             UNCHANGED <<last, got, trigger, key>>
      PROVE  Untriggered'
  <2>1. \A t \in Subs : pc'[t] = "read" => pc[t] = "read"
    BY Zenon, <1>2, KickEffect
  <2> QED
    BY Zenon, <1>1, <1>2, <2>1
<1>3. ASSUME NEW s \in Subs, NEW p, pc' = [pc EXCEPT ![s] = p], p # "read",
             UNCHANGED <<key>>,
             \A t \in Subs : t # s => last'[t] = last[t] /\ got'[t] = got[t]
                                       /\ (t \in trigger' <=> t \in trigger)
      PROVE  Untriggered'
  BY SMTT(30), <1>3, Domains, Ranges DEF Inv, Untriggered, significant
<1>4. CASE UNCHANGED <<last, got, trigger, key, pc>>
  BY Zenon, <1>1, <1>4
<1>5. ASSUME NEW s \in Subs, NEW k \in Keys, Lookup(s, k) PROVE Untriggered'
  <2>1. pc[s] = "none"
    BY ZenonT(30), <1>5 DEF Inv, Waiting, Lookup, Added
  <2>2. \A t \in Subs : t # s => key'[t] = key[t]
    BY Zenon, <1>5, Domains, Ranges DEF Lookup
  <2> QED
    BY Zenon, <1>1, <1>5, <2>1, <2>2 DEF Lookup
<1>6. ASSUME NEW s \in Subs, upsert(s) \/ Reply(s) PROVE Untriggered'
  BY Zenon, <1>2, <1>4, <1>6 DEF upsert, Reply
<1>7. ASSUME NEW s \in Subs, Targets(s) PROVE Untriggered'
  <2>1. /\ \A o \in Objects : got'[s][o] = None
        /\ \A t \in Subs : t # s => got'[t] = got[t] /\ pc'[t] = pc[t]
    BY Zenon, <1>7, Domains, Ranges DEF Targets, Nothing
  <2>2. UNCHANGED <<last, trigger, key>>
    BY Zenon, <1>7 DEF Targets
  <2> QED
    BY ZenonT(30), <2>1, <2>2 DEF Inv, Untriggered, significant
<1>8. ASSUME NEW s \in Subs, Read(s) PROVE Untriggered'
  <2>1. PICK o \in todo[s] :
          /\ got' = [got EXCEPT ![s] =
               [p \in Objects |-> IF p = o /\ o \in exists THEN value[o] ELSE got[s][p]]]
          /\ trigger' = trigger \cup (IF Triggers(s, o) THEN {s} ELSE {})
    BY Zenon, <1>8 DEF Read
  <2>2. pc[s] = "read" /\ UNCHANGED <<pc, last, key>>
    BY Zenon, <1>8 DEF Read
  <2>3. ASSUME NEW t \in Subs, t # s, pc'[t] = "read", t \notin trigger',
               NEW p \in Objects, got'[t][p] # None
        PROVE  last'[t][p] # None /\ ~significant(key[t], last'[t][p], got'[t][p])
    <3>1. got'[t] = got[t] /\ t \notin trigger
      BY Zenon, <2>1, <2>3, Domains, Ranges
    <3> QED
      BY Zenon, <2>2, <2>3, <3>1 DEF Inv, Untriggered
  <2>4. ASSUME s \notin trigger', NEW p \in Objects, got'[s][p] # None
        PROVE  last'[s][p] # None /\ ~significant(key[s], last'[s][p], got'[s][p])
    <3>1. s \notin trigger /\ ~Triggers(s, o)
      BY Zenon, <2>1, <2>4
    <3>2. got'[s][p] = IF p = o /\ o \in exists THEN value[o] ELSE got[s][p]
      BY ZenonT(30), <2>1, Domains, Ranges
    <3>3. CASE p = o /\ o \in exists
      BY Zenon, <2>2, <3>1, <3>2, <3>3 DEF Triggers
    <3>4. CASE ~(p = o /\ o \in exists)
      BY ZenonT(30), <2>2, <2>4, <3>1, <3>2, <3>4 DEF Inv, Untriggered
    <3> QED
      BY ZenonT(30), <3>3, <3>4
  <2> QED
    BY ZenonT(30), <2>2, <2>3, <2>4 DEF Untriggered, significant
<1>9. ASSUME NEW s \in Subs, Decide(s) PROVE Untriggered'
  <2>1. \E p : pc' = [pc EXCEPT ![s] = p] /\ p # "read"
    BY Zenon, <1>9 DEF Decide
  <2>2. \A t \in Subs : t # s => last'[t] = last[t] /\ got'[t] = got[t]
                                  /\ (t \in trigger' <=> t \in trigger)
    BY Zenon, <1>9, Domains, Ranges DEF Decide
  <2> QED
    BY Zenon, <1>3, <1>9, <2>1, <2>2 DEF Decide
<1>10. ASSUME NEW s \in Subs, Top(s) PROVE Untriggered'
  <2>1. \E p : pc' = [pc EXCEPT ![s] = p] /\ p # "read"
    BY Zenon, <1>10 DEF Top
  <2>2. \A t \in Subs : t # s => (t \in trigger' <=> t \in trigger)
    BY Zenon, <1>10 DEF Top
  <2> QED
    BY Zenon, <1>3, <1>10, <2>1, <2>2 DEF Top
<1>11. ASSUME NEW s \in Subs, Send(s) \/ invoke(s) \/ Transmit(s) \/ WaitOver(s) \/ Retry(s)
       PROVE  Untriggered'
  <2>1. \E p : pc' = [pc EXCEPT ![s] = p] /\ p # "read"
    BY Zenon, <1>11 DEF Send, invoke, Transmit, WaitOver, Retry, Return
  <2>2. UNCHANGED <<last, got, trigger, key>>
    BY Zenon, <1>11 DEF Send, invoke, Transmit, WaitOver, Retry
  <2> QED
    BY Zenon, <1>3, <2>1, <2>2
<1>12. ASSUME NEW w \in Writers, Change(w) PROVE Untriggered'
  <2>1. ASSUME NEW s \in hit[w], kick(s, FALSE), UNCHANGED <<last, got, trigger, key>>
        PROVE  Untriggered'
    <3>1. s \in Subs
      BY Zenon, Domains, Ranges
    <3> QED
      BY Zenon, <1>2, <2>1, <3>1
  <2>2. CASE Kick(w)
    BY Zenon, <1>4, <2>1, <2>2 DEF Kick
  <2> QED
    BY Zenon, <1>4, <1>12, <2>2 DEF Change, Write, dispatch, changed
<1>13. ASSUME NEW s \in Subs, response(s) PROVE Untriggered'
  BY Zenon, <1>4, <1>13 DEF response
<1>14. ASSUME NEW k \in Keys, cancel(k) PROVE Untriggered'
  BY Zenon, <1>4, <1>14 DEF cancel
<1>15. ASSUME NEW o \in Objects, deleteObject(o) \/ objectRemoved(o) PROVE Untriggered'
  BY Zenon, <1>4, <1>15 DEF deleteObject, objectRemoved
<1>16. CASE setDCC \/ expire \/ Closing \/ Rest \/ UNCHANGED vars
  BY Zenon, <1>4, <1>16 DEF setDCC, expire, Closing, CloseCancels, CloseDrains, CloseWaits,
       CloseEngine, CloseStep, Rest, vars
<1> QED
  BY Zenon, <1>5, <1>6, <1>7, <1>8, <1>9, <1>10, <1>11, <1>12, <1>13, <1>14, <1>15, <1>16 DEF Next,
       Handle, Round

(***************************************************************************)
(* No change is lost.                                                      *)
(***************************************************************************)
\* What a step that is not the subscription's own leaves alone.
Steady(s) ==
  /\ Live(s) /\ targets'[s] \subseteq targets[s] /\ exists' \subseteq exists
  /\ key'[s] = key[s] /\ handler'[s] = handler[s]
  /\ last'[s] = last[s] /\ got'[s] = got[s] /\ todo'[s] = todo[s]
  /\ (s \in suppressed' <=> s \in suppressed)
  /\ s \in dirty => s \in dirty'
  /\ pc[s] \in {"targets", "read"} => pc'[s] = pc[s]
  /\ pc'[s] \in {"targets", "read"} => pc'[s] = pc[s]

\* A subscription that is in the table after a step of the open server was
\* added by the step, evaluates in it, or is left alone by it.
LEMMA SubSteps ==
  ASSUME Inv, TypeOK', [Next]_vars, NEW s \in Subs, Live(s)', server' = "open"
  PROVE  /\ server = "open"
         /\ \/ upsert(s) \/ Reply(s) \/ Top(s) \/ Targets(s) \/ Read(s) \/ Decide(s)
            \/ Steady(s)
<1> USE DEF objectVars, writerVars, subVars, flagVars, evalVars, reqVars
<1>1. server = "open"
  BY Zenon DEF Next, Handle, Round, Change, Closing, Lookup, upsert, Reply, Top, Targets, Read,
       Decide, Send, invoke, Transmit, response, WaitOver, Retry, cancel, deleteObject,
       objectRemoved, setDCC, expire, Write, dispatch, changed, Kick, CloseCancels, CloseDrains,
       CloseWaits, CloseEngine, CloseStep, Rest, vars
<1>2. Live(s) => handler[s] \in Added
  BY Zenon DEF Inv, Waiting
<1>3. ASSUME UNCHANGED <<table, targets, exists, key, handler, evalVars, dirty, pc>>
      PROVE  Steady(s)
  BY Zenon, <1>3 DEF Steady, Live
<1>4. ASSUME NEW t \in Subs, t # s, Handle(t) PROVE Steady(s)
  <2>1. ASSUME NEW k \in Keys, Lookup(t, k) PROVE Steady(s)
    BY Zenon, <1>4, <2>1, Domains, Ranges DEF Steady, Live, Lookup
  <2>2. CASE upsert(t)
    <3>1. table' = [table EXCEPT ![key[t]] = t] \/ UNCHANGED table
      BY Zenon, <2>2 DEF upsert
    <3>2. Live(s)
      BY Zenon, <1>4, <3>1, Domains, Ranges DEF Live
    <3>3. handler'[s] = handler[s]
      BY Zenon, <1>4, <2>2, Domains, Ranges DEF upsert
    <3> QED
      BY Zenon, <2>2, <3>2, <3>3 DEF Steady, upsert
  <2>3. CASE Reply(t)
    <3> \E h \in Added : handler' = [handler EXCEPT ![t] = h]
      BY Zenon, <2>3 DEF Reply, Added
    <3>1. handler'[s] = handler[s]
      BY Zenon, <1>4, Domains, Ranges
    <3>2. pc'[s] = pc[s] /\ dirty \subseteq dirty'
      BY Zenon, <1>4, <2>3, KickEffect DEF Reply
    <3> QED
      BY Zenon, <2>3, <3>1, <3>2 DEF Steady, Reply, Live
  <2> QED
    BY Zenon, <1>4, <2>1, <2>2, <2>3 DEF Handle
<1>5. ASSUME NEW k \in Keys, Lookup(s, k) PROVE Steady(s)
  <2>1. Live(s)
    BY ZenonT(30), <1>5 DEF Lookup, Live
  <2> QED
    BY Zenon, <1>2, <1>5, <2>1 DEF Lookup, Added
<1>6. ASSUME NEW t \in Subs, t # s, Round(t) \/ response(t) PROVE Steady(s)
  <2>1. /\ Live(s) /\ UNCHANGED <<targets, exists, key, handler>>
        /\ (s \in suppressed' <=> s \in suppressed) /\ (s \in dirty => s \in dirty')
    BY Zenon, <1>6 DEF Round, response, Top, Targets, Read, Decide, Send, invoke, Transmit,
         WaitOver, Retry, Live
  <2>2. pc'[s] = pc[s]
    BY Zenon, <1>6, Domains, Ranges DEF Round, response, Top, Targets, Read, Decide, Send, invoke,
         Transmit, WaitOver, Retry, Return
  <2>3. last'[s] = last[s] /\ got'[s] = got[s] /\ todo'[s] = todo[s]
    BY Zenon, <1>6, Domains, Ranges DEF Round, response, Top, Targets, Read, Decide, Send, invoke,
         Transmit, WaitOver, Retry
  <2> QED
    BY Zenon, <2>1, <2>2, <2>3 DEF Steady
<1>7. CASE Send(s) \/ invoke(s) \/ Transmit(s) \/ WaitOver(s) \/ Retry(s) \/ response(s)
  <2>1. /\ Live(s)
        /\ UNCHANGED <<targets, exists, key, handler, last, got, todo, suppressed, dirty>>
    BY Zenon, <1>7 DEF Send, invoke, Transmit, WaitOver, Retry, response, Live
  <2>2. pc[s] \notin {"targets", "read"} /\ pc'[s] \notin {"targets", "read"}
    BY Zenon, <1>7, Domains, Ranges DEF Send, invoke, Transmit, WaitOver, Retry, response, Return
  <2> QED
    BY Zenon, <1>1, <2>1, <2>2 DEF Steady
<1>8. ASSUME NEW over \in SUBSET Subs, End(over),
             UNCHANGED <<key, handler, evalVars, dirty, pc, exists>>,
             targets'[s] \subseteq targets[s]
      PROVE  Steady(s)
  <2>1. Live(s)
    BY ZenonT(30), <1>8, EndLive DEF Inv
  <2> QED
    BY Zenon, <1>8, <2>1 DEF Steady
<1>9. ASSUME NEW k \in Keys, cancel(k) PROVE Steady(s)
  <2>1. {table[k]} \in SUBSET Subs
    BY Zenon, <1>9, Domains, Ranges DEF cancel
  <2> QED
    BY Zenon, <1>8, <1>9, <2>1 DEF cancel
<1>10. ASSUME NEW o \in Objects, deleteObject(o) PROVE Steady(s)
  BY ZenonT(30), <1>10 DEF deleteObject, Steady, Live
<1>11. ASSUME NEW o \in Objects, objectRemoved(o) PROVE Steady(s)
  <2>1. targets'[s] \subseteq targets[s]
    BY Zenon, <1>11, Domains, Ranges DEF objectRemoved
  <2> QED
    BY Zenon, <1>8, <1>11, <2>1 DEF objectRemoved
<1>12. CASE expire
  BY Zenon, <1>8, <1>12 DEF expire
<1>13. ASSUME NEW w \in Writers, Change(w) PROVE Steady(s)
  <2>1. ASSUME NEW t \in hit[w], kick(t, FALSE), UNCHANGED <<table, targets, exists, key,
               handler, evalVars>>
        PROVE  Steady(s)
    <3>1. t \in Subs
      BY Zenon, Domains, Ranges
    <3>2. dirty \subseteq dirty' /\ (pc'[s] = pc[s] \/ (pc[s] = "none" /\ pc'[s] = "top"))
      BY Zenon, <2>1, <3>1, KickEffect
    <3> QED
      BY Zenon, <2>1, <3>2 DEF Steady, Live
  <2>2. CASE Kick(w)
    BY Zenon, <1>3, <2>1, <2>2 DEF Kick
  <2> QED
    BY Zenon, <1>3, <1>13, <2>2 DEF Change, Write, dispatch, changed
<1>14. CASE setDCC \/ Closing \/ Rest \/ UNCHANGED vars
  BY Zenon, <1>1, <1>3, <1>14 DEF setDCC, Closing, CloseCancels, CloseDrains, CloseWaits,
       CloseEngine, CloseStep, Rest, vars
<1>15. ASSUME NEW t \in Subs, Handle(t) \/ Round(t) \/ response(t)
       PROVE  \/ upsert(s) \/ Reply(s) \/ Top(s) \/ Targets(s) \/ Read(s) \/ Decide(s)
              \/ Steady(s)
  BY Zenon, <1>4, <1>5, <1>6, <1>7, <1>15 DEF Handle, Round
<1> QED
  BY Zenon, <1>1, <1>9, <1>10, <1>11, <1>12, <1>13, <1>14, <1>15 DEF Next

\* A change of a value is due to be kicked from the write on, and a kick that
\* is due stays due or marks the subscription.
LEMMA ChangeSteps ==
  ASSUME Inv, TypeOK', [Next]_vars, NEW s \in Subs, NEW o \in Objects, server = "open"
  PROVE  /\ value'[o] = value[o] \/ KickDue(s, o)'
         /\ KickDue(s, o) /\ Live(s) /\ o \in targets[s] => KickDue(s, o)' \/ s \in dirty'
<1> USE DEF objectVars, writerVars, subVars, flagVars, evalVars, reqVars
<1>1. CASE UNCHANGED <<value, wpc, wobj, hit>>
  BY Zenon, <1>1 DEF KickDue
<1>2. ASSUME NEW w \in Writers, NEW p \in Objects, NEW v \in Values[p], Write(w, p, v)
      PROVE  /\ value'[o] = value[o] \/ KickDue(s, o)'
             /\ KickDue(s, o) => KickDue(s, o)'
  <2>1. /\ wpc[w] = "idle" /\ wpc'[w] = "dispatch" /\ wobj'[w] = p /\ UNCHANGED hit
        /\ \A x \in Writers : x # w => wpc'[x] = wpc[x] /\ wobj'[x] = wobj[x]
    BY Zenon, <1>2, Domains, Ranges DEF Write
  <2>2. p # o => value'[o] = value[o]
    BY Zenon, <1>2, Domains, Ranges DEF Write
  <2>3. KickDue(s, p)'
    BY Zenon, <2>1 DEF KickDue
  <2>4. KickDue(s, o) => KickDue(s, o)'
    BY Zenon, <2>1 DEF KickDue
  <2> QED
    BY ZenonT(30), <2>2, <2>3, <2>4
<1>3. ASSUME NEW w \in Writers, dispatch(w)
      PROVE  value'[o] = value[o] /\ (KickDue(s, o) => KickDue(s, o)')
  <2>1. /\ wpc[w] = "dispatch" /\ wpc'[w] = "changed" /\ UNCHANGED <<value, wobj, hit>>
        /\ \A x \in Writers : x # w => wpc'[x] = wpc[x]
    BY Zenon, <1>3, Domains, Ranges DEF dispatch
  <2> QED
    BY Zenon, <2>1 DEF KickDue
<1>4. ASSUME NEW w \in Writers, changed(w)
      PROVE  /\ value'[o] = value[o]
             /\ KickDue(s, o) /\ Live(s) /\ o \in targets[s] => KickDue(s, o)'
  <2>1. /\ wpc[w] = "changed" /\ wpc'[w] = "kick" /\ UNCHANGED <<value, wobj>>
        /\ hit'[w] = {t \in Subs : Live(t) /\ wobj[w] \in targets[t]}
        /\ \A x \in Writers : x # w => wpc'[x] = wpc[x] /\ hit'[x] = hit[x]
    BY Zenon, <1>4, Domains, Ranges DEF changed
  <2> QED
    BY ZenonT(30), <2>1 DEF KickDue
<1>5. ASSUME NEW w \in Writers, Kick(w)
      PROVE  /\ value'[o] = value[o]
             /\ KickDue(s, o) /\ Live(s) => KickDue(s, o)' \/ s \in dirty'
  <2>1. Live(s) => s \notin closed
    BY Zenon DEF Inv, TableIsLive, Waiting
  <2>2. ASSUME NEW t \in hit[w], hit' = [hit EXCEPT ![w] = @ \ {t}], kick(t, FALSE),
               KickDue(s, o), Live(s), UNCHANGED <<wpc, wobj>>
        PROVE  KickDue(s, o)' \/ s \in dirty'
    <3>1. t \in Subs
      BY Zenon, Domains, Ranges
    <3>2. t = s => s \in dirty'
      BY ZenonT(30), <2>1, <2>2, <3>1, KickEffect
    <3>3. ASSUME NEW x \in Writers, t # s, s \in hit[x] PROVE s \in hit'[x]
      BY Zenon, <2>2, <3>3, Domains, Ranges
    <3> QED
      BY Zenon, <2>2, <3>2, <3>3 DEF KickDue
  <2>3. CASE hit[w] = {} /\ wpc' = [wpc EXCEPT ![w] = "idle"] /\ UNCHANGED <<hit, wobj>>
    <3>1. wpc[w] = "kick" /\ \A x \in Writers : x # w => wpc'[x] = wpc[x]
      BY Zenon, <1>5, <2>3, Domains, Ranges DEF Kick
    <3> QED
      BY Zenon, <1>5, <2>3, <3>1 DEF KickDue, Kick
  <2> QED
    BY Zenon, <1>5, <2>2, <2>3 DEF Kick
<1>6. ASSUME NEW t \in Subs, Handle(t) \/ Round(t) \/ response(t)
      PROVE  UNCHANGED <<value, wpc, wobj, hit>>
  BY Zenon, <1>6 DEF Handle, Lookup, upsert, Reply, Round, response, Top, Targets, Read, Decide,
       Send, invoke, Transmit, WaitOver, Retry
<1>7. ASSUME NEW k \in Keys, cancel(k) PROVE UNCHANGED <<value, wpc, wobj, hit>>
  BY Zenon, <1>7 DEF cancel
<1>8. ASSUME NEW p \in Objects, deleteObject(p) \/ objectRemoved(p)
      PROVE  UNCHANGED <<value, wpc, wobj, hit>>
  BY Zenon, <1>8 DEF deleteObject, objectRemoved
<1>9. ASSUME setDCC \/ expire \/ Closing \/ Rest \/ UNCHANGED vars
      PROVE  UNCHANGED <<value, wpc, wobj, hit>>
  BY Zenon, <1>9 DEF setDCC, expire, Closing, CloseCancels, CloseDrains, CloseWaits, CloseEngine,
       CloseStep, Rest, vars
<1> QED
  BY Zenon, <1>1, <1>2, <1>3, <1>4, <1>5, <1>6, <1>7, <1>8, <1>9 DEF Next, Change

\* What an evaluation has read stays current or is read again (evaluate).
LEMMA NextReading == Inv /\ TypeOK' /\ [Next]_vars => Reading'
<1> SUFFICES ASSUME Inv, TypeOK', [Next]_vars, server' = "open",
                    NEW s \in Subs, Live(s)', pc'[s] = "read",
                    NEW o \in (targets'[s] \cap exists') \ todo'[s]
             PROVE  /\ got'[s][o] # None
                    /\ got'[s][o] = value'[o] \/ s \in dirty' \/ KickDue(s, o)'
  BY ZenonT(30) DEF Reading
<1> USE DEF objectVars, writerVars, subVars, flagVars, evalVars, reqVars
<1>1. server = "open" /\ o \in Objects
  BY Zenon, SubSteps DEF TypeOK
<1>2. /\ value'[o] = value[o] \/ KickDue(s, o)'
      /\ KickDue(s, o) /\ Live(s) /\ o \in targets[s] => KickDue(s, o)' \/ s \in dirty'
  BY ZenonT(30), <1>1, ChangeSteps
<1>3. CASE Steady(s)
  <2>1. /\ pc[s] = "read" /\ Live(s) /\ o \in (targets[s] \cap exists) \ todo[s]
        /\ got'[s] = got[s] /\ (s \in dirty => s \in dirty')
    BY Zenon, <1>3 DEF Steady
  <2>2. got[s][o] # None /\ (got[s][o] = value[o] \/ s \in dirty \/ KickDue(s, o))
    BY Zenon, <1>1, <2>1 DEF Inv, Reading
  <2> QED
    BY Zenon, <1>2, <2>1, <2>2
<1>4. CASE Read(s)
  <2>1. PICK p \in todo[s] :
          /\ todo' = [todo EXCEPT ![s] = @ \ {p}]
          /\ got' = [got EXCEPT ![s] =
               [q \in Objects |-> IF q = p /\ p \in exists THEN value[p] ELSE got[s][q]]]
    BY ZenonT(30), <1>4 DEF Read
  <2>2. /\ pc[s] = "read" /\ UNCHANGED <<table, targets, exists, value, dirty, wpc, wobj, hit>>
    BY Zenon, <1>4 DEF Read
  <2>3. todo'[s] = todo[s] \ {p}
    BY ZenonT(30), <2>1, Domains, Ranges
  <2>4. got'[s][o] = IF o = p /\ p \in exists THEN value[p] ELSE got[s][o]
    BY Zenon, <1>1, <2>1, Domains, Ranges
  <2>5. CASE o = p
    <3>1. value[o] # None
      BY ZenonT(30), <1>1, ValuesAreInt, Domains, Ranges
    <3> QED
      BY Zenon, <2>2, <2>4, <2>5, <3>1
  <2>6. CASE o # p
    <3>1. Live(s) /\ o \in (targets[s] \cap exists) \ todo[s]
      BY Zenon, <2>2, <2>3, <2>6 DEF Live
    <3>2. got[s][o] # None /\ (got[s][o] = value[o] \/ s \in dirty \/ KickDue(s, o))
      BY Zenon, <1>1, <2>2, <3>1 DEF Inv, Reading
    <3>3. KickDue(s, o) => KickDue(s, o)'
      BY Zenon, <2>2 DEF KickDue
    <3> QED
      BY Zenon, <2>2, <2>4, <2>6, <3>2, <3>3
  <2> QED
    BY Zenon, <2>5, <2>6
<1>5. CASE Targets(s)
  <2>1. todo'[s] = targets'[s]
    BY Zenon, <1>5, Domains, Ranges DEF Targets
  <2> QED
    BY ZenonT(30), <2>1
<1>6. CASE upsert(s) \/ Reply(s) \/ Top(s) \/ Decide(s)
  <2>1. CASE upsert(s)
    <3>1. pc[s] = "none" /\ UNCHANGED pc
      BY ZenonT(30), <2>1 DEF upsert, Inv, Waiting, Added
    <3> QED
      BY Zenon, <3>1
  <2>2. CASE Top(s) \/ Decide(s)
    BY Zenon, <2>2, Domains, Ranges DEF Top, Decide
  <2>3. CASE Reply(s)
    <3>1. /\ UNCHANGED <<table, targets, exists, todo, got, value, wpc, wobj, hit>>
          /\ pc[s] = "read" /\ dirty \subseteq dirty'
      BY Zenon, <2>3, KickEffect DEF Reply
    <3>2. got[s][o] # None /\ (got[s][o] = value[o] \/ s \in dirty \/ KickDue(s, o))
      BY Zenon, <1>1, <3>1 DEF Inv, Reading, Live
    <3>3. KickDue(s, o) => KickDue(s, o)'
      BY Zenon, <3>1 DEF KickDue
    <3> QED
      BY Zenon, <3>1, <3>2, <3>3
  <2> QED
    BY Zenon, <1>6, <2>1, <2>2, <2>3
<1> QED
  BY Zenon, <1>3, <1>4, <1>5, <1>6, SubSteps
\* No change is lost (changed, kick, run and evaluate).
LEMMA NextNoLostChange == Inv /\ TypeOK' /\ [Next]_vars => NoLostChange'
<1> SUFFICES ASSUME Inv, TypeOK', [Next]_vars, server' = "open",
                    NEW s \in Subs, NEW o \in targets'[s] \cap exists', Live(s)',
                    s \notin suppressed', handler'[s] = "done" \/ last'[s][o] # None
             PROVE  EvaluationDue(s)' \/ KickDue(s, o)' \/ Fresh(s, o)'
  BY Zenon DEF NoLostChange
<1> USE DEF objectVars, writerVars, subVars, flagVars, evalVars, reqVars
<1>1. server = "open" /\ o \in Objects
  BY Zenon, SubSteps DEF TypeOK
<1>2. /\ value'[o] = value[o] \/ KickDue(s, o)'
      /\ KickDue(s, o) /\ Live(s) /\ o \in targets[s] => KickDue(s, o)' \/ s \in dirty'
  BY Zenon, <1>1, ChangeSteps
<1>3. ASSUME Live(s), o \in targets[s] \cap exists, s \notin suppressed,
             handler[s] = "done" \/ last[s][o] # None
      PROVE  EvaluationDue(s) \/ KickDue(s, o) \/ Fresh(s, o)
  BY Zenon, <1>1, <1>3 DEF Inv, NoLostChange
<1>4. CASE Steady(s)
  <2>1. EvaluationDue(s) \/ KickDue(s, o) \/ Fresh(s, o)
    BY Zenon, <1>3, <1>4 DEF Steady
  <2>2. EvaluationDue(s) => EvaluationDue(s)'
    BY ZenonT(30), <1>4 DEF Steady, EvaluationDue
  <2>3. Fresh(s, o) /\ value'[o] = value[o] => Fresh(s, o)'
    BY Zenon, <1>4 DEF Steady, Fresh, significant
  <2>4. Live(s) /\ o \in targets[s]
    BY Zenon, <1>4 DEF Steady
  <2> QED
    BY Zenon, <1>2, <2>1, <2>2, <2>3, <2>4 DEF EvaluationDue
<1>5. CASE Targets(s) \/ Read(s)
  BY Zenon, <1>5, Domains, Ranges DEF Targets, Read, EvaluationDue
<1>6. CASE upsert(s)
  <2>1. last[s][o] = None /\ UNCHANGED last
    BY Zenon, <1>1, <1>6 DEF upsert, Inv, Waiting, Added
  <2>2. handler'[s] # "done"
    BY Zenon, <1>6, Domains, Ranges DEF upsert
  <2> QED
    BY Zenon, <2>1, <2>2
<1>7. CASE Reply(s)
  <2>1. UNCHANGED <<table, targets, exists, closed, suppressed, last, value, key, wpc, wobj,
                    hit>>
    BY Zenon, <1>7 DEF Reply
  <2>2. Live(s) /\ s \notin closed
    BY Zenon, <1>7, <2>1 DEF Reply, Live, Inv, TableIsLive, Added
  <2>3. CASE kick(s, TRUE)
    BY Zenon, <2>2, <2>3, KickEffect DEF EvaluationDue
  <2>4. CASE handler' = [handler EXCEPT ![s] = "unsent"] /\ UNCHANGED <<flagVars, pc>>
    <3>1. handler'[s] = "unsent"
      BY Zenon, <2>4, Domains, Ranges
    <3>2. EvaluationDue(s) \/ KickDue(s, o) \/ Fresh(s, o)
      BY Zenon, <1>3, <2>1, <2>2, <3>1
    <3> QED
      BY ZenonT(30), <2>1, <2>4, <3>2 DEF EvaluationDue, KickDue, Fresh, significant
  <2> QED
    BY Zenon, <1>7, <2>3, <2>4 DEF Reply
<1>8. CASE Top(s)
  <2>1. UNCHANGED <<table, targets, exists, closed, suppressed, last, value, key, wpc, wobj,
                    hit, handler>>
    BY Zenon, <1>8 DEF Top
  <2>2. Live(s) /\ s \notin closed
    BY Zenon, <2>1 DEF Live, Inv, TableIsLive, Waiting
  <2>3. CASE s \in dirty
    BY Zenon, <1>8, <2>2, <2>3, Domains, Ranges DEF Top, EvaluationDue
  <2>4. CASE s \notin dirty
    <3>1. ~EvaluationDue(s)
      BY Zenon, <1>8, <2>4 DEF Top, EvaluationDue
    <3>2. KickDue(s, o) \/ Fresh(s, o)
      BY Zenon, <1>3, <2>1, <2>2, <3>1
    <3> QED
      BY ZenonT(30), <2>1, <3>2 DEF KickDue, Fresh, significant
  <2> QED
    BY ZenonT(30), <2>3, <2>4
<1>9. CASE Decide(s)
  <2>1. /\ UNCHANGED <<table, targets, exists, dirty, value, key, wpc, wobj, hit>>
        /\ pc[s] = "read" /\ todo[s] = {}
    BY Zenon, <1>9 DEF Decide
  <2>2. got[s][o] # None /\ (got[s][o] = value[o] \/ s \in dirty \/ KickDue(s, o))
    BY Zenon, <1>1, <2>1 DEF Inv, Reading, Live
  <2>3. CASE s \in dirty \/ KickDue(s, o)
    BY ZenonT(30), <2>1, <2>3 DEF EvaluationDue, KickDue
  <2>4. CASE got[s][o] = value[o]
    <3>1. value[o] \in Int /\ key[s] \in Keys
      BY Zenon, <1>1, <2>1, ValuesAreInt, RunnerIsAdded, Domains, Ranges
    <3>2. CASE s \in trigger /\ dcc
      <4>1. last'[s][o] = value[o]
        BY SMTT(30), <1>1, <1>9, <2>2, <2>4, <3>2, Domains, Ranges DEF Decide
      <4>2. value[o] # None /\ ~significant(key[s], value[o], value[o])
        BY Zenon, <3>1, SameInsignificant, CovAssumption
      <4> QED
        BY ZenonT(30), <2>1, <4>1, <4>2 DEF Fresh, significant
    <3>3. CASE s \in trigger /\ ~dcc
      BY Zenon, <1>9, <3>3 DEF Decide
    <3>4. CASE s \notin trigger
      <4>1. UNCHANGED last
        BY Zenon, <1>9, <3>4 DEF Decide
      <4>2. last[s][o] # None /\ ~significant(key[s], last[s][o], got[s][o])
        BY Zenon, <1>1, <2>1, <2>2, <3>4 DEF Inv, Untriggered
      <4> QED
        BY Zenon, <2>1, <2>4, <4>1, <4>2 DEF Fresh, significant
    <3> QED
      BY Zenon, <3>2, <3>3, <3>4
  <2> QED
    BY ZenonT(30), <2>2, <2>3, <2>4
<1> QED
  BY Zenon, <1>4, <1>5, <1>6, <1>7, <1>8, <1>9, SubSteps

\* upsert adds only below the limit, and nothing else adds.
LEMMA NextWithinLimit == Inv /\ TypeOK' /\ [Next]_vars => WithinLimit'
<1> SUFFICES ASSUME Inv, TypeOK', [Next]_vars PROVE WithinLimit'
  BY Zenon
<1>1. IsFiniteSet(Active) /\ Cardinality(Active) \in Nat /\ Cardinality(Active) <= MaxCOV
  <2>1. Active \subseteq Keys
    BY Zenon DEF Active
  <2> QED
    BY Zenon, <2>1, CovAssumption, FS_Subset, FS_CardinalityType DEF Inv, WithinLimit
<1>2. CASE UNCHANGED table
  BY Zenon, <1>1, <1>2 DEF WithinLimit, Active
<1>3. ASSUME NEW s \in Subs, upsert(s) PROVE WithinLimit'
  <2>1. key[s] \in Keys
    BY Zenon, <1>3 DEF Inv, Waiting, upsert
  <2>2. CASE UNCHANGED table
    BY Zenon, <1>2, <2>2
  <2>3. CASE ~NoRoom(key[s]) /\ table' = [table EXCEPT ![key[s]] = s]
    <3>1. Active' = Active \cup {key[s]}
      BY <2>1, <2>3, CovAssumption, Domains, Ranges DEF Active
    <3>2. Cardinality(Active') = IF key[s] \in Active THEN Cardinality(Active)
                                 ELSE Cardinality(Active) + 1
      BY Zenon, <1>1, <3>1, FS_AddElement
    <3>3. key[s] \notin Active => ~(Cardinality(Active) >= MaxCOV)
      BY Zenon, <2>1, <2>3 DEF NoRoom, Active
    <3> QED
      BY <1>1, <3>2, <3>3, CovAssumption DEF WithinLimit
  <2> QED
    BY Zenon, <1>3, <2>2, <2>3 DEF upsert
<1>4. ASSUME NEW over \in SUBSET Subs, End(over) PROVE WithinLimit'
  <2>1. Active' \subseteq Active
    BY Zenon, <1>4, EndLive DEF Inv
  <2>2. Cardinality(Active') \in Nat /\ Cardinality(Active') <= Cardinality(Active)
    BY Zenon, <1>1, <2>1, FS_Subset, FS_CardinalityType
  <2> QED
    BY <1>1, <2>2, CovAssumption DEF WithinLimit
<1> QED
  BY Zenon, <1>2, <1>3, <1>4, TableSteps DEF Inv

(***************************************************************************)
(* The theorems.                                                           *)
(***************************************************************************)
\* The invariant holds when the server has been started.
LEMMA InitInv == Init => Inv
<1> SUFFICES ASSUME Init PROVE Inv
  BY Zenon
<1>1. TypeOK
  BY Zenon, InitTypes
<1>2. Active = {} /\ \A s \in Subs : ~Live(s)
  BY Zenon, CovAssumption DEF Init, Active, Live
<1>3. WithinLimit
  BY <1>2, FS_EmptySet, CovAssumption DEF WithinLimit
<1>4. \A s \in Subs : pc[s] = "none" /\ handler[s] = "idle"
  BY Zenon DEF Init
<1>5. Waiting
  BY Zenon, <1>2 DEF Init, Waiting, Added, Nothing
<1>6. TableIsLive
  BY Zenon, <1>4 DEF Init, TableIsLive, Added
<1>7. Goroutines
  BY Zenon DEF Init, Goroutines, RunningHasGoroutine
<1>8. PendingOwner
  BY Zenon DEF Init, PendingOwner
<1>9. Reading /\ Untriggered /\ NoLostChange
  BY Zenon, <1>2, <1>4 DEF Reading, Untriggered, NoLostChange
<1>10. EndOfClose
  BY Zenon, <1>2, <1>4 DEF EndOfClose
<1> QED
  BY Zenon, <1>1, <1>3, <1>5, <1>6, <1>7, <1>8, <1>9, <1>10 DEF Inv

\* Every step keeps the invariant.
LEMMA NextInv == Inv /\ [Next]_vars => Inv'
<1> SUFFICES ASSUME Inv, [Next]_vars PROVE Inv'
  BY Zenon
<1>1. TypeOK'
  BY Zenon, NextTypes DEF Inv
<1> QED
  BY Zenon, <1>1, NextWithinLimit, NextWaiting, NextTableIsLive, NextGoroutines, NextPendingOwner,
       NextReading, NextUntriggered, NextNoLostChange, NextEndOfClose DEF Inv

\* The inductive invariant holds in every behaviour of the engine.
THEOREM Invariance == Spec => []Inv
  BY InitInv, NextInv, PTL DEF Spec

\* Types are kept, for any number of requests, objects, writers and IDs.
THEOREM TypesKept == Spec => []TypeOK
<1>1. Inv => TypeOK
  BY Zenon DEF Inv
<1> QED
  BY <1>1, Invariance, PTL

\* upsert keeps the table within the configured limit.
THEOREM LimitKept == Spec => []WithinLimit
<1>1. Inv => WithinLimit
  BY Zenon DEF Inv
<1> QED
  BY <1>1, Invariance, PTL

\* upsert, cancel, expire, objectRemoved and close take a subscription out of
\* the table exactly when they close it.
THEOREM LiveUntilClosed == Spec => []TableIsLive
<1>1. Inv => TableIsLive
  BY Zenon DEF Inv
<1> QED
  BY <1>1, Invariance, PTL

\* kick and run keep the mark of a goroutine and the goroutine together.
THEOREM MarkedWhileRunning == Spec => []RunningHasGoroutine
<1>1. Inv => RunningHasGoroutine
  BY Zenon DEF Inv, Goroutines
<1> QED
  BY <1>1, Invariance, PTL

\* No change of a value is lost between changed, kick, run and evaluate.
THEOREM ChangesReported == Spec => []NoLostChange
<1>1. Inv => NoLostChange
  BY Zenon DEF Inv
<1> QED
  BY <1>1, Invariance, PTL

\* Nothing runs and nothing is left once Close has waited and returned.
THEOREM CloseIsFinal == Spec => []ClosedIsQuiet
<1>1. Inv => ClosedIsQuiet
  <2>1. Inv => (server \in {"waited", "closed"} => \A s \in Subs : pc[s] = "none")
    BY Zenon DEF Inv, Goroutines
  <2>2. Inv /\ (\A s \in Subs : pc[s] = "none") => \A i \in Ids : pending[i] = None
    BY Zenon, Domains, Ranges DEF Inv, PendingOwner
  <2> QED
    BY Zenon, <2>1, <2>2 DEF Inv, EndOfClose, ClosedIsQuiet
<1> QED
  BY <1>1, Invariance, PTL
=============================================================================
