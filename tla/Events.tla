------------------------------- MODULE Events -------------------------------
(***************************************************************************)
(* Intrinsic reporting of the server: event detection on points            *)
(* (server/object/intrinsic.go) and the engine that runs it on points that *)
(* changed and once a second (server/events.go), with the goroutines that  *)
(* change points, acknowledge alarms and delete objects.                   *)
(*                                                                         *)
(* One Notification Class serves all points.  Whether a recipient can be   *)
(* found (resolve) is open.  Time delays are counted in ticks of the       *)
(* housekeeping; time stamps are ticks up to MaxTime, after which the      *)
(* clock seems to stand still.                                             *)
(***************************************************************************)
EXTENDS Integers, FiniteSets

CONSTANTS
  Points,      \* objects with intrinsic reporting
  Kind,        \* family of each: "analog", "binary", "multistate"
  Values,      \* values each point takes
  Initial,     \* value of each point at the start
  Config,      \* EventConfig of each point at the start
  Settings,    \* what each field of an EventConfig may be written to
  Faults,      \* values the application gives Reliability; 0 is no fault
  Recipients,  \* destinations of the Notification Class
  Confirmed,   \* those with confirmed notifications
  Selected,    \* transitions each recipient receives
  Writers,     \* goroutines that change points
  None,
  MaxDelay,    \* longest Time_Delay
  MaxTime,     \* bound on the clock of the time stamps
  MaxChanges   \* bound on changes of points and of the Notification Class

\* Every point has a value and an EventConfig; None is nil, no point and no
\* transition in hand.
ASSUME EventsAssumption ==
  /\ Initial = [p \in Points |-> Initial[p]] /\ Config = [p \in Points |-> Config[p]]
  /\ None \notin Points
  /\ None \notin [point : Points, to : {"normal", "fault", "offnormal", "high", "low"}]

Transitions == {"offnormal", "fault", "normal"}
States == {"normal", "fault", "offnormal", "high", "low"}
MultiStateFault == 9
NotOwed == -1

VARIABLES
  value, reliability, cfg,           \* Point and EventConfig
  eventState, pending, held,         \* held: ticks since the field since
  lastFault, acked, stamps,
  past,          \* transitions so far, as state and time stamp (history)
  owed,          \* time stamp of the newest transition of each kind that needs
                 \* an acknowledgment and has none (history)
  ackReq,        \* Ack_Required of the Notification Class
  initiate,      \* whether DeviceCommunicationControl allows notifications
  now, changes,
  writer,        \* point whose change a goroutine has not dispatched yet
  dirty, kick,   \* eventEngine
  pc, batch, note,  \* eventEngine.run: step, ids, transition in hand
  table, removing,  \* objects of the device, and the one Remove holds tmu for
  told           \* state each recipient was last told of (history)

pointVars == <<value, reliability, cfg>>
eventVars == <<eventState, pending, held, lastFault, acked, stamps, past, owed>>
classVars == <<ackReq, initiate>>
engineVars == <<pc, batch, note>>
vars == <<pointVars, eventVars, classVars, now, changes, writer, dirty, kick,
          engineVars, table, removing, told>>

Init ==
  /\ value = Initial /\ cfg = Config /\ reliability = [p \in Points |-> 0]
  /\ eventState = [p \in Points |-> "normal"]
  /\ pending = [p \in Points |-> "normal"] /\ held = [p \in Points |-> 0]
  /\ lastFault = [p \in Points |-> 0]
  /\ acked = [p \in Points |-> Transitions]
  /\ stamps = [p \in Points |-> [t \in Transitions |-> 0]]
  /\ past = [p \in Points |-> {}]
  /\ owed = [p \in Points |-> [t \in Transitions |-> NotOwed]]
  /\ ackReq = Transitions /\ initiate = TRUE
  /\ now = 0
  /\ writer = [w \in Writers |-> None]
  /\ table \in (SUBSET Points) \ {{}} /\ removing = None
  /\ changes = Cardinality(table) - 1  \* more points, fewer changes
  /\ dirty = table /\ kick = TRUE
  /\ pc = "wait" /\ batch = {} /\ note = None
  /\ told = [r \in Recipients |-> [p \in Points |-> "normal"]]

(***************************************************************************)
(* Event detection.                                                        *)
(***************************************************************************)
transitionOf(s) ==
  CASE s = "normal" -> "normal" [] s = "fault" -> "fault" [] OTHER -> "offnormal"

currentReliability(p) ==
  IF reliability[p] = 0 /\ Kind[p] = "multistate" /\ value[p] \in cfg[p].fault
  THEN MultiStateFault ELSE reliability[p]

\* Where OUT_OF_RANGE leads an analog point, and CHANGE_OF_STATE any other.
outOfRange(c, v, s) ==
  LET may(t) == t \in c.enable IN
  CASE s = "normal" /\ v > c.high /\ "high" \in c.limits /\ may("offnormal") -> "high"
    [] s = "normal" /\ v < c.low /\ "low" \in c.limits /\ may("offnormal")
         /\ ~(v > c.high /\ "high" \in c.limits) -> "low"
    [] s = "high" /\ \/ "high" \notin c.limits
                     \/ v < c.high - c.deadband /\ may("normal") -> "normal"
    [] s = "low" /\ \/ "low" \notin c.limits
                    \/ v > c.low + c.deadband /\ may("normal") -> "normal"
    [] OTHER -> s

changeOfState(c, v, s) ==
  CASE s = "normal" /\ v \in c.alarm /\ "offnormal" \in c.enable -> "offnormal"
    [] s = "offnormal" /\ v \notin c.alarm /\ "normal" \in c.enable -> "normal"
    [] OTHER -> s

condition(p) ==
  IF Kind[p] = "analog" THEN outOfRange(cfg[p], value[p], eventState[p])
                        ELSE changeOfState(cfg[p], value[p], eventState[p])

\* What EvaluateEvents makes of a point: the state it goes to, and the
\* condition it waits for.
Detection(p) ==
  LET rel == currentReliability(p)
      from == eventState[p]
      next == condition(p)
      time == IF next = pending[p] THEN held[p] ELSE 0
      stay == [to |-> from, pending |-> from, held |-> 0]
  IN CASE rel # 0 -> [stay EXCEPT !.to = "fault", !.pending = "fault"]
       [] rel = 0 /\ from = "fault" -> [stay EXCEPT !.to = "normal", !.pending = "normal"]
       [] rel = 0 /\ from # "fault" /\ next = from -> stay
       [] OTHER -> [to |-> IF time >= cfg[p].delay THEN next ELSE from,
                    pending |-> next, held |-> time]

\* A change of state, or of the fault while in FAULT.
Transits(p, to) ==
  \/ to # eventState[p]
  \/ to = "fault" /\ currentReliability(p) # lastFault[p]

(***************************************************************************)
(* Marking a point for the engine: the dirty set, and the one-slot channel *)
(* that wakes the engine.                                                  *)
(***************************************************************************)
mark(ps) == dirty' = dirty \union ps /\ kick' = TRUE

\* The table lock tmu and the lock of a point are free for a reader.
TableFree == removing = None
PointFree(p) == ~(pc = "ackRequired" /\ note.point = p)

(***************************************************************************)
(* Goroutines that change points: the application (SetPresentValue,        *)
(* SetReliability), WriteProperty on the event properties, AcknowledgeAlarm.*)
(* Base.Update changes the point under its lock; the observers learn of    *)
(* the change after the lock is released.                                  *)
(***************************************************************************)
SetPresentValue(p) ==
  /\ \E v \in Values[p] \ {value[p]} : value' = [value EXCEPT ![p] = v]
  /\ UNCHANGED <<reliability, cfg>>

SetReliability(p) ==
  /\ \E r \in Faults \ {reliability[p]} : reliability' = [reliability EXCEPT ![p] = r]
  /\ UNCHANGED <<value, cfg>>

\* WriteProperty on a property of defineEvents, with a value it accepts.
WriteEventProperty(p) ==
  /\ \E f \in DOMAIN Settings : \E v \in Settings[f] \ {cfg[p][f]} :
       cfg' = [cfg EXCEPT ![p][f] = v]
  /\ UNCHANGED <<value, reliability>>

Change(w, p) ==
  /\ writer[w] = None /\ p \in table /\ PointFree(p) /\ changes < MaxChanges
  /\ changes' = changes + 1
  /\ SetPresentValue(p) \/ SetReliability(p) \/ WriteEventProperty(p)
  /\ writer' = [writer EXCEPT ![w] = p]
  /\ UNCHANGED <<eventVars, classVars, now, dirty, kick, engineVars, table, removing, told>>

\* An operator acknowledges a transition it has learnt of.  The point's
\* state and time stamp decide; a refused request changes nothing.
AckUnchecked(p, s, t) == transitionOf(s) \notin acked[p] \/ s = eventState[p]

AckAccepted(p, s, t) ==
  IF transitionOf(s) \notin acked[p] THEN stamps[p][transitionOf(s)] <= t
                                     ELSE s = eventState[p]

AcknowledgeAlarm(w, p) ==
  /\ writer[w] = None /\ p \in table /\ PointFree(p)
  /\ \E a \in past[p] :
       /\ AckAccepted(p, a.state, a.stamp)
       /\ acked' = [acked EXCEPT ![p] = @ \union {transitionOf(a.state)}]
       /\ owed' = [owed EXCEPT ![p][transitionOf(a.state)] =
                     IF @ <= a.stamp THEN NotOwed ELSE @]
  /\ writer' = [writer EXCEPT ![w] = p]
  /\ UNCHANGED <<pointVars, eventState, pending, held, lastFault, stamps, past,
                 classVars, now, changes, dirty, kick, engineVars, table, removing, told>>

Notify(w) ==
  /\ writer[w] # None
  /\ IF writer[w] \in table THEN mark({writer[w]}) ELSE UNCHANGED <<dirty, kick>>
  /\ writer' = [writer EXCEPT ![w] = None]
  /\ UNCHANGED <<pointVars, eventVars, classVars, now, changes, engineVars, table,
                 removing, told>>

\* Ack_Required is written, and DeviceCommunicationControl received.
Reconfigure ==
  /\ changes < MaxChanges /\ changes' = changes + 1
  /\ \/ \E a \in {{}, Transitions} \ {ackReq} : ackReq' = a /\ UNCHANGED initiate
     \/ initiate' = ~initiate /\ UNCHANGED ackReq
  /\ UNCHANGED <<pointVars, eventVars, now, writer, dirty, kick, engineVars, table,
                 removing, told>>

\* Device.Remove: the table lock first, then the object's, for its name.
RemoveLock(p) ==
  /\ TableFree /\ p \in table
  /\ removing' = p
  /\ UNCHANGED <<pointVars, eventVars, classVars, now, changes, writer, dirty, kick,
                 engineVars, table, told>>

RemoveName ==
  /\ removing # None /\ PointFree(removing)
  /\ table' = table \ {removing} /\ removing' = None
  /\ UNCHANGED <<pointVars, eventVars, classVars, now, changes, writer, dirty, kick,
                 engineVars, told>>

(***************************************************************************)
(* The engine, and the housekeeping's tick.                                *)
(***************************************************************************)
tickIdle == UNCHANGED <<dirty, kick>>

tick == mark(table)

Tick ==
  /\ TableFree
  /\ now' = IF now < MaxTime THEN now + 1 ELSE now
  /\ held' = [p \in Points |-> IF pending[p] = eventState[p] \/ held[p] = MaxDelay
                               THEN held[p] ELSE held[p] + 1]
  /\ tick
  /\ UNCHANGED <<pointVars, eventState, pending, lastFault, acked, stamps, past,
                 owed, classVars, changes, writer, engineVars, table, removing, told>>

Wake ==
  /\ pc = "wait" /\ kick
  /\ kick' = FALSE /\ pc' = "drain"
  /\ UNCHANGED <<pointVars, eventVars, classVars, now, changes, writer, dirty, batch,
                 note, table, removing, told>>

Drain ==
  /\ pc = "drain"
  /\ batch' = dirty /\ dirty' = {}
  /\ pc' = IF dirty = {} THEN "wait" ELSE "batch"
  /\ UNCHANGED <<pointVars, eventVars, classVars, now, changes, writer, kick, note,
                 table, removing, told>>

transitionSwapped(p, to) == [point |-> p, to |-> eventState[p]]

\* The EventTransition the engine is to report.
transition(p, to) == [point |-> p, to |-> to]

\* The engine is done with a point.
Done(p) == batch' = batch \ {p} /\ pc' = IF batch \ {p} = {} THEN "wait" ELSE "batch"

\* A transition happens under the point's lock, which stays held while the
\* engine asks whether the transition needs an acknowledgment.
Evaluate(p) ==
  LET d == Detection(p)
      tr == transitionOf(d.to)
  IN /\ pc = "batch" /\ p \in batch /\ TableFree /\ PointFree(p)
     /\ IF p \in table /\ cfg[p].detect
        THEN pending' = [pending EXCEPT ![p] = d.pending] /\ held' = [held EXCEPT ![p] = d.held]
        ELSE UNCHANGED <<pending, held>>
     /\ IF p \in table /\ cfg[p].detect /\ Transits(p, d.to)
        THEN /\ eventState' = [eventState EXCEPT ![p] = d.to]
             /\ stamps' = [stamps EXCEPT ![p][tr] = now]
             /\ lastFault' = IF d.to = "fault"
                             THEN [lastFault EXCEPT ![p] = currentReliability(p)] ELSE lastFault
             /\ note' = transition(p, d.to)
             /\ pc' = "ackRequired" /\ UNCHANGED batch
        ELSE UNCHANGED <<eventState, stamps, lastFault, note>> /\ Done(p)
     /\ UNCHANGED <<pointVars, acked, past, owed, classVars, now, changes, writer, dirty, kick,
                    table, removing, told>>

\* ackRequired looks the Notification Class up in the device's table.  Then
\* the point's lock is released and its observers are told.
AckRequired ==
  LET p == note.point
      tr == transitionOf(note.to)
      need == cfg[p].class /\ tr \in ackReq
  IN /\ pc = "ackRequired" /\ TableFree
     /\ acked' = IF need THEN [acked EXCEPT ![p] = @ \ {tr}] ELSE acked
     /\ owed' = IF need THEN [owed EXCEPT ![p][tr] = stamps[p][tr]] ELSE owed
     /\ past' = [past EXCEPT ![p] = @ \union {[state |-> note.to, stamp |-> stamps[p][tr]]}]
     /\ mark({p})
     /\ pc' = "report"
     /\ UNCHANGED <<pointVars, eventState, pending, held, lastFault, stamps, classVars,
                    now, changes, writer, batch, note, table, removing, told>>

\* report: the destinations that are active for the transition and can be
\* found get it.  A confirmed notification is another goroutine's, which
\* may be overtaken by a later one.
Sent(r, p) ==
  /\ cfg[p].class /\ initiate
  /\ transitionOf(note.to) \in Selected[r] /\ r \notin Confirmed

Report ==
  LET p == note.point IN
  /\ pc = "report" /\ TableFree
  /\ \E found \in SUBSET Recipients :
       told' = [r \in Recipients |-> [told[r] EXCEPT ![p] =
                  IF r \in found /\ Sent(r, p) THEN note.to ELSE "unknown"]]
  /\ Done(p) /\ note' = None
  /\ UNCHANGED <<pointVars, eventVars, classVars, now, changes, writer, dirty, kick,
                 table, removing>>

Engine == Wake \/ Drain \/ (\E p \in Points : Evaluate(p)) \/ AckRequired \/ Report

Next ==
  \/ \E w \in Writers, p \in Points : Change(w, p)
  \/ \E w \in Writers, p \in Points : AcknowledgeAlarm(w, p)
  \/ \E w \in Writers : Notify(w)
  \/ Reconfigure
  \/ Tick
  \/ Wake \/ Drain \/ (\E p \in Points : Evaluate(p)) \/ AckRequired \/ Report

\* The engine and the housekeeping are goroutines that run until the server
\* closes; a goroutine that changed a point goes on to tell its observers.
Fairness ==
  /\ WF_vars(Engine) /\ WF_vars(Tick)
  /\ \A w \in Writers : WF_vars(Notify(w))

Spec == Init /\ [][Next]_vars /\ Fairness

\* The same with objects deleted while the server runs.
SpecRemove == Init /\ [][Next \/ RemoveName \/ \E p \in Points : RemoveLock(p)]_vars

(***************************************************************************)
(* Properties.                                                             *)
(***************************************************************************)

\* Event detection leaves the point where it is, and no delay runs.
Settled(p) ==
  cfg[p].detect => Detection(p).pending = eventState[p] /\ ~Transits(p, Detection(p).to)

\* When the points stop changing, event detection comes to rest with every
\* point in the event state its value, Reliability and configuration call
\* for: no change is lost between a point's lock, the dirty set and the
\* one-slot wake-up channel, every delay ends, and the engine, whose own
\* transitions mark the point again, does not run for ever.
DetectionComesToRest == <>[](\A p \in Points : Settled(p))

\* A transition that needed an acknowledgment counts as unacknowledged
\* exactly until an operator acknowledges it or a later one of its kind by
\* time stamp: an acknowledgment that was under way when the next
\* transition happened does not acknowledge it.
AlarmsStayOwed ==
  \A p \in Points, t \in Transitions :
    PointFree(p) => (owed[p][t] # NotOwed <=> t \notin acked[p])

\* A recipient that received the last notification of a point knows the
\* point's event state: one goroutine evaluates and reports, and between
\* two reports of a point nothing changes its event state.
RecipientIsCurrent ==
  \A r \in Recipients, p \in Points :
    \/ told[r][p] \in {eventState[p], "unknown"}
    \/ note # None /\ note.point = p

\* Objects are safe for concurrent use: Remove, which holds the device's
\* table and waits for the object, never meets an evaluation that holds the
\* object and waits for the table.
NoLockCycle == ~(removing # None /\ pc = "ackRequired" /\ note.point = removing)
=============================================================================
