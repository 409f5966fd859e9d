------------------------------- MODULE Points -------------------------------
(***************************************************************************)
(* The point and value objects (server/object/point.go, value.go,          *)
(* commandable.go on base.go): Present_Value with or without a priority    *)
(* array, Out_Of_Service, Reliability, and the change report that every    *)
(* write makes after it has let go of the object's lock.  Writers are the  *)
(* server's workers (WriteProperty and WritePropertyMultiple,              *)
(* server/handlers_data.go) and the application (SetPresentValue,          *)
(* SetReliability).  The observer is the change-of-value engine: it reads  *)
(* the object's values when it is told of a change and at no other time.   *)
(***************************************************************************)
EXTENDS Absent, Integers, Sequences, FiniteSets

CONSTANTS Writers,
          Values,          \* values of the point's own datatype and range
          FaultValues,     \* the multi-state values that mean a fault
          WrongKind,       \* a value of another datatype
          OutOfRange,      \* a value of the datatype outside the range
          Priorities,      \* priorities in use, defaultPriority among them
          MaxRequests     \* requests each writer makes

defaultPriority == 16
NoFault == "no-fault-detected"

VARIABLES point, seen, left, doing

pointVars == <<point, seen, left, doing>>

\* The objects of the package: inputs take network writes only while out of
\* service, value objects always, commandable ones through a priority array.
Kinds == {"input", "value", "commandable"}

newPoint(kind, multi) ==
    [kind |-> kind, multi |-> multi, pv |-> CHOOSE v \in Values : v \notin FaultValues,
     slots |-> [p \in Priorities |-> None],
     relinquish |-> CHOOSE v \in Values : v \notin FaultValues,
     outOfService |-> FALSE, reliability |-> NoFault]

\* priorityArray.present and Point.present.
slotted(p) == {k \in Priorities : p.slots[k] # None}
present(p) ==
    IF p.kind # "commandable" THEN p.pv
    ELSE IF slotted(p) = {} THEN p.relinquish
    ELSE p.slots[CHOOSE k \in slotted(p) : \A j \in slotted(p) : k <= j]

\* Point.currentReliability: a multi-state point in one of its Fault_Values
\* is faulty although the application reports no fault.
currentReliability(p) ==
    IF p.reliability = NoFault /\ p.multi /\ present(p) \in FaultValues
    THEN "multi-state-fault" ELSE p.reliability

\* COVValues: Present_Value and Status_Flags as one locked read sees them.
COVValues(p) ==
    [present |-> present(p), fault |-> currentReliability(p) # NoFault,
     outOfService |-> p.outOfService]

\* Point.checkValue and Value.checkValue.
checkValue(v) == v \in Values

\* One write under the object's lock: the point after it, whether it is
\* reported, and whether it was accepted.
Refused(p) == [point |-> p, report |-> FALSE, ok |-> FALSE]
Stored(p, changed) == [point |-> p, report |-> changed, ok |-> TRUE]

\* defineCommandable: Set of Present_Value, with priorityArray.write.  The
\* slot and the command priority are reported whatever Present_Value does.
command(p, w) ==
    LET k == IF w.priority = 0 THEN defaultPriority ELSE w.priority IN
    IF (w.value # None /\ ~checkValue(w.value)) \/ k \notin Priorities THEN Refused(p)
    ELSE Stored([p EXCEPT !.slots[k] = w.value], TRUE)

\* writePresentValue of an object without a priority array.
writePresentValue(p, w) ==
    IF (p.kind = "input" /\ ~p.outOfService) \/ ~checkValue(w.value) THEN Refused(p)
    ELSE Stored([p EXCEPT !.pv = w.value], p.pv # w.value)

\* Set of Relinquish_Default.
writeRelinquish(p, w) ==
    IF p.kind # "commandable" \/ ~checkValue(w.value) THEN Refused(p)
    ELSE Stored([p EXCEPT !.relinquish = w.value], TRUE)

\* Set of Out_Of_Service.
writeOutOfService(p, w) ==
    IF w.value \notin BOOLEAN THEN Refused(p)
    ELSE Stored([p EXCEPT !.outOfService = w.value], p.outOfService # w.value)

\* Base.writeLocked: the property's Set, or a refusal.
writeLocked(p, w) ==
    CASE w.property = "present-value" /\ p.kind = "commandable" -> command(p, w)
      [] w.property = "present-value" /\ p.kind # "commandable" -> writePresentValue(p, w)
      [] w.property = "relinquish-default" -> writeRelinquish(p, w)
      [] w.property = "out-of-service" -> writeOutOfService(p, w)
      [] OTHER -> Refused(p)

\* A slip: the value before the update is read after it.
SetPresentValueLate(p, v) ==
    LET q == IF p.kind = "commandable" THEN [p EXCEPT !.relinquish = v]
             ELSE [p EXCEPT !.pv = v]
    IN CASE ~checkValue(v) -> Refused(p)
         [] checkValue(v) /\ p.kind = "input" /\ p.outOfService -> Stored(p, FALSE)
         [] OTHER -> Stored(q, FALSE)

\* SetPresentValue: a reading from the application.
SetPresentValue(p, v) ==
    LET q == IF p.kind = "commandable" THEN [p EXCEPT !.relinquish = v]
             ELSE [p EXCEPT !.pv = v]
    IN CASE ~checkValue(v) -> Refused(p)
         [] checkValue(v) /\ p.kind = "input" /\ p.outOfService -> Stored(p, FALSE)
         [] OTHER -> Stored(q, present(p) # present(q))

SetReliability(p, r) == Stored([p EXCEPT !.reliability = r], p.reliability # r)

-----------------------------------------------------------------------------
Write == [property : {"present-value"}, value : Values \cup {None, WrongKind, OutOfRange},
          priority : Priorities \cup {0, 17}]
         \cup [property : {"relinquish-default"}, value : Values, priority : {0}]
         \cup [property : {"out-of-service"}, value : BOOLEAN, priority : {0}]
         \cup [property : {"status-flags"}, value : Values, priority : {0}]

NoWork == [writes |-> <<>>, report |-> FALSE]

PointInit(kinds, multis) ==
    /\ \E kind \in kinds, multi \in multis : point = newPoint(kind, multi)
    /\ seen = COVValues(point)
    /\ left = [w \in Writers |-> MaxRequests]
    /\ doing = [w \in Writers |-> NoWork]

\* A WriteProperty carries one write, a WritePropertyMultiple several.
Begin(w, writes) ==
    /\ doing[w] = NoWork /\ left[w] > 0
    /\ left' = [left EXCEPT ![w] = @ - 1]
    /\ doing' = [doing EXCEPT ![w].writes = writes]
    /\ UNCHANGED <<point, seen>>

\* writePropertyMultiple: each write holds the lock on its own, the first one
\* refused ends the request and what came before it stays.
writeProperty(w) ==
    /\ doing[w].writes # <<>> /\ ~doing[w].report
    /\ LET r == writeLocked(point, Head(doing[w].writes)) IN
       /\ point' = r.point
       /\ doing' = [doing EXCEPT ![w] =
                      [writes |-> IF r.ok THEN Tail(doing[w].writes) ELSE <<>>,
                       report |-> r.report]]
    /\ UNCHANGED <<seen, left>>

\* Base.Update with the application's setters.
Update(w, r) ==
    /\ doing[w] = NoWork /\ left[w] > 0
    /\ left' = [left EXCEPT ![w] = @ - 1]
    /\ point' = r.point
    /\ doing' = [doing EXCEPT ![w].report = r.report]
    /\ UNCHANGED seen

\* notify, after the lock was released: the observer reads the values.
Notify(w) ==
    /\ doing[w].report
    /\ seen' = COVValues(point)
    /\ doing' = [doing EXCEPT ![w].report = FALSE]
    /\ UNCHANGED <<point, left>>

PointNext ==
    \E w \in Writers :
       \/ \E x \in Write : Begin(w, <<x>>)
       \/ \E v \in Values, b \in BOOLEAN :
            Begin(w, << [property |-> "out-of-service", value |-> b, priority |-> 0],
                        [property |-> "present-value", value |-> v, priority |-> 0] >>)
       \/ writeProperty(w)
       \/ \E v \in Values : Update(w, SetPresentValue(point, v))
       \/ \E r \in {NoFault, "unreliable-other"} : Update(w, SetReliability(point, r))
       \/ Notify(w)

-----------------------------------------------------------------------------
\* When no write has a report outstanding, the observer last read the
\* Present_Value and Status_Flags the object has now: whichever of the
\* concurrent writers changed it, and in whatever order their reports came
\* after their locks were released, no change went unseen (Base.WriteProperty
\* and Base.Update report after they unlock).
ChangeIsSeen ==
    (\A w \in Writers : ~doing[w].report) => seen = COVValues(point)
=============================================================================
