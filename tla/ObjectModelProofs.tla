-------------------------- MODULE ObjectModelProofs --------------------------
(***************************************************************************)
(* Proofs about the objects of a served device, for every value of the     *)
(* constants: points and who is told of their changes, the table of        *)
(* objects, schedules, and files with the client that copies them.         *)
(***************************************************************************)
EXTENDS ObjectModel, FiniteSetTheorems, WellFoundedInduction, TLAPS

(***************************************************************************)
(* The point objects: no change goes unseen.                               *)
(***************************************************************************)
\* The fields of a point, and of what a writer is doing.
IsPoint(p) ==
  p = [kind |-> p.kind, multi |-> p.multi, pv |-> p.pv, slots |-> p.slots,
       relinquish |-> p.relinquish, outOfService |-> p.outOfService,
       reliability |-> p.reliability]

\* The inductive invariant of a point and of its writers.
PointInv ==
  /\ IsPoint(point)
  /\ doing = [w \in Writers |-> [writes |-> doing[w].writes, report |-> doing[w].report]]
  /\ ChangeIsSeen

\* A write that is not reported leaves the values the observer reads alone,
\* whether it was refused or stored what was there before.
Silent(p, r) == IsPoint(r.point) /\ (~r.report => COVValues(r.point) = COVValues(p))

\* The network's writes: Base.writeLocked.
LEMMA WriteIsReported ==
  ASSUME NEW p, IsPoint(p), NEW w
  PROVE  Silent(p, writeLocked(p, w))
<1>1. Silent(p, Refused(p))
  BY Zenon DEF Silent, Refused
<1>2. Silent(p, command(p, w))
  BY Zenon, <1>1 DEF Silent, command, Stored, IsPoint
<1>3. Silent(p, writePresentValue(p, w))
  <2>1. p.pv = w.value => [p EXCEPT !.pv = w.value] = p
    BY Zenon DEF IsPoint
  <2> QED
    BY Zenon, <1>1, <2>1 DEF Silent, writePresentValue, Stored, IsPoint
<1>4. Silent(p, writeRelinquish(p, w))
  BY Zenon, <1>1 DEF Silent, writeRelinquish, Stored, IsPoint
<1>5. Silent(p, writeOutOfService(p, w))
  <2>1. p.outOfService = w.value => [p EXCEPT !.outOfService = w.value] = p
    BY Zenon DEF IsPoint
  <2> QED
    BY Zenon, <1>1, <2>1 DEF Silent, writeOutOfService, Stored, IsPoint
<1> QED
  BY Zenon, <1>1, <1>2, <1>3, <1>4, <1>5 DEF writeLocked

\* The application's readings: SetPresentValue and SetReliability.
LEMMA UpdateIsReported ==
  ASSUME NEW p, IsPoint(p), NEW v
  PROVE  Silent(p, SetPresentValue(p, v)) /\ Silent(p, SetReliability(p, v))
<1>1. Silent(p, Refused(p)) /\ Silent(p, Stored(p, FALSE))
  BY Zenon DEF Silent, Refused, Stored
<1>2. Silent(p, SetReliability(p, v))
  <2>1. p.reliability = v => [p EXCEPT !.reliability = v] = p
    BY Zenon DEF IsPoint
  <2> QED
    BY Zenon, <1>1, <2>1 DEF Silent, SetReliability, Stored, IsPoint
<1> DEFINE q == IF p.kind = "commandable" THEN [p EXCEPT !.relinquish = v]
                ELSE [p EXCEPT !.pv = v]
<1>3. /\ IsPoint(q) /\ q.reliability = p.reliability /\ q.multi = p.multi
      /\ q.outOfService = p.outOfService
  BY Zenon DEF IsPoint
<1>4. present(p) = present(q) => COVValues(q) = COVValues(p)
  BY Zenon, <1>3 DEF COVValues, currentReliability
<1>5. Silent(p, Stored(q, present(p) # present(q)))
  BY Zenon, <1>3, <1>4 DEF Silent, Stored
<1> QED
  BY Zenon, <1>1, <1>2, <1>5 DEF SetPresentValue

\* Every step of the point keeps the invariant.
LEMMA PointKept ==
  ASSUME PointInv, PointNext
  PROVE  PointInv'
<1> USE DEF PointInv
<1>1. ASSUME NEW w \in Writers, NEW x, Begin(w, x)
      PROVE  PointInv'
  BY <1>1 DEF Begin, ChangeIsSeen, IsPoint
<1>2. ASSUME NEW w \in Writers, writeProperty(w)
      PROVE  PointInv'
  <2> DEFINE r == writeLocked(point, Head(doing[w].writes))
  <2>1. Silent(point, r)
    BY Zenon, WriteIsReported
  <2> HIDE DEF r
  <2>2. IsPoint(point')
    BY Zenon, <1>2, <2>1 DEF writeProperty, Silent, r
  <2>3. /\ \A x \in Writers : x # w => doing'[x] = doing[x]
        /\ doing'[w].report = r.report /\ ~doing[w].report
        /\ doing' = [x \in Writers |-> [writes |-> doing'[x].writes, report |-> doing'[x].report]]
    BY Zenon, <1>2 DEF writeProperty, r
  <2>4. point' = r.point /\ seen' = seen
    BY Zenon, <1>2 DEF writeProperty, r
  <2> QED
    BY Zenon, <2>1, <2>2, <2>3, <2>4 DEF ChangeIsSeen, Silent
<1>3. ASSUME NEW w \in Writers, NEW r, Silent(point, r), Update(w, r)
      PROVE  PointInv'
  <2>1. /\ \A x \in Writers : x # w => doing'[x] = doing[x]
        /\ doing'[w].report = r.report /\ ~doing[w].report
        /\ doing' = [x \in Writers |-> [writes |-> doing'[x].writes, report |-> doing'[x].report]]
    BY <1>3 DEF Update, NoWork
  <2>2. point' = r.point /\ seen' = seen
    BY Zenon, <1>3 DEF Update
  <2> QED
    BY Zenon, <1>3, <2>1, <2>2 DEF ChangeIsSeen, Silent
<1>4. ASSUME NEW w \in Writers, Notify(w)
      PROVE  PointInv'
  <2>1. IsPoint(point)'
    BY Zenon, <1>4 DEF Notify, IsPoint
  <2>2. doing' = [x \in Writers |-> [writes |-> doing'[x].writes, report |-> doing'[x].report]]
    <3>1. PICK b : b = FALSE /\ doing' = [doing EXCEPT ![w].report = b]
      BY Zenon, <1>4 DEF Notify
    <3> QED
      BY <3>1
  <2>3. seen' = COVValues(point) /\ point' = point
    BY Zenon, <1>4 DEF Notify
  <2> QED
    BY Zenon, <2>1, <2>2, <2>3 DEF ChangeIsSeen
<1> QED
  BY Zenon, <1>1, <1>2, <1>3, <1>4, UpdateIsReported DEF PointNext

\* When no write has a report outstanding the observer has seen the values
\* the point has now, whichever writers changed it and in whatever order
\* their reports came after they unlocked (Base.WriteProperty, Base.Update).
THEOREM ChangesAreSeen == Spec => []ChangeIsSeen
<1>1. Init => PointInv
  BY Zenon DEF Init, PointInit, PointInv, ChangeIsSeen, newPoint, IsPoint, NoWork
<1>2. PointInv /\ [Next]_vars => PointInv'
  <2> SUFFICES ASSUME PointInv, [Next]_vars PROVE PointInv'
    BY Zenon
  <2>1. CASE UNCHANGED pointVars
    BY Zenon, <2>1 DEF PointInv, pointVars, ChangeIsSeen, IsPoint
  <2> QED
    BY Zenon, <2>1, PointKept DEF Next, TableStep, PointStep, ScheduleStep, LogStep, FileStep,
         BatchStep, vars
<1> QED
  BY <1>1, <1>2, PTL DEF Spec, PointInv

(***************************************************************************)
(* The object table.                                                       *)
(***************************************************************************)
\* A worker before the end of its Add: the object it builds is not in the
\* table, and the worker never comes back here.
Early == {"start", "create", "name", "add"}

\* Whether an object is in the table.
InTable(o) == \E id \in DOMAIN objects : objects[id] = o

\* The fields of the heap's objects and of the workers.
TableTypes ==
  /\ heap = [o \in Owners |-> [id |-> heap[o].id, name |-> heap[o].name,
                              notify |-> heap[o].notify, deletable |-> heap[o].deletable]]
  /\ at = [w \in Requests |-> [pc |-> at[w].pc, instance |-> at[w].instance, name |-> at[w].name,
                               removed |-> at[w].removed, outcome |-> at[w].outcome]]
  /\ IsFiniteSet(DOMAIN objects)
  /\ \A id \in DOMAIN objects : objects[id] \in Owners

\* An object gets into the table once, by its own worker's Add: one that was
\* taken out stays out, and so does the one of a CreateObject that was refused.
OncePerWorker ==
  /\ \A w \in Requests : at[w].pc \in Early => ~InTable(w)
  /\ \A w \in Requests : at[w].pc = "unnotify" =>
       /\ at[w].removed \in Owners /\ ~InTable(at[w].removed)
       /\ at[w].removed # Held => at[at[w].removed].pc \notin Early
  /\ \A w \in Requests : at[w].pc \in {"unnotify", "dropped"} /\ request[w].op = "create"
       => ~InTable(w)

\* The parts of TableConsistent.
Indexed ==
  /\ \A id \in DOMAIN objects :
       /\ heap[objects[id]].id = id
       /\ heap[objects[id]].name \in DOMAIN names
       /\ names[heap[objects[id]].name] = id
  /\ \A n \in DOMAIN names : names[n] \in DOMAIN objects /\ heap[objects[names[n]]].name = n

\* An object in the table reports its changes, once its Add is over.
Reporting ==
  \A id \in DOMAIN objects :
    objects[id] # Held /\ at[objects[id]].pc # "notifier" => heap[objects[id]].notify

\* A CreateObject that was refused has left no object behind.
RefusedLeavesNone ==
  \A w \in Requests :
    at[w].pc = "done" /\ request[w].op = "create" /\ at[w].outcome # "ack" => ~InTable(w)

\* A worker that changed the table and has not yet told the observers of it.
Outstanding == {"notifier", "added", "unnotify", "dropped"}

\* With no worker in that place, the list the observers know is the table's.
ListIsSeen == (\A w \in Requests : at[w].pc \notin Outstanding) => listed = DOMAIN objects

\* The inductive invariant of the table.
TableInv ==
  /\ TableTypes /\ OncePerWorker
  /\ Indexed /\ Cardinality(DOMAIN objects) <= MaxObjects
  /\ Reporting /\ RefusedLeavesNone /\ ListIsSeen

\* The parts together.
LEMMA TableParts == TableInv => TableConsistent
<1> SUFFICES ASSUME TableInv PROVE TableConsistent
  BY Zenon
<1>1. Indexed /\ Reporting /\ Cardinality(DOMAIN objects) <= MaxObjects
  BY Zenon DEF TableInv
<1>2. \A w \in Requests :
        at[w].pc = "done" /\ request[w].op = "create" /\ at[w].outcome # "ack"
          => \A id \in DOMAIN objects : objects[id] # w
  BY Zenon DEF TableInv, RefusedLeavesNone, InTable
<1>3. (\A w \in Requests : at[w].pc \notin {"notifier", "added", "unnotify", "dropped"})
        => listed = DOMAIN objects
  BY Zenon DEF TableInv, ListIsSeen, Outstanding
<1>4. (/\ Indexed /\ Cardinality(DOMAIN objects) <= MaxObjects /\ Reporting
       /\ (\A w \in Requests :
             at[w].pc = "done" /\ request[w].op = "create" /\ at[w].outcome # "ack"
               => \A id \in DOMAIN objects : objects[id] # w)
       /\ ((\A w \in Requests : at[w].pc \notin {"notifier", "added", "unnotify", "dropped"})
             => listed = DOMAIN objects)) <=> TableConsistent
  BY PTL DEF TableConsistent, Indexed, Reporting
<1> QED
  BY Zenon, <1>1, <1>2, <1>3, <1>4

\* A step of worker w that puts no object in the table and takes none out:
\* the ones in it go on reporting.
Quiet(w) ==
  /\ objects' = objects /\ request' = request
  /\ \A id \in DOMAIN objects : heap[objects[id]].notify => heap'[objects[id]].notify
  /\ \A x \in Requests : x # w => at'[x] = at[x]

\* What w's own progress has to respect.
Progress(w) ==
  /\ at'[w].pc \in Early => at[w].pc \in Early
  /\ at'[w].pc # "unnotify"
  /\ at'[w].pc = "dropped" => at[w].pc = "unnotify"
  /\ at[w].pc = "notifier" => at'[w].pc = "notifier" \/ heap'[w].notify
  /\ at'[w].pc = "done" /\ request[w].op = "create" /\ at'[w].outcome # "ack" => ~InTable(w)
  /\ \/ listed' = DOMAIN objects
     \/ listed' = listed /\ (at[w].pc \in Outstanding => at'[w].pc \in Outstanding)

\* Such a step keeps the invariant.
LEMMA QuietKept ==
  ASSUME TableInv, NEW w \in Requests, Quiet(w), Progress(w), TableTypes', Indexed'
  PROVE  TableInv'
<1> USE DEF TableInv, Quiet
<1>1. \A o : InTable(o)' <=> InTable(o)
  BY Zenon DEF InTable
<1>3. OncePerWorker'
  <2>1. \A x \in Requests : at'[x].pc \in Early => at[x].pc \in Early
    BY Zenon DEF Progress
  <2>2. \A x \in Requests : at'[x].pc = "unnotify" => at[x].pc = "unnotify" /\ at'[x] = at[x]
    BY Zenon DEF Progress
  <2>3. \A x \in Requests : at'[x].pc \in {"unnotify", "dropped"} => at[x].pc \in {"unnotify", "dropped"}
    BY Zenon DEF Progress
  <2> QED
    BY Zenon, <1>1, <2>1, <2>2, <2>3 DEF OncePerWorker, Owners
<1>4. Reporting'
  BY Zenon DEF Reporting, Progress, TableTypes, Owners
<1>5. RefusedLeavesNone'
  BY Zenon, <1>1 DEF RefusedLeavesNone, Progress
<1>6. ListIsSeen'
  BY Zenon DEF ListIsSeen, Progress
<1> QED
  BY Zenon, <1>3, <1>4, <1>5, <1>6

\* The index is kept when neither the table nor an identity in it changes.
LEMMA IndexKept ==
  ASSUME Indexed, objects' = objects, names' = names,
         \A id \in DOMAIN objects : /\ heap'[objects[id]].id = heap[objects[id]].id
                                   /\ heap'[objects[id]].name = heap[objects[id]].name
  PROVE  Indexed'
BY Zenon DEF Indexed

\* The shape of the workers, and what the two ways to move one do.
WorkersTyped ==
  at = [w \in Requests |-> [pc |-> at[w].pc, instance |-> at[w].instance, name |-> at[w].name,
                            removed |-> at[w].removed, outcome |-> at[w].outcome]]

\* One worker moves, the others stay.
Moved(w) == WorkersTyped' /\ \A x \in Requests : x # w => at'[x] = at[x]

\* A worker that goes on.
LEMMA GotoMoves ==
  ASSUME WorkersTyped, NEW w \in Requests, NEW s, Goto(w, s)
  PROVE  Moved(w) /\ at'[w].pc = s
BY SMTT(60) DEF WorkersTyped, Moved, Goto

\* A worker that goes on with an outcome, or with the object it removed.
LEMMA OutcomeMoves ==
  ASSUME WorkersTyped, NEW w \in Requests, NEW s, NEW i,
         \/ at' = [at EXCEPT ![w].pc = s, ![w].outcome = i]
         \/ at' = [at EXCEPT ![w].pc = s, ![w].removed = i]
  PROVE  Moved(w) /\ at'[w].pc = s
BY SMTT(60) DEF WorkersTyped, Moved

\* The outcome a worker was given is the one it has.
LEMMA OutcomeIsSet ==
  ASSUME WorkersTyped, NEW w \in Requests, NEW s, NEW i,
         at' = [at EXCEPT ![w].pc = s, ![w].outcome = i]
  PROVE  at'[w].outcome = i
<1>1. at'[w] = [[at[w] EXCEPT !.pc = s] EXCEPT !.outcome = i]
  BY Zenon DEF WorkersTyped
<1>2. "outcome" \in DOMAIN [at[w] EXCEPT !.pc = s]
  BY SMTT(60) DEF WorkersTyped
<1> QED
  BY Zenon, <1>1, <1>2

\* A worker that answers its request is done.
LEMMA AnswerMoves ==
  ASSUME WorkersTyped, NEW w \in Requests, NEW s, Answer(w, s)
  PROVE  Moved(w) /\ at'[w].pc = "done" /\ at'[w].outcome = s
BY Zenon, OutcomeMoves, OutcomeIsSet DEF Answer

\* A worker that goes on with a name or an instance number it picked.
LEMMA EditMoves ==
  ASSUME WorkersTyped, NEW w \in Requests, NEW s, NEW i,
         \/ at' = [at EXCEPT ![w].pc = s, ![w].name = i]
         \/ at' = [at EXCEPT ![w].pc = s, ![w].instance = i]
  PROVE  Moved(w) /\ at'[w].pc = s
BY SMTT(60) DEF WorkersTyped, Moved

\* A worker that takes another name and stays where it is.
LEMMA NameMoves ==
  ASSUME WorkersTyped, NEW w \in Requests, NEW i, at' = [at EXCEPT ![w].name = i]
  PROVE  Moved(w) /\ at'[w].pc = at[w].pc
BY SMTT(60) DEF WorkersTyped, Moved

\* A worker that goes on with the object it removed has that one.
LEMMA RemovedMoves ==
  ASSUME WorkersTyped, NEW w \in Requests, NEW s, NEW i,
         at' = [at EXCEPT ![w].pc = s, ![w].removed = i]
  PROVE  Moved(w) /\ at'[w].pc = s /\ at'[w].removed = i
<1>1. at'[w] = [[at[w] EXCEPT !.pc = s] EXCEPT !.removed = i]
  BY Zenon DEF WorkersTyped
<1>2. "removed" \in DOMAIN [at[w] EXCEPT !.pc = s]
  BY SMTT(60) DEF WorkersTyped
<1>3. at'[w].removed = i
  BY Zenon, <1>1, <1>2
<1> QED
  BY Zenon, <1>3, OutcomeMoves

\* The heap and the table are left alone.
LEMMA SameHeap ==
  ASSUME TableInv, NEW w \in Requests, Moved(w), heap' = heap, objects' = objects,
         names' = names, request' = request
  PROVE  TableTypes' /\ Quiet(w) /\ Indexed'
<1>1. Indexed'
  BY Zenon, IndexKept DEF TableInv
<1> QED
  BY Zenon, <1>1 DEF TableInv, TableTypes, WorkersTyped, Moved, Quiet

\* The steps of CreateObject before the object exists.
LEMMA CreateKept ==
  ASSUME TableInv, NEW w \in Requests, createObject(w) \/ Create(w)
  PROVE  TableInv'
<1>1. WorkersTyped /\ at[w].pc \in Early /\ ~InTable(w)
  BY Zenon DEF TableInv, TableTypes, WorkersTyped, OncePerWorker, createObject, Create, Early
<1>2. /\ heap' = heap /\ objects' = objects /\ names' = names /\ request' = request
      /\ listed' = listed
  BY Zenon DEF createObject, Create
<1>3. /\ Moved(w)
      /\ at'[w].pc \in {"create", "name", "done"}
  <2>1. CASE createObject(w)
    BY <1>1, <2>1, AnswerMoves, EditMoves DEF createObject
  <2>2. CASE Create(w)
    <3>1. \/ \E s : Answer(w, s)
          \/ \E i : at' = [at EXCEPT ![w].pc = "name", ![w].instance = i]
      BY <2>2 DEF Create
    <3> QED
      BY Zenon, <1>1, <3>1, AnswerMoves, EditMoves
  <2> QED
    BY Zenon, <2>1, <2>2
<1>4. Progress(w)
  BY Zenon, <1>1, <1>2, <1>3 DEF Progress, Early, Outstanding
<1> QED
  BY Zenon, <1>2, <1>3, <1>4, SameHeap, QuietKept

\* The choice of the name and the factory: the worker's own object, which is
\* not in the table yet.
LEMMA PickNameKept ==
  ASSUME TableInv, NEW w \in Requests, pickName(w)
  PROVE  TableInv'
<1>1. WorkersTyped /\ at[w].pc = "name" /\ ~InTable(w)
  BY Zenon DEF TableInv, TableTypes, WorkersTyped, OncePerWorker, pickName, Early
<1>2. objects' = objects /\ names' = names /\ request' = request /\ listed' = listed
  BY Zenon DEF pickName
<1>3. /\ Moved(w)
      /\ at'[w].pc \in {"name", "add"}
  BY Zenon, <1>1, GotoMoves, NameMoves DEF pickName
<1>4. Progress(w)
  BY Zenon, <1>1, <1>2, <1>3 DEF Progress, Early, Outstanding
<1>5. CASE heap' = heap
  BY Zenon, <1>2, <1>3, <1>4, <1>5, SameHeap, QuietKept
<1>6. CASE \E i, n : heap' = [heap EXCEPT ![w] = [id |-> i, name |-> n,
                                                 notify |-> FALSE, deletable |-> TRUE]]
  <2>1. TableTypes'
    BY Zenon, <1>2, <1>3, <1>6 DEF TableInv, TableTypes, WorkersTyped, Moved, Owners
  <2>2. \A id \in DOMAIN objects : heap'[objects[id]] = heap[objects[id]]
    BY Zenon, <1>1, <1>6 DEF InTable, TableInv, TableTypes
  <2>3. Quiet(w)
    BY Zenon, <1>2, <1>3, <2>2 DEF Quiet, Moved
  <2>4. Indexed'
    BY Zenon, <1>2, <2>2, IndexKept DEF TableInv
  <2> QED
    BY Zenon, <1>4, <2>1, <2>3, <2>4, QuietKept
<1> QED
  BY Zenon, <1>5, <1>6 DEF pickName

\* A change of one object's notifier or of one object's name in the heap.
HeapTyped ==
  heap = [o \in Owners |-> [id |-> heap[o].id, name |-> heap[o].name,
                            notify |-> heap[o].notify, deletable |-> heap[o].deletable]]

\* Setting or clearing one notifier leaves the identities alone.
LEMMA HeapNotify ==
  ASSUME HeapTyped, NEW w \in Owners, NEW b, heap' = [heap EXCEPT ![w].notify = b]
  PROVE  /\ HeapTyped' /\ heap'[w].notify = b
         /\ \A o \in Owners : heap'[o].id = heap[o].id /\ heap'[o].name = heap[o].name
         /\ \A o \in Owners : o # w => heap'[o] = heap[o]
BY SMTT(60) DEF HeapTyped

\* Renaming one object leaves the notifiers and the other objects alone.
LEMMA HeapName ==
  ASSUME HeapTyped, NEW w \in Owners, NEW n, heap' = [heap EXCEPT ![w].name = n]
  PROVE  /\ HeapTyped' /\ heap'[w].name = n /\ heap'[w].notify = heap[w].notify
         /\ \A o \in Owners : heap'[o].id = heap[o].id
         /\ \A o \in Owners : o # w => heap'[o] = heap[o]
BY SMTT(60) DEF HeapTyped

\* TableTypes from its parts.
LEMMA TypesOf ==
  /\ TableInv => HeapTyped /\ WorkersTyped
  /\ HeapTyped' /\ WorkersTyped' /\ objects' = objects /\ TableInv => TableTypes'
BY Zenon DEF TableInv, TableTypes, HeapTyped, WorkersTyped

\* The notifier of an object just added, and of one just removed.
LEMMA NotifierKept ==
  ASSUME TableInv, NEW w \in Requests, SetNotifier(w) \/ ClearNotifier(w)
  PROVE  TableInv'
<1>1. WorkersTyped /\ HeapTyped
  BY Zenon, TypesOf
<1>2. objects' = objects /\ names' = names /\ request' = request /\ listed' = listed
  BY Zenon DEF SetNotifier, ClearNotifier
<1>3. /\ Moved(w)
      /\ SetNotifier(w) => at'[w].pc = "added"
      /\ ClearNotifier(w) => at'[w].pc = "dropped"
  BY Zenon, <1>1, GotoMoves DEF SetNotifier, ClearNotifier
<1>4. CASE SetNotifier(w)
  <2>1. PICK b : b = TRUE /\ heap' = [heap EXCEPT ![w].notify = b]
    BY Zenon, <1>4 DEF SetNotifier
  <2>2. w \in Owners
    BY Zenon DEF Owners
  <2>3. /\ HeapTyped' /\ heap'[w].notify = b
        /\ \A o \in Owners : heap'[o].id = heap[o].id /\ heap'[o].name = heap[o].name
        /\ \A o \in Owners : o # w => heap'[o] = heap[o]
    BY Zenon, <1>1, <2>1, <2>2, HeapNotify
  <2>4. TableTypes'
    BY Zenon, <1>2, <1>3, <2>3, TypesOf DEF Moved
  <2>5. Quiet(w) /\ Indexed'
    BY Zenon, <1>2, <1>3, <2>1, <2>3, IndexKept DEF Quiet, Moved, TableInv, TableTypes
  <2>6. Progress(w)
    BY Zenon, <1>2, <1>3, <1>4, <2>1, <2>3 DEF Progress, Early, Outstanding, SetNotifier
  <2> QED
    BY Zenon, <2>4, <2>5, <2>6, QuietKept
<1>5. CASE ClearNotifier(w)
  <2>1. PICK b : heap' = [heap EXCEPT ![at[w].removed].notify = b]
    BY Zenon, <1>5 DEF ClearNotifier
  <2>2. at[w].pc = "unnotify" /\ at[w].removed \in Owners /\ ~InTable(at[w].removed)
    BY Zenon, <1>5 DEF ClearNotifier, TableInv, OncePerWorker
  <2>3. HeapTyped' /\ \A o \in Owners : o # at[w].removed => heap'[o] = heap[o]
    BY Zenon, <1>1, <2>1, <2>2, HeapNotify
  <2>4. TableTypes'
    BY Zenon, <1>2, <1>3, <2>3, TypesOf DEF Moved
  <2>5. \A id \in DOMAIN objects : heap'[objects[id]] = heap[objects[id]]
    BY Zenon, <2>2, <2>3 DEF InTable, TableInv, TableTypes
  <2>6. Quiet(w) /\ Indexed'
    BY Zenon, <1>2, <1>3, <2>5, IndexKept DEF Quiet, Moved, TableInv
  <2>7. Progress(w)
    BY Zenon, <1>2, <1>3, <1>5, <2>2 DEF Progress, Early, Outstanding
  <2> QED
    BY Zenon, <2>4, <2>6, <2>7, QuietKept
<1> QED
  BY Zenon, <1>4, <1>5

\* The report of Object_List, the initial values and the check before a
\* deletion.
LEMMA ReportKept ==
  ASSUME TableInv, NEW w \in Requests, dispatch(w) \/ initialValues(w) \/ deleteObject(w)
  PROVE  TableInv'
<1>1. WorkersTyped
  BY Zenon, TypesOf
<1>2. objects' = objects /\ names' = names /\ request' = request /\ heap' = heap
  BY Zenon DEF dispatch, initialValues, deleteObject
<1>3. Moved(w)
  BY Zenon, <1>1, GotoMoves, AnswerMoves DEF dispatch, initialValues, deleteObject
<1>4. CASE dispatch(w)
  <2>1. listed' = DOMAIN objects /\ at[w].pc \in {"added", "dropped"}
    BY Zenon, <1>4 DEF dispatch
  <2>2. at[w].pc = "added" => at'[w].pc = "initial"
    BY Zenon, <1>1, <1>4, GotoMoves, AnswerMoves DEF dispatch
  <2>3. at[w].pc = "dropped" => at'[w].pc = "done" /\ (request[w].op = "create" => ~InTable(w))
    BY Zenon, <1>1, <1>4, GotoMoves, AnswerMoves DEF dispatch, TableInv, OncePerWorker
  <2> QED
    <3>1. Progress(w)
      BY Zenon, <2>1, <2>2, <2>3 DEF Progress, Early, Outstanding
    <3> QED
      BY Zenon, <1>2, <1>3, <3>1, SameHeap, QuietKept
<1>5. CASE initialValues(w)
  <2>1. at[w].pc = "initial" /\ listed' = listed
    BY Zenon, <1>5 DEF initialValues
  <2>2. at'[w].pc = "remove" \/ (at'[w].pc = "done" /\ at'[w].outcome = "ack")
    <3>1. Goto(w, "remove") \/ Answer(w, "ack")
      BY Zenon, <1>5 DEF initialValues
    <3>2. CASE Goto(w, "remove")
      BY <1>1, <3>2, GotoMoves
    <3>3. CASE Answer(w, "ack")
      BY Zenon, <1>1, <3>3, AnswerMoves
    <3> QED
      BY Zenon, <3>1, <3>2, <3>3
  <2>3. Progress(w)
    BY Zenon, <2>1, <2>2 DEF Progress, Early, Outstanding
  <2> QED
    BY Zenon, <1>2, <1>3, <2>3, SameHeap, QuietKept
<1>6. CASE deleteObject(w)
  <2>1. at[w].pc = "start" /\ listed' = listed /\ request[w].op = "delete"
    BY Zenon, <1>6 DEF deleteObject
  <2>2. at'[w].pc \in {"remove", "done"}
    BY Zenon, <1>1, <1>6, GotoMoves, AnswerMoves DEF deleteObject
  <2>3. Progress(w)
    BY Zenon, <2>1, <2>2 DEF Progress, Early, Outstanding
  <2> QED
    BY Zenon, <1>2, <1>3, <2>3, SameHeap, QuietKept
<1> QED
  BY Zenon, <1>4, <1>5, <1>6

\* What Drop does.
LEMMA DropFacts ==
  ASSUME NEW f, NEW x
  PROVE  /\ DOMAIN Drop(f, x) = DOMAIN f \ {x}
         /\ \A z \in DOMAIN f : z # x => Drop(f, x)[z] = f[z]
BY Zenon DEF Drop

\* Device.Add: checked again under the lock, so that neither the identifier
\* nor the name nor the limit is at risk.
LEMMA AddKept ==
  ASSUME TableInv, NEW w \in Requests, Add(w)
  PROVE  TableInv'
<1>1. WorkersTyped /\ HeapTyped /\ at[w].pc = "add" /\ at[w].pc \in Early /\ ~InTable(w)
  BY Zenon, TypesOf DEF TableInv, OncePerWorker, Add, Early
<1>2. heap' = heap /\ listed' = listed /\ request' = request
  BY Zenon DEF Add
<1>3. CASE (\E s : Answer(w, s)) /\ objects' = objects /\ names' = names
  <2>1. Moved(w) /\ at'[w].pc = "done"
    BY Zenon, <1>1, <1>3, AnswerMoves
  <2>2. Progress(w)
    BY Zenon, <1>1, <1>2, <2>1 DEF Progress, Early, Outstanding
  <2> QED
    BY Zenon, <1>2, <1>3, <2>1, <2>2, SameHeap, QuietKept
<1> DEFINE i == heap[w].id
           n == heap[w].name
<1>4. CASE /\ i \notin DOMAIN objects /\ n \notin DOMAIN names
           /\ ~(Cardinality(DOMAIN objects) >= MaxObjects)
           /\ objects' = Put(objects, i, w) /\ names' = Put(names, n, i)
           /\ Goto(w, "notifier")
  <2>1. Moved(w) /\ at'[w].pc = "notifier"
    BY Zenon, <1>1, <1>4, GotoMoves
  <2>2. /\ DOMAIN objects' = DOMAIN objects \cup {i} /\ objects'[i] = w
        /\ \A z \in DOMAIN objects : objects'[z] = objects[z]
    <3> HIDE DEF i
    <3>1. /\ DOMAIN Put(objects, i, w) = DOMAIN objects \cup {i} /\ Put(objects, i, w)[i] = w
          /\ \A z \in DOMAIN objects : z # i => Put(objects, i, w)[z] = objects[z]
      BY Zenon DEF Put
    <3> QED
      BY Zenon, <1>4, <3>1
  <2>3. /\ DOMAIN names' = DOMAIN names \cup {n} /\ names'[n] = i
        /\ \A z \in DOMAIN names : names'[z] = names[z]
    <3> HIDE DEF i, n
    <3>1. /\ DOMAIN Put(names, n, i) = DOMAIN names \cup {n} /\ Put(names, n, i)[n] = i
          /\ \A z \in DOMAIN names : z # n => Put(names, n, i)[z] = names[z]
      BY Zenon DEF Put
    <3> QED
      BY Zenon, <1>4, <3>1
  <2> HIDE DEF i, n
  <2>4. \A x : InTable(x)' <=> InTable(x) \/ x = w
    BY Zenon, <2>2 DEF InTable
  <2>5. /\ IsFiniteSet(DOMAIN objects') /\ Cardinality(DOMAIN objects') <= MaxObjects
    <3>1. /\ IsFiniteSet(DOMAIN objects)
          /\ Cardinality(DOMAIN objects) \in Nat /\ Cardinality(DOMAIN objects) < MaxObjects
      BY <1>4, FS_CardinalityType, TableAssumption DEF TableInv, TableTypes
    <3>2. /\ IsFiniteSet(DOMAIN objects \cup {i})
          /\ Cardinality(DOMAIN objects \cup {i}) = Cardinality(DOMAIN objects) + 1
      BY Zenon, <1>4, <3>1, FS_AddElement
    <3>3. Cardinality(DOMAIN objects) + 1 <= MaxObjects
      BY <3>1, TableAssumption
    <3> QED
      BY Zenon, <2>2, <3>2, <3>3
  <2>6. TableTypes'
    BY Zenon, <1>2, <2>1, <2>2, <2>5 DEF TableInv, TableTypes, Moved, WorkersTyped, Owners
  <2>7. OncePerWorker'
    <3>1. \A x \in Requests : at'[x].pc \in Early => ~InTable(x)'
      BY Zenon, <2>1, <2>4 DEF TableInv, OncePerWorker, Moved, Early
    <3>2. ASSUME NEW x \in Requests, at'[x].pc = "unnotify"
          PROVE  (/\ at[x].removed \in Owners /\ ~InTable(at[x].removed)
                  /\ at[x].removed # Held => at[at[x].removed].pc \notin Early)'
      <4>1. x # w /\ at'[x] = at[x]
        BY Zenon, <2>1, <3>2 DEF Moved
      <4>2. /\ at[x].removed \in Owners /\ ~InTable(at[x].removed)
            /\ at[x].removed # Held => at[at[x].removed].pc \notin Early
        BY Zenon, <3>2, <4>1 DEF TableInv, OncePerWorker
      <4>3. at[x].removed # w
        BY Zenon, <1>1, <4>2, TableAssumption
      <4> QED
        BY Zenon, <2>1, <2>4, <4>1, <4>2, <4>3 DEF Owners, Moved
    <3>3. \A x \in Requests : at'[x].pc \in {"unnotify", "dropped"} /\ request'[x].op = "create"
            => ~InTable(x)'
      BY Zenon, <1>2, <2>1, <2>4 DEF TableInv, OncePerWorker, Moved
    <3> QED
      BY Zenon, <3>1, <3>2, <3>3 DEF OncePerWorker
  <2>8. Indexed'
    <3>1. heap[w].id = i /\ heap[w].name = n /\ Indexed
      BY Zenon DEF i, n, TableInv
    <3> QED
      BY <1>2, <1>4, <2>2, <2>3, <3>1 DEF Indexed
  <2>9. Reporting'
    BY Zenon, <1>1, <1>2, <2>1, <2>2 DEF Reporting, TableInv, TableTypes, Moved, InTable, Owners
  <2>10. RefusedLeavesNone'
    BY Zenon, <1>2, <2>1, <2>4 DEF RefusedLeavesNone, TableInv, Moved
  <2>11. ListIsSeen'
    BY Zenon, <2>1 DEF ListIsSeen, Outstanding
  <2> QED
    BY Zenon, <2>5, <2>6, <2>7, <2>8, <2>9, <2>10, <2>11 DEF TableInv
<1>5. CASE \/ i \in DOMAIN objects \/ n \in DOMAIN names
           \/ Cardinality(DOMAIN objects) >= MaxObjects
  BY <1>3, <1>5 DEF Add
<1>6. CASE ~(\/ i \in DOMAIN objects \/ n \in DOMAIN names
             \/ Cardinality(DOMAIN objects) >= MaxObjects)
  BY <1>4, <1>6 DEF Add
<1> QED
  BY Zenon, <1>5, <1>6

\* Device.Remove: whichever object has the identifier goes, and with it the
\* name it has now.
LEMMA RemoveKept ==
  ASSUME TableInv, NEW w \in Requests, Remove(w)
  PROVE  TableInv'
<1> DEFINE i == removing(w)
           o == objects[i]
           n == heap[o].name
<1>1. WorkersTyped /\ HeapTyped /\ at[w].pc = "remove" /\ Indexed
  BY Zenon, TypesOf DEF TableInv, Remove
<1>2. heap' = heap /\ listed' = listed /\ request' = request
  BY Zenon DEF Remove
<1>3. request[w].op = "create" => i = heap[w].id
  BY Zenon DEF removing
<1>4. \A id \in DOMAIN objects : objects[id] = w => heap[w].id = id
  BY Zenon, <1>1 DEF Indexed
<1>5. CASE i \notin DOMAIN objects /\ (\E s : Answer(w, s)) /\ objects' = objects /\ names' = names
  <2>1. Moved(w) /\ at'[w].pc = "done"
    BY Zenon, <1>1, <1>5, AnswerMoves
  <2>2. request[w].op = "create" => ~InTable(w)
    BY Zenon, <1>3, <1>4, <1>5 DEF InTable
  <2>3. Progress(w)
    BY Zenon, <1>1, <1>2, <2>1, <2>2 DEF Progress, Early, Outstanding
  <2> QED
    BY Zenon, <1>2, <1>5, <2>1, <2>3, SameHeap, QuietKept
<1>6. CASE /\ i \in DOMAIN objects /\ objects' = Drop(objects, i) /\ names' = Drop(names, n)
           /\ at' = [at EXCEPT ![w].pc = "unnotify", ![w].removed = o]
  <2>1. Moved(w) /\ at'[w].pc = "unnotify" /\ at'[w].removed = o
    BY Zenon, <1>1, <1>6, RemovedMoves
  <2>2. /\ DOMAIN objects' = DOMAIN objects \ {i}
        /\ \A z \in DOMAIN objects : z # i => objects'[z] = objects[z]
    BY Zenon, <1>6, DropFacts
  <2>3. /\ DOMAIN names' = DOMAIN names \ {n}
        /\ \A z \in DOMAIN names : z # n => names'[z] = names[z]
    BY Zenon, <1>6, DropFacts
  <2>4. /\ i \in DOMAIN objects /\ objects[i] = o /\ o \in Owners /\ heap[o].id = i
        /\ heap[o].name = n /\ n \in DOMAIN names /\ names[n] = i
    BY Zenon, <1>1, <1>6 DEF Indexed, TableInv, TableTypes
  <2> HIDE DEF i, o, n
  <2>5. \A z \in DOMAIN objects : z # i => objects[z] # o
    BY Zenon, <1>1, <2>4 DEF Indexed
  <2>6. \A x : InTable(x)' <=> InTable(x) /\ x # o
    BY Zenon, <2>2, <2>4, <2>5 DEF InTable
  <2>7. IsFiniteSet(DOMAIN objects') /\ Cardinality(DOMAIN objects') <= MaxObjects
    <3>1. /\ IsFiniteSet(DOMAIN objects)
          /\ Cardinality(DOMAIN objects) \in Nat /\ Cardinality(DOMAIN objects) <= MaxObjects
      BY FS_CardinalityType DEF TableInv, TableTypes
    <3>2. /\ IsFiniteSet(DOMAIN objects')
          /\ Cardinality(DOMAIN objects') = Cardinality(DOMAIN objects) - 1
      BY <2>2, <2>4, <3>1, FS_RemoveElement
    <3> QED
      BY <3>1, <3>2, TableAssumption
  <2>8. TableTypes'
    BY Zenon, <1>2, <2>1, <2>2, <2>7 DEF TableInv, TableTypes, Moved, WorkersTyped
  <2>9. OncePerWorker'
    <3>1. \A x \in Requests : at'[x].pc \in Early => ~InTable(x)'
      BY Zenon, <2>1, <2>6 DEF TableInv, OncePerWorker, Moved, Early
    <3>2. ASSUME NEW x \in Requests, at'[x].pc = "unnotify", x # w
          PROVE  (/\ at[x].removed \in Owners /\ ~InTable(at[x].removed)
                  /\ at[x].removed # Held => at[at[x].removed].pc \notin Early)'
      <4>1. at'[x] = at[x]
        BY Zenon, <2>1, <3>2 DEF Moved
      <4>2. /\ at[x].removed \in Owners /\ ~InTable(at[x].removed)
            /\ at[x].removed # Held => at[at[x].removed].pc \notin Early
        BY Zenon, <3>2, <4>1 DEF TableInv, OncePerWorker
      <4>3. ASSUME at[x].removed # Held
            PROVE  at'[at[x].removed].pc \notin Early
        BY Zenon, <2>1, <4>2, <4>3 DEF Owners, Moved, Early
      <4> QED
        BY Zenon, <2>6, <4>1, <4>2, <4>3
    <3>3. \A x : x = o => /\ x \in Owners /\ ~InTable(x)'
                         /\ (x # Held => at'[x].pc \notin Early)
      <4>1. ASSUME o # Held PROVE at[o].pc \notin Early
        BY Zenon, <2>4, <4>1 DEF TableInv, OncePerWorker, InTable, Owners
      <4>2. ASSUME o # Held PROVE at'[o].pc \notin Early
        <5>1. o = w => at'[o].pc = "unnotify"
          BY Zenon, <2>1
        <5>2. o # w => at'[o] = at[o]
          BY Zenon, <2>1, <2>4, <4>2 DEF Moved, Owners
        <5> QED
          BY Zenon, <4>1, <4>2, <5>1, <5>2 DEF Early
      <4> QED
        BY Zenon, <2>4, <2>6, <4>2
    <3>4. \A x \in Requests : at'[x].pc \in {"unnotify", "dropped"} /\ request'[x].op = "create"
            => ~InTable(x)'
      <4>1. request[w].op = "create" => ~InTable(w)'
        <5>1. request[w].op = "create" /\ InTable(w) => w = o
          BY Zenon, <1>3, <1>4, <2>4 DEF InTable
        <5> QED
          BY Zenon, <2>6, <5>1
      <4> QED
        BY Zenon, <1>2, <2>1, <2>6, <4>1 DEF TableInv, OncePerWorker, Moved
    <3>5. ASSUME NEW x \in Requests, at'[x].pc = "unnotify"
          PROVE  (/\ at[x].removed \in Owners /\ ~InTable(at[x].removed)
                  /\ at[x].removed # Held => at[at[x].removed].pc \notin Early)'
      <4>1. CASE x = w
        <5>1. at'[x].removed = o
          BY Zenon, <2>1, <4>1
        <5> QED
          BY <3>3, <5>1
      <4> QED
        BY Zenon, <3>2, <3>5, <4>1
    <3> QED
      BY Zenon, <3>1, <3>4, <3>5 DEF OncePerWorker
  <2>10. Indexed'
    BY <1>1, <1>2, <2>2, <2>3, <2>4, <2>5 DEF Indexed
  <2>11. Reporting'
    BY Zenon, <1>1, <1>2, <2>1, <2>2 DEF Reporting, TableInv, TableTypes, Moved, Owners
  <2>12. RefusedLeavesNone'
    BY Zenon, <1>2, <2>1, <2>6 DEF RefusedLeavesNone, TableInv, Moved
  <2>13. ListIsSeen'
    BY Zenon, <2>1 DEF ListIsSeen, Outstanding
  <2> QED
    BY Zenon, <2>7, <2>8, <2>9, <2>10, <2>11, <2>12, <2>13 DEF TableInv
<1> QED
  BY <1>5, <1>6 DEF Remove

\* Device.Rename: the old name goes and the new one comes in one hold.
LEMMA RenameKept ==
  ASSUME TableInv, NEW w \in Requests, Rename(w)
  PROVE  TableInv'
<1> DEFINE i == request[w].id
           m == request[w].name
           o == objects[i]
           n == heap[o].name
<1>1. WorkersTyped /\ HeapTyped /\ at[w].pc = "start" /\ Indexed /\ request[w].op = "rename"
  BY Zenon, TypesOf DEF TableInv, Rename
<1>2. /\ objects' = objects /\ listed' = listed /\ request' = request
      /\ \E s : Answer(w, s)
  BY DEF Rename
<1>3. Moved(w) /\ at'[w].pc = "done"
  BY Zenon, <1>1, <1>2, AnswerMoves
<1>4. Progress(w)
  BY Zenon, <1>1, <1>2, <1>3 DEF Progress, Early, Outstanding
<1>5. CASE names' = names /\ heap' = heap
  BY Zenon, <1>2, <1>3, <1>4, <1>5, SameHeap, QuietKept
<1>6. CASE /\ i \in DOMAIN objects /\ m \notin DOMAIN names
           /\ names' = Put(Drop(names, n), m, i)
           /\ heap' = [heap EXCEPT ![o].name = m]
  <2>1. /\ i \in DOMAIN objects /\ objects[i] = o /\ o \in Owners /\ heap[o].id = i
        /\ heap[o].name = n /\ n \in DOMAIN names /\ names[n] = i /\ m \notin DOMAIN names
    BY Zenon, <1>1, <1>6 DEF Indexed, TableInv, TableTypes
  <2>2. /\ DOMAIN names' = (DOMAIN names \ {n}) \cup {m} /\ names'[m] = i
        /\ \A z \in DOMAIN names : z # n => names'[z] = names[z]
    <3>1. /\ DOMAIN Drop(names, n) = DOMAIN names \ {n}
          /\ \A z \in DOMAIN names : z # n => Drop(names, n)[z] = names[z]
      BY Zenon, DropFacts
    <3>2. /\ DOMAIN names' = DOMAIN Drop(names, n) \cup {m} /\ names'[m] = i
          /\ \A z \in DOMAIN Drop(names, n) : z # m => names'[z] = Drop(names, n)[z]
      <4> DEFINE d == Drop(names, n)
      <4>1. names' = Put(d, m, i)
        BY Zenon, <1>6
      <4> HIDE DEF d, m, i
      <4>2. /\ DOMAIN Put(d, m, i) = DOMAIN d \cup {m} /\ Put(d, m, i)[m] = i
            /\ \A z \in DOMAIN d : z # m => Put(d, m, i)[z] = d[z]
        BY Zenon DEF Put
      <4>3. /\ DOMAIN names' = DOMAIN d \cup {m} /\ names'[m] = i
            /\ \A z \in DOMAIN d : z # m => names'[z] = d[z]
        BY Zenon, <4>1, <4>2
      <4> QED
        BY Zenon, <4>3 DEF d
    <3> HIDE DEF n, m, i
    <3> QED
      BY <2>1, <3>1, <3>2
  <2>3. /\ HeapTyped' /\ heap'[o].name = m /\ heap'[o].notify = heap[o].notify
        /\ \A x \in Owners : heap'[x].id = heap[x].id
        /\ \A x \in Owners : x # o => heap'[x] = heap[x]
    BY Zenon, <1>1, <1>6, <2>1, HeapName
  <2> HIDE DEF i, m, o, n
  <2>4. \A z \in DOMAIN objects : objects[z] \in Owners /\ (z # i => objects[z] # o)
    BY Zenon, <1>1, <2>1 DEF Indexed, TableInv, TableTypes
  <2>5. Indexed'
    BY <1>1, <1>2, <2>1, <2>2, <2>3, <2>4 DEF Indexed
  <2>6. TableTypes'
    BY Zenon, <1>2, <1>3, <2>3, TypesOf DEF Moved
  <2>7. Quiet(w)
    BY Zenon, <1>2, <1>3, <2>3, <2>4 DEF Quiet, Moved
  <2> QED
    BY Zenon, <1>4, <2>5, <2>6, <2>7, QuietKept
<1> QED
  BY <1>5, <1>6 DEF Rename

\* The name index is the inverse of the table, the table keeps its limit,
\* what is in it reports its changes, a refused CreateObject leaves nothing,
\* and the observers have seen Object_List, whatever the interleaving of the
\* requests that look at the table before they change it (Device.Add, Remove,
\* Rename and the CreateObject and DeleteObject handlers).
THEOREM TableIsConsistent == Spec => []TableConsistent
<1>1. Init => TableInv
  <2> SUFFICES ASSUME Init PROVE TableInv
    OBVIOUS
  <2>1. PICK asked : TableInit(asked)
    BY Zenon DEF Init
  <2>2. /\ DOMAIN objects = {HeldId} /\ objects[HeldId] = Held
        /\ DOMAIN names = {HeldName} /\ names[HeldName] = HeldId
        /\ listed = {HeldId}
        /\ \A w \in Requests : at[w].pc = "start"
        /\ \A o \in Owners : heap[o].id = HeldId /\ heap[o].name = HeldName
    BY Zenon, <2>1 DEF TableInit
  <2>3. HeapTyped /\ WorkersTyped
    BY Zenon, <2>1 DEF TableInit, HeapTyped, WorkersTyped
  <2>4. Held \in Owners /\ \A x : InTable(x) <=> x = Held
    BY Zenon, <2>2 DEF InTable, Owners
  <2>5. IsFiniteSet(DOMAIN objects) /\ Cardinality(DOMAIN objects) <= MaxObjects
    <3>1. IsFiniteSet({HeldId}) /\ Cardinality({HeldId}) = 1
      BY Zenon, FS_Singleton
    <3>2. 1 <= MaxObjects
      BY TableAssumption
    <3> QED
      BY Zenon, <2>2, <3>1, <3>2
  <2>6. TableTypes
    BY Zenon, <2>2, <2>3, <2>4, <2>5 DEF TableTypes, HeapTyped, WorkersTyped
  <2>7. OncePerWorker
    BY Zenon, <2>2, <2>4, TableAssumption DEF OncePerWorker
  <2>8. Indexed /\ Reporting /\ RefusedLeavesNone /\ ListIsSeen
    BY Zenon, <2>2, <2>4 DEF Indexed, Reporting, RefusedLeavesNone, ListIsSeen
  <2> QED
    BY Zenon, <2>5, <2>6, <2>7, <2>8 DEF TableInv
<1>2. TableInv /\ [Next]_vars => TableInv'
  <2> SUFFICES ASSUME TableInv, [Next]_vars PROVE TableInv'
    OBVIOUS
  <2>1. ASSUME NEW w \in Requests, Work(w) PROVE TableInv'
    BY Zenon, <2>1, CreateKept, PickNameKept, AddKept, NotifierKept, ReportKept, RemoveKept,
         RenameKept DEF Work
  <2>2. CASE UNCHANGED tableVars
    BY Zenon, <2>2 DEF tableVars, TableInv, TableTypes, OncePerWorker, Indexed, Reporting,
         RefusedLeavesNone, ListIsSeen, InTable
  <2> QED
    BY Zenon, <2>1, <2>2 DEF Next, TableStep, PointStep, ScheduleStep, LogStep, FileStep,
         BatchStep, vars
<1> QED
  BY <1>1, <1>2, TableParts, PTL DEF Spec

(***************************************************************************)
(* Induction.                                                              *)
(***************************************************************************)
\* Every non-empty set of natural numbers has a least member.
LEMMA Least ==
  ASSUME NEW T, T \subseteq Nat, T # {}
  PROVE  \E x \in T : \A y \in T : x <= y
<1> DEFINE R == {ss \in Nat \X Nat : ss[1] < ss[2]}
<1>1. IsWellFoundedOn(R, Nat)
  BY NatLessThanWellFounded, Zenon DEF OpToRel
<1> HIDE DEF R
<1>2. PICK x \in T : \A y \in T : ~ (<<y, x>> \in R)
  BY <1>1, WFMin, Zenon
<1>3. \A z, y \in T : <<y, z>> \in R <=> y < z
  BY SMTT(30) DEF R
<1>4. ASSUME NEW y \in T PROVE x <= y
  <2>1. ~ (y < x)
    BY Zenon, <1>2, <1>3
  <2>2. x \in Int /\ y \in Int
    OBVIOUS
  <2> QED
    BY <2>1, <2>2
<1> QED
  BY <1>4

\* Induction, for a set in place of a predicate.
LEMMA SetInduction ==
  ASSUME NEW S, 0 \in S, \A n \in Nat : n \in S => n + 1 \in S
  PROVE  Nat \subseteq S
<1> SUFFICES ASSUME Nat \ S # {} PROVE FALSE
  OBVIOUS
<1>1. PICK x \in Nat \ S : \A y \in Nat \ S : x <= y
  BY Zenon, Least
<1>2. x # 0 /\ x - 1 \in Nat /\ ~(x <= x - 1) /\ x = (x - 1) + 1
  BY <1>1
<1>3. x - 1 \in S
  BY <1>1, <1>2
<1> QED
  BY <1>1, <1>2, <1>3

(***************************************************************************)
(* Schedules: what a poll computes, stores and passes on.                  *)
(***************************************************************************)
\* One event of the scan: it wins with a numerically lower priority than the best so far, when
\* its period is active and it has a value at that time.
ScanStep(t, s, r, i) ==
  IF /\ s.exceptions[i].priority < r.priority
     /\ periodActive(s.exceptions[i], t.date)
     /\ timed(s.exceptions[i].values, t.time) # None
  THEN [value |-> timed(s.exceptions[i].values, t.time), priority |-> s.exceptions[i].priority]
  ELSE r

\* The scan before its first event: a priority below every valid one.
NoEvent == [value |-> None, priority |-> 17]

\* What the recursion of scanExceptions says of its result.
IsScan(t, s, N, f) ==
  f = [i \in 0 .. N |-> IF i = 0 THEN NoEvent ELSE ScanStep(t, s, f[i - 1], i)]

\* The recursion of scanExceptions has a solution, by induction on the number of events: a solution
\* for the first n extends to the next.
LEMMA ScanExists ==
  ASSUME NEW t, NEW s, NEW N \in Nat
  PROVE  \E f : IsScan(t, s, N, f)
<1> DEFINE P == {n \in Nat : \E f : IsScan(t, s, n, f)}
<1>1. 0 \in P
  <2> DEFINE f == [i \in 0 .. 0 |-> NoEvent]
  <2>1. IsScan(t, s, 0, f)
    BY SMTT(30) DEF IsScan
  <2> QED
    BY Zenon, <2>1
<1>2. ASSUME NEW n \in Nat, n \in P PROVE n + 1 \in P
  <2>1. PICK f : IsScan(t, s, n, f)
    BY Zenon, <1>2
  <2> DEFINE g == [i \in 0 .. n + 1 |-> IF i = n + 1 THEN ScanStep(t, s, f[n], n + 1) ELSE f[i]]
  <2>2. ASSUME NEW i \in 0 .. n + 1
        PROVE  g[i] = IF i = 0 THEN NoEvent ELSE ScanStep(t, s, g[i - 1], i)
    <3>1. CASE i = n + 1
      <4>1. i # 0 /\ i - 1 = n /\ n \in 0 .. n + 1 /\ n # n + 1
        BY <3>1
      <4> QED
        BY <3>1, <4>1
    <3>2. CASE i \in 0 .. n
      <4>1. f[i] = IF i = 0 THEN NoEvent ELSE ScanStep(t, s, f[i - 1], i)
        BY <2>1, <3>2 DEF IsScan
      <4>2. g[i] = f[i] /\ (i # 0 => g[i - 1] = f[i - 1])
        BY <3>2
      <4> QED
        BY <4>1, <4>2
    <3> QED
      BY <3>1, <3>2
  <2>3. IsScan(t, s, n + 1, g)
    BY Zenon, <2>2 DEF IsScan
  <2>4. n + 1 \in Nat
    OBVIOUS
  <2> HIDE DEF g
  <2> QED
    BY Zenon, <2>3, <2>4
<1>3. Nat \subseteq P
  <2> HIDE DEF P
  <2> QED
    BY Zenon, <1>1, <1>2, SetInduction
<1> QED
  BY <1>3

\* So scanExceptions is a solution of its recursion (Schedule.evaluate's loop over the exceptions).
LEMMA ScanFacts ==
  ASSUME NEW t, NEW s, Len(s.exceptions) \in Nat
  PROVE  IsScan(t, s, Len(s.exceptions), scanExceptions(t, s))
<1> DEFINE N == Len(s.exceptions)
<1>1. scanExceptions(t, s) = CHOOSE g : IsScan(t, s, N, g)
  BY Zenon DEF scanExceptions, ScanStep, NoEvent, IsScan
<1>2. \E g : IsScan(t, s, N, g)
  BY Zenon, ScanExists
<1> QED
  BY Zenon, <1>1, <1>2

\* Whether an Exception_Schedule is one the server accepts.
Valid(x) == Len(x) \in Nat /\ \A i \in 1 .. Len(x) : x[i].priority \in 1 .. 16

\* The result of the scan when the events in E have been seen.
Scanned(t, s, r, E) ==
  \/ E = {} /\ r = NoEvent
  \/ \E b \in E : /\ Precedes(s.exceptions, b, E)
                 /\ r = [value |-> timed(s.exceptions[b].values, t.time),
                         priority |-> s.exceptions[b].priority]

\* One round of the loop: with one event more seen, the result is the first of those in effect in
\* the order of priority, then of place.
LEMMA ScanStepFinds ==
  ASSUME NEW t, NEW s, Valid(s.exceptions), NEW n \in Nat, n + 1 \in 1 .. Len(s.exceptions),
         NEW r, Scanned(t, s, r, InEffect(s, t) \cap 1 .. n)
  PROVE  Scanned(t, s, ScanStep(t, s, r, n + 1), InEffect(s, t) \cap 1 .. n + 1)
<1> DEFINE k == n + 1
           E == InEffect(s, t) \cap 1 .. n
           F == InEffect(s, t) \cap 1 .. n + 1
           p(i) == s.exceptions[i].priority
           v(i) == timed(s.exceptions[i].values, t.time)
<1>1. k \in InEffect(s, t) <=> periodActive(s.exceptions[k], t.date) /\ v(k) # None
  BY Zenon DEF InEffect
<1>2. /\ k \in InEffect(s, t) => F = E \cup {k}
      /\ k \notin InEffect(s, t) => F = E
      /\ \A j \in E : j \in Nat /\ j < k /\ j \in 1 .. Len(s.exceptions)
      /\ k \in Nat
  BY SMTT(30) DEF Valid
<1>3. \A i \in 1 .. Len(s.exceptions) : p(i) \in Nat /\ p(i) <= 16
  BY SMTT(30) DEF Valid
<1>4. ScanStep(t, s, r, k) =
        IF p(k) < r.priority /\ k \in InEffect(s, t) THEN [value |-> v(k), priority |-> p(k)] ELSE r
  BY Zenon, <1>1 DEF ScanStep
<1>5. CASE k \notin InEffect(s, t)
  <2>1. ScanStep(t, s, r, k) = r /\ F = E
    BY Zenon, <1>2, <1>4, <1>5
  <2> QED
    BY Zenon, <2>1
<1>6. CASE k \in InEffect(s, t) /\ E = {} /\ r = NoEvent
  <2>1. ScanStep(t, s, r, k) = [value |-> v(k), priority |-> p(k)] /\ F = {k}
    <3>1. r.priority = 17
      BY Zenon, <1>6 DEF NoEvent
    <3>2. p(k) < 17
      BY <1>3
    <3>3. F = {k}
      BY Zenon, <1>2, <1>6
    <3> QED
      BY Zenon, <3>1, <3>2, <3>3, <1>4, <1>6
  <2>2. Precedes(s.exceptions, k, {k})
    BY SMTT(30), <1>2 DEF Precedes
  <2>3. Scanned(t, s, ScanStep(t, s, r, k), {k})
    BY Zenon, <2>1, <2>2 DEF Scanned
  <2> QED
    BY Zenon, <2>1, <2>3
<1>7. CASE /\ k \in InEffect(s, t)
           /\ \E b \in E : Precedes(s.exceptions, b, E) /\ r = [value |-> v(b), priority |-> p(b)]
  <2>1. PICK b \in E : Precedes(s.exceptions, b, E) /\ r = [value |-> v(b), priority |-> p(b)]
    BY Zenon, <1>7
  <2>2. r.priority = p(b) /\ F = E \cup {k}
    BY Zenon, <1>2, <1>7, <2>1
  <2>3. \A j \in E : /\ j \in Nat /\ j < k /\ p(j) \in Nat
                    /\ (p(b) < p(j) \/ (p(b) = p(j) /\ b <= j))
    BY Zenon, <1>2, <1>3, <2>1 DEF Precedes
  <2>4. p(k) \in Nat /\ k \in Nat
    BY Zenon, <1>2, <1>3
  <2>5. CASE p(k) < p(b)
    <3>1. Precedes(s.exceptions, k, F)
      <4> HIDE DEF E, F, k
      <4> QED
        BY SMTT(30), <2>2, <2>3, <2>4, <2>5 DEF Precedes
    <3>2. ScanStep(t, s, r, k) = [value |-> v(k), priority |-> p(k)]
      BY Zenon, <1>4, <1>7, <2>2, <2>5
    <3> QED
      BY Zenon, <2>2, <3>1, <3>2 DEF Scanned
  <2>6. CASE ~(p(k) < p(b))
    <3>1. Precedes(s.exceptions, b, F)
      <4> HIDE DEF E, F, k
      <4> QED
        BY SMTT(30), <2>2, <2>3, <2>4, <2>6 DEF Precedes
    <3>2. ScanStep(t, s, r, k) = r
      BY Zenon, <1>4, <2>2, <2>6
    <3> QED
      BY Zenon, <2>1, <2>2, <3>1, <3>2 DEF Scanned
  <2> QED
    BY Zenon, <2>5, <2>6
<1> QED
  BY Zenon, <1>5, <1>6, <1>7 DEF Scanned

\* The whole loop, by induction on its rounds.
LEMMA ScanFinds ==
  ASSUME NEW t, NEW s, Valid(s.exceptions)
  PROVE  Scanned(t, s, scanExceptions(t, s)[Len(s.exceptions)], InEffect(s, t))
<1> DEFINE f == scanExceptions(t, s)
           N == Len(s.exceptions)
           E(n) == InEffect(s, t) \cap 1 .. n
           P == {n \in Nat : n <= N => Scanned(t, s, f[n], E(n))}
<1>0. N \in Nat
  BY Zenon DEF Valid
<1>1. IsScan(t, s, N, f)
  BY Zenon, <1>0, ScanFacts
<1> HIDE DEF f
<1>2. f[0] = NoEvent /\ \A n \in Nat : n + 1 <= N => f[n + 1] = ScanStep(t, s, f[n], n + 1)
  BY SMTT(30), <1>0, <1>1 DEF IsScan
<1>3. 0 \in P
  <2>1. E(0) = {}
    BY SMTT(30)
  <2> QED
    BY Zenon, <1>2, <2>1 DEF Scanned
<1>4. ASSUME NEW n \in Nat, n \in P PROVE n + 1 \in P
  <2> SUFFICES ASSUME n + 1 <= N PROVE Scanned(t, s, f[n + 1], E(n + 1))
    OBVIOUS
  <2>1. n <= N /\ n + 1 \in 1 .. N
    BY <1>0
  <2>2. Scanned(t, s, f[n], E(n))
    BY Zenon, <1>4, <2>1
  <2>3. Scanned(t, s, ScanStep(t, s, f[n], n + 1), E(n + 1))
    BY Zenon, <2>1, <2>2, ScanStepFinds
  <2> QED
    BY Zenon, <1>2, <2>3
<1>5. N \in P
  <2> HIDE DEF P, N
  <2> QED
    BY Zenon, <1>0, <1>3, <1>4, SetInduction
<1>6. E(N) = InEffect(s, t)
  BY Zenon DEF InEffect
<1>7. N <= N
  BY <1>0
<1> QED
  BY Zenon, <1>5, <1>6, <1>7 DEF f

\* Schedule.evaluate, a scan that keeps the best event so far, computes the value that clause 12.24
\* asks for, said without a scan: for every schedule, calendar, date and time.
THEOREM EvaluateIsExpected ==
  ASSUME NEW t, NEW s, Valid(s.exceptions)
  PROVE  evaluate(t, s) = Expected(s, t)
<1> DEFINE E == InEffect(s, t)
           r == scanExceptions(t, s)[Len(s.exceptions)]
           v(i) == timed(s.exceptions[i].values, t.time)
<1>1. Scanned(t, s, r, E)
  BY Zenon, ScanFinds
<1>2. \A i \in E : i \in 1 .. Len(s.exceptions) /\ v(i) # None
  BY Zenon DEF InEffect
<1>3. CASE E = {}
  <2>1. r.value = None
    <3> HIDE DEF E, r
    <3>1. r = NoEvent
      BY Zenon, <1>1, <1>3 DEF Scanned
    <3> QED
      BY Zenon, <3>1 DEF NoEvent
  <2> QED
    BY Zenon, <1>3, <2>1 DEF evaluate, Expected
<1>4. CASE E # {}
  <2>1. PICK b \in E : Precedes(s.exceptions, b, E) /\ r.value = v(b)
    <3> HIDE DEF E, r
    <3>1. PICK b \in E : /\ Precedes(s.exceptions, b, E)
                       /\ r = [value |-> v(b), priority |-> s.exceptions[b].priority]
      BY Zenon, <1>1, <1>4 DEF Scanned
    <3> QED
      BY Zenon, <3>1
  <2> DEFINE first == First(s.exceptions, E)
  <2>2. first \in E /\ Precedes(s.exceptions, first, E)
    BY Zenon, <2>1 DEF First
  <2>3. b = first
    <3> HIDE DEF first
    <3>1. /\ b \in Nat /\ first \in Nat
          /\ s.exceptions[b].priority \in Nat /\ s.exceptions[first].priority \in Nat
      <4>1. b \in 1 .. Len(s.exceptions) /\ first \in 1 .. Len(s.exceptions)
        BY Zenon, <1>2, <2>2
      <4>2. /\ s.exceptions[b].priority \in 1 .. 16
            /\ s.exceptions[first].priority \in 1 .. 16
        BY Zenon, <4>1 DEF Valid
      <4>3. Len(s.exceptions) \in Nat
        BY Zenon DEF Valid
      <4>4. (\A x \in 1 .. 16 : x \in Nat) /\ \A x \in 1 .. Len(s.exceptions) : x \in Nat
        BY <4>3
      <4> QED
        BY Zenon, <4>1, <4>2, <4>4
    <3>2. /\ \/ s.exceptions[b].priority < s.exceptions[first].priority
             \/ s.exceptions[b].priority = s.exceptions[first].priority /\ b <= first
          /\ \/ s.exceptions[first].priority < s.exceptions[b].priority
             \/ s.exceptions[first].priority = s.exceptions[b].priority /\ first <= b
      BY Zenon, <2>1, <2>2 DEF Precedes
    <3> QED
      BY <3>1, <3>2
  <2>4. r.value = v(first) /\ v(first) # None
    BY Zenon, <1>2, <2>1, <2>2, <2>3
  <2> QED
    BY Zenon, <1>4, <2>4 DEF evaluate, Expected
<1> QED
  BY Zenon, <1>3, <1>4

\* The fields of a schedule, of a poll and of the calendar.
IsSched(s) ==
  s = [effective |-> s.effective, weekly |-> s.weekly, exceptions |-> s.exceptions,
       default |-> s.default, refs |-> s.refs, oos |-> s.oos, pv |-> s.pv, pending |-> s.pending]

\* The fields of a poll.
IsPoll(p) ==
  p = [pc |-> p.pc, at |-> p.at, snapshot |-> p.snapshot, value |-> p.value, refs |-> p.refs]

\* The fields of the calendar.
IsDates(d) == d = [entries |-> d.entries, today |-> d.today, pv |-> d.pv]

\* Two schedules with the same value at every instant.
SameProgram(s, u) ==
  /\ s.effective = u.effective /\ s.weekly = u.weekly
  /\ s.exceptions = u.exceptions /\ s.default = u.default

\* The shape of the state; an Exception_Schedule is valid when it is the schedule that runs
\* (checkEvent); the Calendar's Present_Value is that of its list on its date.
SchedTypes ==
  /\ IsSched(sched) /\ IsPoll(poll) /\ IsDates(dates)
  /\ target = [t \in Targets |-> target[t]]
  /\ kept \subseteq sched.refs /\ sched.refs \subseteq Targets
  /\ subject = "schedule" => Valid(sched.exceptions)
  /\ dates.pv = contains(dates.entries, dates.today)

\* What the poll carries is still right while nothing it read has changed: the snapshot, then the
\* value computed from it, then Present_Value itself.
Accurate ==
  still /\ ~sched.oos =>
    /\ poll.pc = "evaluate" => SameProgram(poll.snapshot, sched) /\ poll.at = Clock[now]
    /\ poll.pc = "update" => poll.value = Expected(sched, Clock[now])
    /\ poll.pc \notin {"evaluate", "update"} => sched.pv = Expected(sched, Clock[now])

\* Out of service, Present_Value is what it was given there.
HeldOutOfService == sched.oos => sched.pv = held

\* With nothing pending, a reference that was there when Present_Value changed has it, or the poll
\* that took the flag is still going to write it, with that value.
Passed ==
  ~sched.pending =>
    /\ poll.pc = "write" => poll.value = sched.pv
    /\ \A t \in kept \cap Accepts :
         target[t] = sched.pv \/ (poll.pc = "write" /\ t \in poll.refs)

\* The inductive invariant of the schedule.
SchedInv == SchedTypes /\ Accurate /\ HeldOutOfService /\ Passed

\* The invariant implies the property the run checks.
LEMMA SchedParts == SchedInv => ScheduleFollows
  BY Zenon DEF SchedInv, SchedTypes, Accurate, HeldOutOfService, Passed, ScheduleFollows

\* The value asked for moves only with the program, the calendar's list and
\* the clock.
LEMMA ExpectedSame ==
  ASSUME SameProgram(sched', sched), dates'.entries = dates.entries, now' = now
  PROVE  Expected(sched, Clock[now])' = Expected(sched, Clock[now])
<1>1. \A e, d : periodActive(e, d)' = periodActive(e, d)
  BY Zenon DEF periodActive
<1>2. InEffect(sched, Clock[now])' = InEffect(sched, Clock[now])
  BY Zenon, <1>1 DEF InEffect, SameProgram
<1> QED
  BY Zenon, <1>2 DEF Expected, SameProgram

\* Schedules with the same program have the same value at every instant.
LEMMA ExpectedOf ==
  ASSUME NEW s, NEW u, NEW t, SameProgram(s, u)
  PROVE  Expected(s, t) = Expected(u, t)
<1>1. InEffect(s, t) = InEffect(u, t)
  BY Zenon DEF InEffect, SameProgram
<1> QED
  BY Zenon, <1>1 DEF Expected, SameProgram

\* Calendar.Poll and Schedule.Poll's snapshot.
LEMMA PollBeginKept ==
  ASSUME SchedInv, PollBegin, UNCHANGED subject
  PROVE  SchedInv'
<1>1. /\ poll.pc = "idle" /\ UNCHANGED <<now, sched, target, written, held, kept>>
      /\ dates' = [dates EXCEPT !.today = Today, !.pv = contains(dates.entries, Today)]
      /\ poll' = [poll EXCEPT !.pc = IF sched.oos THEN "take" ELSE "evaluate",
                              !.at = Clock[now], !.snapshot = sched]
  BY Zenon DEF PollBegin
<1>2. /\ IsDates(dates') /\ dates'.entries = dates.entries
      /\ dates'.pv = contains(dates'.entries, dates'.today)
  BY Zenon, <1>1 DEF SchedInv, SchedTypes, IsDates
<1>3. /\ IsPoll(poll')
      /\ sched.oos => poll'.pc = "take"
      /\ ~sched.oos => poll'.pc = "evaluate"
      /\ poll'.at = Clock[now] /\ poll'.snapshot = sched
  BY Zenon, <1>1 DEF SchedInv, SchedTypes, IsPoll
<1>4. SchedTypes'
  BY Zenon, <1>1, <1>2, <1>3 DEF SchedInv, SchedTypes, contains
<1>5. Accurate'
  BY Zenon, <1>1, <1>3 DEF Accurate, SameProgram
<1>6. HeldOutOfService' /\ Passed'
  BY Zenon, <1>1, <1>3 DEF SchedInv, HeldOutOfService, Passed
<1> QED
  BY Zenon, <1>4, <1>5, <1>6 DEF SchedInv

\* The evaluation outside the lock: here evaluate has to be right.
LEMMA EvaluateKept ==
  ASSUME SchedInv, Evaluate, subject = "schedule", UNCHANGED subject
  PROVE  SchedInv'
<1>1. /\ poll.pc = "evaluate" /\ UNCHANGED <<now, sched, dates, target, written, held, kept, still>>
      /\ poll' = [poll EXCEPT !.pc = "update", !.value = evaluate(poll.at, poll.snapshot)]
  BY Zenon DEF Evaluate
<1>2. /\ IsPoll(poll') /\ poll'.pc = "update" /\ poll'.value = evaluate(poll.at, poll.snapshot)
  BY Zenon, <1>1 DEF SchedInv, SchedTypes, IsPoll
<1>3. SchedTypes'
  BY Zenon, <1>1, <1>2 DEF SchedInv, SchedTypes, contains
<1>4. Accurate'
  <2> SUFFICES ASSUME still, ~sched.oos PROVE poll'.value = Expected(sched, Clock[now])'
    BY Zenon, <1>1, <1>2 DEF Accurate
  <2>1. SameProgram(poll.snapshot, sched) /\ poll.at = Clock[now]
    BY Zenon, <1>1 DEF SchedInv, Accurate
  <2>2. Valid(poll.snapshot.exceptions)
    BY Zenon, <2>1 DEF SchedInv, SchedTypes, SameProgram
  <2>3. evaluate(poll.at, poll.snapshot) = Expected(poll.snapshot, Clock[now])
    BY Zenon, <2>1, <2>2, EvaluateIsExpected
  <2>4. Expected(poll.snapshot, Clock[now]) = Expected(sched, Clock[now])
    BY Zenon, <2>1, ExpectedOf
  <2>5. Expected(sched, Clock[now])' = Expected(sched, Clock[now])
    BY Zenon, <1>1, ExpectedSame DEF SameProgram
  <2> QED
    BY Zenon, <1>2, <2>3, <2>4, <2>5
<1>5. HeldOutOfService' /\ Passed'
  BY Zenon, <1>1, <1>2 DEF SchedInv, HeldOutOfService, Passed
<1> QED
  BY Zenon, <1>3, <1>4, <1>5 DEF SchedInv

\* setPresent of the value v leaves everything but Present_Value and the
\* pending flag alone.
LEMMA PresentSet ==
  ASSUME SchedInv, NEW v, setPresent(v)
  PROVE  /\ IsSched(sched') /\ SameProgram(sched', sched) /\ sched'.refs = sched.refs
         /\ sched'.oos = sched.oos /\ sched'.pv = v /\ sched'.pending = TRUE
         /\ kept' = sched.refs
  BY Zenon DEF SchedInv, SchedTypes, setPresent, IsSched, SameProgram

\* The result is stored under the lock, unless the schedule went out of service since the snapshot.
LEMMA PollUpdateKept ==
  ASSUME SchedInv, PollUpdate, UNCHANGED subject
  PROVE  SchedInv'
<1>1. /\ poll.pc = "update" /\ UNCHANGED <<now, dates, target, written, held, still>>
      /\ poll' = [poll EXCEPT !.pc = "take"]
  BY Zenon DEF PollUpdate
<1>2. /\ IsPoll(poll') /\ poll'.pc = "take"
  BY Zenon, <1>1 DEF SchedInv, SchedTypes, IsPoll
<1>3. CASE UNCHANGED <<sched, kept>> /\ (sched.oos \/ sched.pv = poll.value)
  <2>1. SchedTypes'
    BY Zenon, <1>1, <1>2, <1>3 DEF SchedInv, SchedTypes, contains
  <2>2. Accurate'
    <3>1. Expected(sched, Clock[now])' = Expected(sched, Clock[now])
      BY Zenon, <1>1, <1>3, ExpectedSame DEF SameProgram
    <3> QED
      BY Zenon, <1>1, <1>2, <1>3, <3>1 DEF SchedInv, Accurate
  <2>3. HeldOutOfService' /\ Passed'
    BY Zenon, <1>1, <1>2, <1>3 DEF SchedInv, HeldOutOfService, Passed
  <2> QED
    BY Zenon, <2>1, <2>2, <2>3 DEF SchedInv
<1>4. CASE setPresent(poll.value) /\ ~sched.oos
  <2>0. /\ IsSched(sched') /\ SameProgram(sched', sched) /\ sched'.refs = sched.refs
        /\ sched'.oos = sched.oos /\ sched'.pv = poll.value /\ sched'.pending = TRUE
        /\ kept' = sched.refs
    BY Zenon, <1>4, PresentSet
  <2>1. SchedTypes'
    BY Zenon, <1>1, <1>2, <2>0 DEF SchedInv, SchedTypes, contains, SameProgram
  <2>2. Accurate'
    <3>1. Expected(sched, Clock[now])' = Expected(sched, Clock[now])
      BY Zenon, <1>1, <2>0, ExpectedSame
    <3> QED
      BY Zenon, <1>1, <1>2, <2>0, <3>1 DEF SchedInv, Accurate
  <2>3. HeldOutOfService' /\ Passed'
    BY Zenon, <1>4, <2>0 DEF HeldOutOfService, Passed
  <2> QED
    BY Zenon, <2>1, <2>2, <2>3 DEF SchedInv
<1> QED
  BY Zenon, <1>3, <1>4 DEF PollUpdate

\* The pending flag, the value and the references are taken in one hold of the lock.
LEMMA TakePendingKept ==
  ASSUME SchedInv, TakePending, UNCHANGED subject
  PROVE  SchedInv'
<1>1. /\ poll.pc = "take" /\ UNCHANGED <<now, dates, target, written, held, kept, still>>
      /\ sched' = [sched EXCEPT !.pending = FALSE]
      /\ poll' = IF sched.pending
                 THEN [poll EXCEPT !.pc = "write", !.value = sched.pv, !.refs = sched.refs]
                 ELSE Resting
  BY Zenon DEF TakePending
<1>2. /\ IsSched(sched') /\ SameProgram(sched', sched) /\ sched'.refs = sched.refs
      /\ sched'.oos = sched.oos /\ sched'.pv = sched.pv /\ ~sched'.pending
  BY Zenon, <1>1 DEF SchedInv, SchedTypes, IsSched, SameProgram
<1>3. /\ ~sched.pending => poll'.pc = "idle"
      /\ sched.pending => poll'.pc = "write" /\ poll'.value = sched.pv /\ poll'.refs = sched.refs
  BY Zenon, <1>1 DEF SchedInv, SchedTypes, IsPoll, Resting
<1>4. SchedTypes'
  <2>1. IsPoll(poll')
    BY Zenon, <1>1 DEF SchedInv, SchedTypes, IsPoll, Resting
  <2> QED
    BY Zenon, <1>1, <1>2, <2>1 DEF SchedInv, SchedTypes, contains, SameProgram
<1>5. Accurate'
  <2>1. Expected(sched, Clock[now])' = Expected(sched, Clock[now])
    BY Zenon, <1>1, <1>2, ExpectedSame
  <2>2. poll'.pc \notin {"evaluate", "update"}
    BY <1>3
  <2> QED
    BY Zenon, <1>1, <1>2, <2>1, <2>2 DEF SchedInv, Accurate
<1>6. HeldOutOfService'
  BY Zenon, <1>1, <1>2 DEF SchedInv, HeldOutOfService
<1>7. Passed'
  BY Zenon, <1>1, <1>2, <1>3 DEF SchedInv, SchedTypes, Passed
<1> QED
  BY Zenon, <1>4, <1>5, <1>6, <1>7 DEF SchedInv

\* One reference is written, or the poll ends: what was left to write is written.
LEMMA WriteReferenceKept ==
  ASSUME SchedInv, WriteReference, UNCHANGED subject
  PROVE  SchedInv'
<1>1. poll.pc = "write" /\ UNCHANGED <<now, sched, dates, written, held, kept, still>>
  BY Zenon DEF WriteReference
<1>2. Expected(sched, Clock[now])' = Expected(sched, Clock[now])
  BY Zenon, <1>1, ExpectedSame DEF SameProgram
<1>3. CASE poll.refs = {} /\ poll' = Resting /\ UNCHANGED target
  <2>1. IsPoll(poll') /\ poll'.pc = "idle"
    BY Zenon, <1>3 DEF IsPoll, Resting
  <2>2. SchedTypes'
    BY Zenon, <1>1, <1>3, <2>1 DEF SchedInv, SchedTypes, contains
  <2>3. Accurate' /\ HeldOutOfService'
    BY Zenon, <1>1, <1>2, <2>1 DEF SchedInv, Accurate, HeldOutOfService
  <2>4. Passed'
    BY Zenon, <1>1, <1>3, <2>1 DEF SchedInv, Passed
  <2> QED
    BY Zenon, <2>2, <2>3, <2>4 DEF SchedInv
<1>4. ASSUME NEW r \in poll.refs, poll' = [poll EXCEPT !.refs = @ \ {r}],
             target' = IF r \in Accepts THEN [target EXCEPT ![r] = poll.value] ELSE target
      PROVE  SchedInv'
  <2>1. /\ IsPoll(poll') /\ poll'.pc = "write" /\ poll'.refs = poll.refs \ {r}
        /\ poll'.value = poll.value
    BY Zenon, <1>1, <1>4 DEF SchedInv, SchedTypes, IsPoll
  <2>2. /\ target' = [t \in Targets |-> target'[t]]
        /\ \A t \in Targets : target'[t] = IF t = r /\ r \in Accepts THEN poll.value ELSE target[t]
    BY Zenon, <1>4 DEF SchedInv, SchedTypes
  <2>3. SchedTypes'
    BY Zenon, <1>1, <2>1, <2>2 DEF SchedInv, SchedTypes, contains
  <2>4. Accurate' /\ HeldOutOfService'
    BY Zenon, <1>1, <1>2, <2>1 DEF SchedInv, Accurate, HeldOutOfService
  <2>5. Passed'
    <3> SUFFICES ASSUME ~sched.pending, NEW t \in kept \cap Accepts
                 PROVE  target'[t] = sched.pv \/ t \in poll'.refs
      BY Zenon, <1>1, <2>1 DEF SchedInv, Passed
    <3>1. poll.value = sched.pv /\ (target[t] = sched.pv \/ t \in poll.refs) /\ t \in Targets
      BY Zenon, <1>1 DEF SchedInv, SchedTypes, Passed
    <3> QED
      BY Zenon, <2>1, <2>2, <3>1
  <2> QED
    BY Zenon, <2>3, <2>4, <2>5 DEF SchedInv
<1> QED
  BY Zenon, <1>3, <1>4 DEF WriteReference

\* A write of Present_Value, accepted only out of service.
LEMMA WritePresentKept ==
  ASSUME SchedInv, NEW v, scheduleWritePresentValue(v), UNCHANGED subject
  PROVE  SchedInv'
<1>1. /\ sched.oos /\ setPresent(v) /\ held' = v
      /\ UNCHANGED <<now, dates, target, poll, still>>
  BY Zenon DEF scheduleWritePresentValue
<1>2. /\ IsSched(sched') /\ SameProgram(sched', sched) /\ sched'.refs = sched.refs
      /\ sched'.oos = sched.oos /\ sched'.pv = v /\ sched'.pending = TRUE
      /\ kept' = sched.refs
  BY Zenon, <1>1, PresentSet
<1>3. SchedTypes'
  BY Zenon, <1>1, <1>2 DEF SchedInv, SchedTypes, contains, SameProgram
<1>4. Accurate' /\ HeldOutOfService' /\ Passed'
  BY Zenon, <1>1, <1>2 DEF Accurate, HeldOutOfService, Passed
<1> QED
  BY Zenon, <1>3, <1>4 DEF SchedInv

\* A write of Out_Of_Service: the value found there is the one that is held.
LEMMA WriteOutOfServiceKept ==
  ASSUME SchedInv, NEW b \in BOOLEAN, scheduleWriteOutOfService(b), UNCHANGED subject
  PROVE  SchedInv'
<1>1. /\ sched.oos # b /\ sched' = [sched EXCEPT !.oos = b]
      /\ held' = (IF b THEN sched.pv ELSE held) /\ still' = FALSE
      /\ UNCHANGED <<now, dates, target, poll, kept>>
  BY Zenon DEF scheduleWriteOutOfService
<1>2. /\ IsSched(sched') /\ sched'.exceptions = sched.exceptions /\ sched'.refs = sched.refs
      /\ sched'.oos = b /\ sched'.pv = sched.pv /\ sched'.pending = sched.pending
  BY Zenon, <1>1 DEF SchedInv, SchedTypes, IsSched
<1>3. SchedTypes'
  BY Zenon, <1>1, <1>2 DEF SchedInv, SchedTypes, contains
<1>4. Accurate'
  BY Zenon, <1>1 DEF Accurate
<1>5. HeldOutOfService' /\ Passed'
  BY Zenon, <1>1, <1>2 DEF SchedInv, HeldOutOfService, Passed
<1> QED
  BY Zenon, <1>3, <1>4, <1>5 DEF SchedInv

\* A write of a property that the evaluation or the writing depends on.
LEMMA RewriteKept ==
  ASSUME SchedInv, Rewrite(sched'), IsSched(sched'), sched'.refs \subseteq Targets,
         Valid(sched'.exceptions), sched'.oos = sched.oos, sched'.pv = sched.pv,
         sched'.pending = sched.pending, UNCHANGED subject
  PROVE  SchedInv'
<1>1. /\ still' = FALSE /\ kept' = kept \cap sched'.refs
      /\ UNCHANGED <<now, dates, target, poll, held>>
  BY Zenon DEF Rewrite
<1>2. SchedTypes'
  BY Zenon, <1>1 DEF SchedInv, SchedTypes, contains
<1>3. Accurate'
  BY Zenon, <1>1 DEF Accurate
<1>4. HeldOutOfService' /\ Passed'
  BY Zenon, <1>1 DEF SchedInv, HeldOutOfService, Passed
<1> QED
  BY Zenon, <1>2, <1>3, <1>4 DEF SchedInv

\* Every step of the schedule, the calendar and the clock keeps the invariant.
LEMMA SchedKept ==
  ASSUME SchedInv, subject = "schedule", SchedNext, UNCHANGED subject
  PROVE  SchedInv'
<1>0. IsSched(sched) /\ sched.refs \subseteq Targets /\ Valid(sched.exceptions)
  BY Zenon DEF SchedInv, SchedTypes
<1>1. CASE PollSchedule
  BY Zenon, <1>1, PollBeginKept, EvaluateKept, PollUpdateKept, TakePendingKept,
     WriteReferenceKept DEF PollSchedule
<1>2. CASE Tick
  <2>1. still' = FALSE /\ UNCHANGED <<sched, dates, target, poll, written, held, kept>>
    BY Zenon, <1>2 DEF Tick
  <2>2. SchedTypes'
    BY Zenon, <2>1 DEF SchedInv, SchedTypes, contains
  <2> QED
    BY Zenon, <2>1, <2>2 DEF SchedInv, Accurate, HeldOutOfService, Passed
<1>3. CASE writeWeekly
  <2>1. PICK w \in Weeklies : sched' = [sched EXCEPT !.weekly = w] /\ Rewrite(sched')
    BY Zenon, <1>3 DEF writeWeekly, Rewrite
  <2>2. /\ IsSched(sched') /\ sched'.refs = sched.refs /\ sched'.exceptions = sched.exceptions
        /\ sched'.oos = sched.oos /\ sched'.pv = sched.pv /\ sched'.pending = sched.pending
    BY Zenon, <1>0, <2>1 DEF IsSched
  <2> QED
    BY Zenon, <1>0, <2>1, <2>2, RewriteKept
<1>4. CASE writeExceptions
  <2>1. PICK x \in Exceptions : sched' = [sched EXCEPT !.exceptions = x] /\ Rewrite(sched')
    BY Zenon, <1>4 DEF writeExceptions, Rewrite
  <2>2. /\ IsSched(sched') /\ sched'.refs = sched.refs /\ sched'.exceptions = x
        /\ sched'.oos = sched.oos /\ sched'.pv = sched.pv /\ sched'.pending = sched.pending
    BY Zenon, <1>0, <2>1 DEF IsSched
  <2>3. Valid(x)
    BY Zenon, ScheduleAssumption DEF Valid
  <2> QED
    BY Zenon, <1>0, <2>1, <2>2, <2>3, RewriteKept
<1>5. CASE writeEffectivePeriod
  <2>1. PICK r \in Effectives : sched' = [sched EXCEPT !.effective = r] /\ Rewrite(sched')
    BY Zenon, <1>5 DEF writeEffectivePeriod, Rewrite
  <2>2. /\ IsSched(sched') /\ sched'.refs = sched.refs /\ sched'.exceptions = sched.exceptions
        /\ sched'.oos = sched.oos /\ sched'.pv = sched.pv /\ sched'.pending = sched.pending
    BY Zenon, <1>0, <2>1 DEF IsSched
  <2> QED
    BY Zenon, <1>0, <2>1, <2>2, RewriteKept
<1>6. CASE writeReferences
  <2>1. PICK refs \in SUBSET Targets : sched' = [sched EXCEPT !.refs = refs] /\ Rewrite(sched')
    BY Zenon, <1>6 DEF writeReferences, Rewrite
  <2>2. /\ IsSched(sched') /\ sched'.refs = refs /\ sched'.exceptions = sched.exceptions
        /\ sched'.oos = sched.oos /\ sched'.pv = sched.pv /\ sched'.pending = sched.pending
    BY Zenon, <1>0, <2>1 DEF IsSched
  <2> QED
    BY Zenon, <1>0, <2>1, <2>2, RewriteKept
<1>7. CASE writeDateList
  <2>1. PICK l \in DateLists :
          /\ dates' = [dates EXCEPT !.entries = l, !.pv = contains(l, dates.today)]
          /\ still' = FALSE /\ UNCHANGED <<now, sched, target, poll, held, kept>>
    BY Zenon, <1>7 DEF writeDateList, setEntriesLocked
  <2>2. IsDates(dates') /\ dates'.pv = contains(dates'.entries, dates'.today)
    BY Zenon, <2>1 DEF SchedInv, SchedTypes, IsDates
  <2>3. SchedTypes'
    BY Zenon, <2>1, <2>2 DEF SchedInv, SchedTypes, contains
  <2> QED
    BY Zenon, <2>1, <2>3 DEF SchedInv, Accurate, HeldOutOfService, Passed
<1>8. ASSUME NEW v, scheduleWritePresentValue(v) PROVE SchedInv'
  BY Zenon, <1>8, WritePresentKept
<1>9. ASSUME NEW b \in BOOLEAN, scheduleWriteOutOfService(b) PROVE SchedInv'
  BY Zenon, <1>9, WriteOutOfServiceKept
<1> QED
  BY Zenon, <1>1, <1>2, <1>3, <1>4, <1>5, <1>6, <1>7, <1>8, <1>9 DEF SchedNext

\* Schedule.Poll and the property writes that run between its steps: an in-service schedule whose
\* inputs have not moved since the poll began has the value clause 12.24 asks for; one out of
\* service keeps its value, although a poll that began before may still be evaluating; with nothing
\* pending every reference has the value; the Calendar's Present_Value matches its list.
THEOREM ScheduleIsFollowed == Spec => []ScheduleFollows
<1>1. Init => SchedInv
  <2> SUFFICES ASSUME Init PROVE SchedInv
    OBVIOUS
  <2>0. SchedInit(AnyOf("schedule", Weeklies), AnyOf("schedule", ShortLists),
                  AnyOf("schedule", SUBSET Targets), AnyOf("schedule", DateLists))
    BY Zenon DEF Init
  <2>1. PICK w \in AnyOf("schedule", Weeklies), x \in AnyOf("schedule", ShortLists),
             refs \in AnyOf("schedule", SUBSET Targets) :
          sched = [NewSchedule EXCEPT !.weekly = w, !.exceptions = x, !.refs = refs]
    BY Zenon, <2>0 DEF SchedInit
  <2>7. PICK l \in AnyOf("schedule", DateLists) :
          dates = [entries |-> l, today |-> Today, pv |-> contains(l, Today)]
    BY Zenon, <2>0 DEF SchedInit
  <2>8. /\ target = [t \in Targets |-> None] /\ poll = Resting
        /\ held = Default /\ kept = sched.refs /\ still = FALSE
    BY Zenon, <2>0 DEF SchedInit
  <2>2. refs \subseteq Targets
    <3>1. (CHOOSE y \in SUBSET Targets : TRUE) \in SUBSET Targets
      BY Zenon
    <3> QED
      BY Zenon, <3>1 DEF AnyOf
  <2>3. subject = "schedule" => Valid(x)
    BY Zenon, ScheduleAssumption, ModelAssumption DEF AnyOf, Valid
  <2>4. /\ IsSched(sched) /\ sched.exceptions = x /\ sched.refs = refs
        /\ ~sched.oos /\ sched.pending
    BY Zenon, <2>1 DEF NewSchedule, IsSched
  <2>5. IsPoll(poll) /\ IsDates(dates) /\ dates.pv = contains(dates.entries, dates.today)
    BY Zenon, <2>7, <2>8 DEF Resting, IsPoll, IsDates
  <2>6. SchedTypes
    BY Zenon, <2>2, <2>3, <2>4, <2>5, <2>8 DEF SchedTypes
  <2> QED
    BY Zenon, <2>4, <2>8, <2>6 DEF SchedInv, Accurate, HeldOutOfService, Passed
<1>2. SchedInv /\ [Next]_vars => SchedInv'
  <2> SUFFICES ASSUME SchedInv, [Next]_vars PROVE SchedInv'
    OBVIOUS
  <2>1. CASE ScheduleStep
    BY Zenon, <2>1, SchedKept DEF ScheduleStep
  <2>2. CASE UNCHANGED <<schedVars, subject>>
    <3>1. UNCHANGED <<now, sched, dates, target, poll, written, held, kept, still, subject>>
      BY Zenon, <2>2 DEF schedVars
    <3>2. Expected(sched, Clock[now])' = Expected(sched, Clock[now])
      BY Zenon, <3>1, ExpectedSame DEF SameProgram
    <3>3. SchedTypes'
      BY Zenon, <3>1 DEF SchedInv, SchedTypes, contains
    <3> QED
      BY Zenon, <3>1, <3>2, <3>3 DEF SchedInv, Accurate, HeldOutOfService, Passed
  <2> QED
    BY Zenon, <2>1, <2>2 DEF Next, TableStep, PointStep, LogStep, FileStep, BatchStep, vars
<1> QED
  BY <1>1, <1>2, SchedParts, PTL DEF Spec

(***************************************************************************)
(* Sequences.                                                              *)
(***************************************************************************)
\* Sequences with the same elements are the same.
LEMMA SeqSame ==
  ASSUME NEW S, NEW s \in Seq(S), NEW t \in Seq(S), Len(s) = Len(t),
         \A i \in 1 .. Len(s) : s[i] = t[i]
  PROVE  s = t
  BY SMTT(30)

\* Two sequences one after the other, element by element.
LEMMA SeqConcat ==
  ASSUME NEW S, NEW s \in Seq(S), NEW t \in Seq(S)
  PROVE  /\ s \o t \in Seq(S) /\ Len(s \o t) = Len(s) + Len(t)
         /\ \A i \in 1 .. Len(s) + Len(t) :
              (s \o t)[i] = IF i <= Len(s) THEN s[i] ELSE t[i - Len(s)]
  BY SMTT(30)

\* A piece of a sequence, element by element.
LEMMA SeqPiece ==
  ASSUME NEW S, NEW s \in Seq(S), NEW m \in Nat, NEW n \in m .. Len(s)
  PROVE  /\ SubSeq(s, m + 1, n) \in Seq(S) /\ Len(SubSeq(s, m + 1, n)) = n - m
         /\ \A i \in 1 .. n - m : SubSeq(s, m + 1, n)[i] = s[m + i]
  BY SMTT(30)

\* The whole of a sequence is a piece of it.
LEMMA SeqWhole ==
  ASSUME NEW S, NEW s \in Seq(S)
  PROVE  SubSeq(s, 1, Len(s)) = s
  BY SMTT(30)

(***************************************************************************)
(* Files: what a helper reads and writes, chunk by chunk.                  *)
(***************************************************************************)
\* The fields of a file.
IsFile(f) == f = [record |-> f.record, readOnly |-> f.readOnly, data |-> f.data]

\* The fields of a transfer.
IsTransfer(t) ==
  t = [op |-> t.op, pos |-> t.pos, data |-> t.data, out |-> t.out, chunk |-> t.chunk,
       max |-> t.max, base |-> t.base, size |-> t.size, result |-> t.result]

\* The contents of a file: octets, or records.
Octets == Seq(Nat)

\* The shape of the state; the file is within FileConfig.MaxSize.
FileTypes ==
  /\ IsFile(file) /\ file.data \in Octets /\ Len(file.data) <= MaxSize
  /\ IsTransfer(transfer)
  /\ transfer.op \in {"none", "readStream", "readRecords", "writeStream", "done"}
  /\ transfer.pos \in Int /\ transfer.data \in Octets /\ transfer.out \in Octets
  /\ transfer.chunk \in Nat /\ transfer.max \in Nat /\ transfer.size \in Nat
  /\ transfer.base = None \/ transfer.base \in Nat

\* xs lies in data from the place after p on.
LiesAt(data, p, xs, n) == p + n <= Len(data) /\ \A i \in 1 .. n : data[p + i] = xs[i]

\* A read under way holds the file's first elements, up to its position.
Reading ==
  transfer.op \in {"readStream", "readRecords"} =>
    /\ transfer.chunk > 0 /\ transfer.base = None
    /\ transfer.pos = Len(transfer.out) /\ Len(transfer.out) <= transfer.max
    /\ transfer.max > 0
    /\ ~since => LiesAt(file.data, 0, transfer.out, Len(transfer.out))

\* A write under way: what was acknowledged and what is left make up the payload, and the next
\* chunk goes behind the last one.
Writing ==
  transfer.op = "writeStream" =>
    /\ transfer.max = 0 /\ transfer.size + Len(transfer.data) = Len(transfer.out)
    /\ \A i \in 1 .. Len(transfer.data) : transfer.data[i] = transfer.out[transfer.size + i]
    /\ transfer.base = None => transfer.size = 0
    /\ transfer.base # None => transfer.pos = transfer.base + transfer.size

\* What is acknowledged lies in the file from the first chunk's place on; a read that is over ended
\* where its result says.
Copied ==
  /\ transfer.base # None =>
       /\ transfer.op \in {"writeStream", "done"} /\ transfer.max = 0
       /\ transfer.size <= Len(transfer.out)
       /\ ~since => LiesAt(file.data, transfer.base, transfer.out, transfer.size)
  /\ transfer.op = "done" /\ transfer.max > 0 /\ ~since =>
       /\ LiesAt(file.data, 0, transfer.out, Len(transfer.out))
       /\ transfer.result = "ok" => Len(transfer.out) = Len(file.data)
       /\ transfer.result = "limit" => Len(transfer.out) = transfer.max
  /\ transfer.op = "done" /\ transfer.max = 0 /\ transfer.result = "ok" =>
       transfer.size = Len(transfer.out)

\* The inductive invariant of a file transfer.
FileInv == FileTypes /\ Reading /\ Writing /\ Copied

\* A piece of a file's contents, element by element.
LEMMA Piece ==
  ASSUME NEW s \in Octets, NEW m \in Nat, NEW n \in m .. Len(s)
  PROVE  /\ SubSeq(s, m + 1, n) \in Octets /\ Len(SubSeq(s, m + 1, n)) = n - m
         /\ \A i \in 1 .. n - m : SubSeq(s, m + 1, n)[i] = s[m + i]
  BY Zenon, SeqPiece DEF Octets

\* The file after a write: as long as needed, the new elements at their place, those before it kept.
LEMMA OverlayFacts ==
  ASSUME NEW d \in Octets, NEW p \in Nat, NEW xs \in Octets
  PROVE  /\ Overlay(d, p, xs) \in Octets
         /\ Len(Overlay(d, p, xs)) = IF p + Len(xs) > Len(d) THEN p + Len(xs) ELSE Len(d)
         /\ \A i \in 1 .. Len(xs) : Overlay(d, p, xs)[p + i] = xs[i]
         /\ \A i \in 1 .. Len(d) : i <= p => Overlay(d, p, xs)[i] = d[i]
<1> DEFINE n == IF p + Len(xs) > Len(d) THEN p + Len(xs) ELSE Len(d)
           e(i) == IF i \in p + 1 .. p + Len(xs) THEN xs[i - p] ELSE IF i <= Len(d) THEN d[i] ELSE 0
           o == [i \in 1 .. n |-> e(i)]
<1>1. Overlay(d, p, xs) = o
  BY Zenon DEF Overlay
<1>2. n \in Nat /\ p + Len(xs) <= n /\ Len(d) <= n
  BY DEF Octets
<1>3. \A i \in 1 .. n : e(i) \in Nat
  BY SMTT(30) DEF Octets
<1>4. o \in [1 .. n -> Nat]
  BY Zenon, <1>3
<1> HIDE DEF n
<1>5. o \in Seq(Nat) /\ Len(o) = n
  <2> HIDE DEF o
  <2> QED
    BY <1>2, <1>4
<1>6. ASSUME NEW i \in 1 .. Len(xs) PROVE o[p + i] = xs[i]
  <2>1. p + i \in 1 .. n /\ p + i \in p + 1 .. p + Len(xs) /\ (p + i) - p = i
    BY <1>2 DEF Octets
  <2>2. o[p + i] = e(p + i)
    BY Zenon, <2>1
  <2> QED
    BY Zenon, <2>1, <2>2
<1>7. ASSUME NEW i \in 1 .. Len(d), i <= p PROVE o[i] = d[i]
  <2>1. i \in 1 .. n /\ i \notin p + 1 .. p + Len(xs) /\ i <= Len(d)
    BY <1>2, <1>7 DEF Octets
  <2>2. o[i] = e(i)
    BY Zenon, <2>1
  <2> QED
    BY Zenon, <2>1, <2>2
<1> HIDE DEF o
<1> QED
  BY Zenon, <1>1, <1>5, <1>6, <1>7 DEF Octets, n

\* The answer to a chunk that is written.
IsWritten(d, xs, w) ==
  /\ w.data \in Octets /\ Len(w.data) <= MaxSize
  /\ w.ok => /\ w.at \in Nat
             /\ LiesAt(w.data, w.at, xs, Len(xs))
             /\ Len(d) <= Len(w.data)
             /\ \A i \in 1 .. Len(d) : i <= w.at => w.data[i] = d[i]

\* WriteStream and WriteRecords keep the file's bound; a stream write puts
\* the octets where the acknowledgement says.
LEMMA WriteFacts ==
  ASSUME NEW f, f.data \in Octets, Len(f.data) <= MaxSize, NEW start \in Int, NEW xs \in Octets
  PROVE  /\ IsWritten(f.data, xs, WriteStream(f, start, xs))
         /\ IsWritten(f.data, xs, WriteRecords(f, start, xs))
         /\ WriteStream(f, start, xs).ok /\ start >= 0 => WriteStream(f, start, xs).at = start
<1> DEFINE p == IF start = -1 THEN Len(f.data) ELSE start
           q == IF start = -1 \/ start > Len(f.data) THEN Len(f.data) ELSE start
<1>1. MaxSize \in Nat /\ Len(f.data) \in Nat /\ Len(xs) \in Nat
  BY FileAssumption DEF Octets
<1>2. ASSUME NEW a \in Nat, a + Len(xs) <= MaxSize
      PROVE  IsWritten(f.data, xs, [ok |-> TRUE, at |-> a, data |-> Overlay(f.data, a, xs)])
  <2> DEFINE o == Overlay(f.data, a, xs)
  <2>1. /\ o \in Octets /\ Len(o) = IF a + Len(xs) > Len(f.data) THEN a + Len(xs) ELSE Len(f.data)
        /\ \A i \in 1 .. Len(xs) : o[a + i] = xs[i]
        /\ \A i \in 1 .. Len(f.data) : i <= a => o[i] = f.data[i]
    BY Zenon, OverlayFacts
  <2> HIDE DEF o
  <2>2. Len(o) <= MaxSize /\ a + Len(xs) <= Len(o) /\ Len(f.data) <= Len(o)
    BY <1>1, <1>2, <2>1
  <2>3. PICK w : w = [ok |-> TRUE, at |-> a, data |-> o]
    BY Zenon
  <2>4. w.data = o /\ w.at = a
    BY <2>3
  <2>5. IsWritten(f.data, xs, w)
    BY Zenon, <2>1, <2>2, <2>4 DEF IsWritten, LiesAt
  <2> QED
    BY Zenon, <2>3, <2>5 DEF o
<1>3. IsWritten(f.data, xs, [ok |-> FALSE, at |-> 0, data |-> f.data])
  <2>1. PICK w : w = [ok |-> FALSE, at |-> 0, data |-> f.data]
    BY Zenon
  <2>2. w.data = f.data /\ ~w.ok
    BY <2>1
  <2>3. IsWritten(f.data, xs, w)
    BY Zenon, <2>2 DEF IsWritten
  <2> QED
    BY Zenon, <2>1, <2>3
<1>4. IsWritten(f.data, xs, WriteRecords(f, start, xs))
  <2>1. CASE f.readOnly \/ start < -1 \/ q + Len(xs) > MaxSize
    BY Zenon, <1>3, <2>1 DEF WriteRecords
  <2>2. CASE ~(f.readOnly \/ start < -1 \/ q + Len(xs) > MaxSize)
    <3>1. q \in Nat /\ q + Len(xs) <= MaxSize
      BY <1>1, <2>2
    <3>2. WriteRecords(f, start, xs) = [ok |-> TRUE, at |-> q, data |-> Overlay(f.data, q, xs)]
      BY Zenon, <2>2 DEF WriteRecords
    <3> HIDE DEF q
    <3> QED
      BY Zenon, <1>2, <3>1, <3>2
  <2> QED
    BY Zenon, <2>1, <2>2
<1>5. CASE f.readOnly \/ start < -1 \/ p + Len(xs) > MaxSize
  <2>1. WriteStream(f, start, xs) = [ok |-> FALSE, at |-> 0, data |-> f.data]
    BY Zenon, <1>5 DEF WriteStream
  <2>2. ~[ok |-> FALSE, at |-> 0, data |-> f.data].ok
    OBVIOUS
  <2> QED
    BY Zenon, <1>3, <1>4, <2>1, <2>2
<1>6. CASE ~(f.readOnly \/ start < -1 \/ p + Len(xs) > MaxSize)
  <2>1. p \in Nat /\ p + Len(xs) <= MaxSize /\ (start >= 0 => p = start)
    BY <1>1, <1>6
  <2>2. WriteStream(f, start, xs) = [ok |-> TRUE, at |-> p, data |-> Overlay(f.data, p, xs)]
    BY Zenon, <1>6 DEF WriteStream
  <2> HIDE DEF p
  <2>3. WriteStream(f, start, xs).at = p
    BY <2>2
  <2>4. IsWritten(f.data, xs, WriteStream(f, start, xs))
    BY Zenon, <1>2, <2>1, <2>2
  <2> QED
    BY Zenon, <1>4, <2>1, <2>3, <2>4
<1> QED
  BY Zenon, <1>5, <1>6

\* ReadStream and ReadRecords: a piece of the file from its position on.
IsPiece(d, start, count, a) ==
  /\ a.data \in Octets /\ Len(a.data) \in Nat /\ Len(a.data) <= count
  /\ start + Len(a.data) <= Len(d)
  /\ \A i \in 1 .. Len(a.data) : d[start + i] = a.data[i]
  /\ a.eof \/ a.data = <<>> => start + Len(a.data) = Len(d)

\* ReadStream and ReadRecords return such a piece, and their end-of-file flag, or an empty answer,
\* means that it reaches the end.
LEMMA ReadFacts ==
  ASSUME NEW f, f.data \in Octets, NEW start \in Nat, NEW count \in Nat \ {0},
         ReadFile(f, start, count).ok
  PROVE  IsPiece(f.data, start, count, ReadFile(f, start, count))
<1>0. PICK a : a = ReadFile(f, start, count) /\ a.ok
  BY Zenon
<1> DEFINE n == Len(f.data)
           end == IF count < n - start THEN start + count ELSE n
           x == SubSeq(f.data, start + 1, end)
<1>1. n \in Nat
  BY DEF Octets
<1>2. start <= n /\ a.data = x /\ (a.eof => end = n)
  <2>1. CASE start < 0 \/ start > n
    <3>1. a = [ok |-> FALSE, data |-> <<>>, eof |-> FALSE]
      BY Zenon, <1>0, <2>1 DEF ReadFile
    <3> QED
      BY <1>0, <3>1
  <2>2. CASE ~(start < 0 \/ start > n)
    <3>1. a = [ok |-> TRUE, data |-> x, eof |-> end = n]
      BY Zenon, <1>0, <2>2 DEF ReadFile
    <3>2. start <= n
      BY <1>1, <2>2
    <3> DEFINE e == end = n
    <3>3. a = [ok |-> TRUE, data |-> x, eof |-> e]
      BY Zenon, <3>1
    <3> HIDE DEF x, e
    <3>4. a.data = x
      BY <3>3
    <3>5. a.eof = e
      BY <3>3
    <3> QED
      BY Zenon, <3>2, <3>4, <3>5 DEF e
  <2> QED
    BY Zenon, <2>1, <2>2
<1>3. /\ end \in Nat /\ start <= end /\ end <= n /\ end - start <= count
      /\ (start = end => end = n)
  BY <1>1, <1>2
<1> HIDE DEF end, n
<1>4. x \in Octets /\ Len(x) = end - start /\ \A i \in 1 .. end - start : x[i] = f.data[start + i]
  <2>1. end \in start .. Len(f.data)
    BY <1>1, <1>3 DEF n
  <2> QED
    BY Zenon, <2>1, Piece
<1> HIDE DEF x
<1>5. x = <<>> => end = start
  BY <1>3, <1>4
<1>6. start + Len(x) = end /\ Len(x) <= count /\ Len(x) \in Nat
  BY <1>3, <1>4
<1> QED
  BY Zenon, <1>0, <1>2, <1>3, <1>4, <1>5, <1>6 DEF IsPiece, n

\* What ReadFileStream and ReadFileRecords do with the answer a, from t to r.
IsReadStep(t, a, r) ==
  /\ IsTransfer(r) /\ r.data = t.data /\ r.chunk = t.chunk /\ r.max = t.max
  /\ r.base = t.base /\ r.size = t.size
  /\ ~a.ok => r.op = "done" /\ r.result = "error" /\ r.out = t.out /\ r.pos = t.pos
  /\ a.ok => /\ r.out = t.out \o a.data
             /\ \/ r.op = "done" /\ r.pos = t.pos /\ r.result = "error"
                \/ /\ r.op = "done" /\ r.pos = t.pos /\ r.result = "ok"
                   /\ a.eof \/ a.data = <<>>
                \/ r.op = t.op /\ r.pos = t.pos + Len(a.data)

\* The cases of the helpers' loop body, as the record they leave.
LEMMA ReadStepFacts ==
  ASSUME NEW t, IsTransfer(t), NEW a
  PROVE  IsReadStep(t, a, readStep(t, a))
<1>0. PICK r : r = readStep(t, a)
  BY Zenon
<1> SUFFICES IsReadStep(t, a, r)
  BY Zenon, <1>0
<1>1. PICK q : q = [t EXCEPT !.out = @ \o a.data]
  BY Zenon
<1>2. /\ IsTransfer(q) /\ q.op = t.op /\ q.pos = t.pos /\ q.data = t.data /\ q.chunk = t.chunk
      /\ q.max = t.max /\ q.base = t.base /\ q.size = t.size /\ q.out = t.out \o a.data
  BY Zenon, <1>1 DEF IsTransfer
<1>3. PICK p : p = nextFilePosition(t.pos, Len(a.data))
  BY Zenon
<1>4. p = None \/ p = t.pos + Len(a.data)
  BY Zenon, <1>3 DEF nextFilePosition
<1>5. CASE ~a.ok
  <2>1. r = Finish(t, "error")
    BY Zenon, <1>0, <1>5 DEF readStep
  <2>2. /\ IsTransfer(r) /\ r.op = "done" /\ r.result = "error" /\ r.out = t.out
        /\ r.pos = t.pos /\ r.data = t.data /\ r.chunk = t.chunk /\ r.max = t.max
        /\ r.base = t.base /\ r.size = t.size
    BY Zenon, <1>2, <2>1 DEF IsTransfer, Finish
  <2> QED
    BY Zenon, <1>5, <2>2 DEF IsReadStep
<1>6. CASE a.ok /\ p = None
  <2>1. r = Finish(q, "error")
    BY Zenon, <1>0, <1>1, <1>3, <1>6 DEF readStep
  <2>2. /\ IsTransfer(r) /\ r.op = "done" /\ r.result = "error" /\ r.out = q.out
        /\ r.pos = q.pos /\ r.data = q.data /\ r.chunk = q.chunk /\ r.max = q.max
        /\ r.base = q.base /\ r.size = q.size
    BY Zenon, <1>2, <2>1 DEF IsTransfer, Finish
  <2> QED
    BY Zenon, <1>2, <1>6, <2>2 DEF IsReadStep
<1>7. CASE a.ok /\ p # None /\ (a.eof \/ a.data = <<>>)
  <2>1. r = Finish(q, "ok")
    BY Zenon, <1>0, <1>1, <1>3, <1>7 DEF readStep
  <2>2. /\ IsTransfer(r) /\ r.op = "done" /\ r.result = "ok" /\ r.out = q.out
        /\ r.pos = q.pos /\ r.data = q.data /\ r.chunk = q.chunk /\ r.max = q.max
        /\ r.base = q.base /\ r.size = q.size
    BY Zenon, <1>2, <2>1 DEF IsTransfer, Finish
  <2> QED
    BY Zenon, <1>2, <1>7, <2>2 DEF IsReadStep
<1>8. CASE a.ok /\ p # None /\ ~(a.eof \/ a.data = <<>>)
  <2>1. r = [q EXCEPT !.pos = p]
    BY Zenon, <1>0, <1>1, <1>3, <1>8 DEF readStep
  <2>2. /\ IsTransfer(r) /\ r.op = q.op /\ r.pos = p /\ r.data = q.data /\ r.chunk = q.chunk
        /\ r.max = q.max /\ r.base = q.base /\ r.size = q.size /\ r.out = q.out
    BY Zenon, <1>2, <2>1 DEF IsTransfer
  <2> QED
    BY Zenon, <1>2, <1>4, <1>8, <2>2 DEF IsReadStep
<1> QED
  BY Zenon, <1>5, <1>6, <1>7, <1>8

\* What WriteFileStream does with the acknowledgement a of the chunk xs, from t to r.
IsWriteStep(t, xs, a, r) ==
  /\ IsTransfer(r) /\ r.out = t.out /\ r.chunk = t.chunk /\ r.max = t.max
  /\ ~a.ok => /\ r.op = "done" /\ r.result = "error" /\ r.pos = t.pos /\ r.data = t.data
              /\ r.base = t.base /\ r.size = t.size
  /\ a.ok => /\ r.data = SubSeq(t.data, Len(xs) + 1, Len(t.data))
             /\ r.size = t.size + Len(xs)
             /\ t.base = None => r.base = a.at
             /\ t.base # None => r.base = t.base
             /\ \/ r.op = "done" /\ r.pos = t.pos /\ r.result = "error"
                \/ r.op = t.op /\ r.pos = (IF t.pos < 0 THEN a.at ELSE t.pos) + Len(xs)

\* The cases of WriteFileStream's loop body, as the record they leave.
LEMMA WriteStepFacts ==
  ASSUME NEW t, IsTransfer(t), NEW xs, NEW a
  PROVE  IsWriteStep(t, xs, a, writeStep(t, xs, a))
<1>0. PICK r : r = writeStep(t, xs, a)
  BY Zenon
<1> SUFFICES IsWriteStep(t, xs, a, r)
  BY Zenon, <1>0
<1>1. PICK q : q = [t EXCEPT !.data = SubSeq(t.data, Len(xs) + 1, Len(t.data)),
                             !.base = IF t.base = None THEN a.at ELSE t.base,
                             !.size = t.size + Len(xs)]
  BY Zenon
<1>2. /\ IsTransfer(q) /\ q.op = t.op /\ q.pos = t.pos /\ q.chunk = t.chunk /\ q.max = t.max
      /\ q.out = t.out /\ q.data = SubSeq(t.data, Len(xs) + 1, Len(t.data))
      /\ q.size = t.size + Len(xs) /\ q.base = IF t.base = None THEN a.at ELSE t.base
  BY Zenon, <1>1 DEF IsTransfer
<1>3. PICK p : p = nextFilePosition(IF t.pos < 0 THEN a.at ELSE t.pos, Len(xs))
  BY Zenon
<1>4. p = None \/ p = (IF t.pos < 0 THEN a.at ELSE t.pos) + Len(xs)
  BY Zenon, <1>3 DEF nextFilePosition
<1>5. CASE ~a.ok
  <2>1. r = Finish(t, "error")
    BY Zenon, <1>0, <1>5 DEF writeStep
  <2>2. /\ IsTransfer(r) /\ r.op = "done" /\ r.result = "error" /\ r.out = t.out
        /\ r.pos = t.pos /\ r.data = t.data /\ r.chunk = t.chunk /\ r.max = t.max
        /\ r.base = t.base /\ r.size = t.size
    BY Zenon, <1>2, <2>1 DEF IsTransfer, Finish
  <2> QED
    BY Zenon, <1>5, <2>2 DEF IsWriteStep
<1>6. CASE a.ok /\ p = None
  <2>1. r = Finish(q, "error")
    BY Zenon, <1>0, <1>1, <1>3, <1>6 DEF writeStep
  <2>2. /\ IsTransfer(r) /\ r.op = "done" /\ r.result = "error" /\ r.out = q.out
        /\ r.pos = q.pos /\ r.data = q.data /\ r.chunk = q.chunk /\ r.max = q.max
        /\ r.base = q.base /\ r.size = q.size
    BY Zenon, <1>2, <2>1 DEF IsTransfer, Finish
  <2> QED
    BY Zenon, <1>2, <1>6, <2>2 DEF IsWriteStep
<1>7. CASE a.ok /\ p # None
  <2>1. r = [q EXCEPT !.pos = p]
    BY Zenon, <1>0, <1>1, <1>3, <1>7 DEF writeStep
  <2>2. /\ IsTransfer(r) /\ r.op = q.op /\ r.pos = p /\ r.data = q.data /\ r.chunk = q.chunk
        /\ r.max = q.max /\ r.base = q.base /\ r.size = q.size /\ r.out = q.out
    BY Zenon, <1>2, <2>1 DEF IsTransfer
  <2> QED
    BY Zenon, <1>2, <1>4, <1>7, <2>2 DEF IsWriteStep
<1> QED
  BY Zenon, <1>5, <1>6, <1>7

\* What was read so far and the next piece of the file make up a longer prefix of it.
LEMMA LiesOn ==
  ASSUME NEW d \in Octets, NEW out \in Octets, NEW xs \in Octets,
         LiesAt(d, 0, out, Len(out)), Len(out) + Len(xs) <= Len(d),
         \A i \in 1 .. Len(xs) : d[Len(out) + i] = xs[i]
  PROVE  /\ out \o xs \in Octets /\ Len(out \o xs) = Len(out) + Len(xs)
         /\ LiesAt(d, 0, out \o xs, Len(out \o xs))
<1> DEFINE o == out \o xs
<1>1. /\ o \in Seq(Nat) /\ Len(o) = Len(out) + Len(xs)
      /\ \A i \in 1 .. Len(out) + Len(xs) : o[i] = IF i <= Len(out) THEN out[i] ELSE xs[i - Len(out)]
  BY Zenon, SeqConcat DEF Octets
<1>2. Len(out) \in Nat /\ Len(xs) \in Nat
  BY DEF Octets
<1> HIDE DEF o
<1>3. ASSUME NEW i \in 1 .. Len(o) PROVE d[0 + i] = o[i]
  <2>1. 0 + i = i /\ i \in 1 .. Len(out) + Len(xs)
    BY <1>1, <1>2
  <2>2. CASE i <= Len(out)
    <3>1. i \in 1 .. Len(out)
      BY <1>2, <2>1, <2>2
    <3> QED
      BY Zenon, <1>1, <2>1, <2>2, <3>1 DEF LiesAt
  <2>3. CASE ~(i <= Len(out))
    <3>1. i - Len(out) \in 1 .. Len(xs) /\ Len(out) + (i - Len(out)) = i
      BY <1>2, <2>1, <2>3
    <3>2. d[Len(out) + (i - Len(out))] = xs[i - Len(out)]
      BY Zenon, <3>1
    <3>3. d[i] = xs[i - Len(out)]
      BY Zenon, <3>1, <3>2
    <3> QED
      BY Zenon, <1>1, <2>1, <2>3, <3>3
  <2> QED
    BY Zenon, <2>2, <2>3
<1>4. 0 + Len(o) <= Len(d)
  BY <1>1, <1>2
<1> QED
  BY Zenon, <1>1, <1>3, <1>4 DEF LiesAt, Octets, o

\* One round of ReadFileStream or ReadFileRecords: the limit, a refusal, an answer.
LEMMA ReadChunkKept ==
  ASSUME FileInv, ReadChunk
  PROVE  FileInv'
<1> DEFINE t == transfer
           c == chunkCount(t.chunk, t.max - Len(t.out))
           a == atomicReadFile(t.op = "readRecords", t.pos, c)
<1>0. /\ IsTransfer(t) /\ t.pos = Len(t.out) /\ t.pos \in Nat /\ t.out \in Octets /\ t.base = None
      /\ t.op \in {"readStream", "readRecords"} /\ t.chunk \in Nat \ {0} /\ t.max \in Nat \ {0}
      /\ Len(t.out) <= t.max /\ t.size \in Nat /\ t.data \in Octets /\ Len(t.out) \in Nat
      /\ file.data \in Octets
      /\ ~since => LiesAt(file.data, 0, t.out, Len(t.out))
  <2>1. t.out \in Octets
    BY Zenon DEF FileInv, FileTypes
  <2>2. Len(t.out) \in Nat
    BY <2>1 DEF Octets
  <2>3. /\ IsTransfer(t) /\ t.pos = Len(t.out) /\ t.base = None /\ t.op \in {"readStream", "readRecords"}
        /\ t.chunk \in Nat /\ t.chunk > 0 /\ t.max \in Nat /\ t.max > 0
        /\ Len(t.out) <= t.max /\ t.size \in Nat /\ t.data \in Octets /\ file.data \in Octets
        /\ ~since => LiesAt(file.data, 0, t.out, Len(t.out))
    BY Zenon DEF FileInv, FileTypes, Reading, ReadChunk
  <2>4. t.chunk \in Nat \ {0} /\ t.max \in Nat \ {0}
    BY <2>3
  <2> QED
    BY Zenon, <2>1, <2>2, <2>3, <2>4
<1>1. UNCHANGED <<file, since>>
  BY Zenon DEF ReadChunk
<1>2. CASE Len(t.out) >= t.max
  <2>1. transfer' = Finish(t, "limit") /\ Len(t.out) = t.max
    BY <1>0, <1>2 DEF ReadChunk
  <2>2. /\ IsTransfer(transfer') /\ transfer'.op = "done" /\ transfer'.result = "limit"
        /\ transfer'.out = t.out /\ transfer'.pos = t.pos /\ transfer'.data = t.data
        /\ transfer'.chunk = t.chunk /\ transfer'.max = t.max
        /\ transfer'.base = t.base /\ transfer'.size = t.size
    BY Zenon, <1>0, <2>1 DEF IsTransfer, Finish
  <2>3. FileTypes'
    BY Zenon, <1>0, <1>1, <2>2 DEF FileInv, FileTypes
  <2>4. Reading' /\ Writing'
    BY Zenon, <2>2 DEF Reading, Writing
  <2>5. Copied'
    <3>1. transfer'.max # 0
      BY <1>0, <2>2
    <3> QED
      BY Zenon, <1>0, <1>1, <2>1, <2>2, <3>1 DEF Copied
  <2> QED
    BY Zenon, <2>3, <2>4, <2>5 DEF FileInv
<1>3. CASE ~(Len(t.out) >= t.max)
  <2>1. c \in Nat \ {0} /\ Len(t.out) + c <= t.max
    BY <1>0, <1>3 DEF chunkCount
  <2>2. transfer' = readStep(t, a)
    BY Zenon, <1>3 DEF ReadChunk
  <2>3. a.ok => a = ReadFile(file, t.pos, c)
    <3>1. CASE file.record # (t.op = "readRecords")
      <4>1. a = [ok |-> FALSE, data |-> <<>>, eof |-> FALSE]
        BY Zenon, <3>1 DEF atomicReadFile
      <4> HIDE DEF a
      <4> QED
        BY Zenon, <4>1
    <3>2. CASE ~(file.record # (t.op = "readRecords"))
      BY Zenon, <3>2 DEF atomicReadFile
    <3> QED
      BY Zenon, <3>1, <3>2
  <2> HIDE DEF a, c
  <2>4. ASSUME a.ok
        PROVE  /\ a.data \in Octets /\ Len(a.data) \in Nat /\ Len(a.data) <= c
               /\ Len(t.out) + Len(a.data) <= Len(file.data)
               /\ \A i \in 1 .. Len(a.data) : file.data[Len(t.out) + i] = a.data[i]
               /\ a.eof \/ a.data = <<>> => Len(t.out) + Len(a.data) = Len(file.data)
    <3>1. IsPiece(file.data, t.pos, c, a)
      BY Zenon, <1>0, <2>1, <2>3, <2>4, ReadFacts
    <3> QED
      BY Zenon, <1>0, <3>1 DEF IsPiece
  <2>5. /\ IsTransfer(transfer') /\ transfer'.data = t.data /\ transfer'.chunk = t.chunk
        /\ transfer'.max = t.max /\ transfer'.base = t.base /\ transfer'.size = t.size
        /\ ~a.ok => /\ transfer'.op = "done" /\ transfer'.result = "error"
                    /\ transfer'.out = t.out /\ transfer'.pos = t.pos
        /\ a.ok => /\ transfer'.out = t.out \o a.data
                   /\ \/ transfer'.op = "done" /\ transfer'.pos = t.pos /\ transfer'.result = "error"
                      \/ /\ transfer'.op = "done" /\ transfer'.pos = t.pos /\ transfer'.result = "ok"
                         /\ a.eof \/ a.data = <<>>
                      \/ transfer'.op = t.op /\ transfer'.pos = t.pos + Len(a.data)
    <3>1. IsReadStep(t, a, transfer')
      BY Zenon, <1>0, <2>2, ReadStepFacts
    <3> QED
      BY Zenon, <3>1 DEF IsReadStep
  <2>6. t.max # 0 /\ t.chunk > 0 /\ t.max > 0
    BY <1>0
  <2>7. CASE ~a.ok
    <3>1. FileTypes'
      BY Zenon, <1>0, <1>1, <2>5, <2>7 DEF FileInv, FileTypes
    <3>2. Reading' /\ Writing' /\ Copied'
      BY Zenon, <1>0, <1>1, <2>5, <2>6, <2>7 DEF Reading, Writing, Copied
    <3> QED
      BY Zenon, <3>1, <3>2 DEF FileInv
  <2>8. CASE a.ok
    <3>1. /\ transfer'.out \in Octets
          /\ Len(transfer'.out) = Len(t.out) + Len(a.data)
          /\ ~since => LiesAt(file.data, 0, transfer'.out, Len(transfer'.out))
      <4>0. t.out \in Seq(Nat) /\ a.data \in Seq(Nat)
        BY Zenon, <1>0, <2>4, <2>8 DEF Octets
      <4>1. t.out \o a.data \in Octets /\ Len(t.out \o a.data) = Len(t.out) + Len(a.data)
        BY Zenon, <4>0, SeqConcat DEF Octets
      <4>2. ~since => LiesAt(file.data, 0, t.out \o a.data, Len(t.out \o a.data))
        BY Zenon, <1>0, <2>4, <2>8, LiesOn
      <4> QED
        BY Zenon, <2>5, <2>8, <4>1, <4>2
    <3>2. transfer'.pos \in Int /\ Len(transfer'.out) <= t.max
      <4>1. /\ t.pos \in Nat /\ Len(t.out) \in Nat /\ c \in Nat /\ t.max \in Nat
            /\ Len(a.data) \in Nat /\ Len(a.data) <= c /\ Len(t.out) + c <= t.max
        BY Zenon, <1>0, <2>1, <2>4, <2>8
      <4>2. transfer'.pos = t.pos \/ transfer'.pos = t.pos + Len(a.data)
        BY Zenon, <2>5, <2>8
      <4>3. Len(transfer'.out) = Len(t.out) + Len(a.data)
        BY Zenon, <3>1
      <4>4. transfer'.pos \in Int
        BY <4>1, <4>2
      <4>5. Len(t.out) + Len(a.data) <= t.max
        <5>1. \A i, j, k, m \in Nat : i <= j /\ k + j <= m => k + i <= m
          OBVIOUS
        <5> QED
          BY Zenon, <4>1, <5>1
      <4> QED
        BY Zenon, <4>3, <4>4, <4>5
    <3>3. FileTypes'
      BY Zenon, <1>0, <1>1, <2>5, <2>8, <3>1, <3>2 DEF FileInv, FileTypes
    <3>4. Reading'
      BY Zenon, <1>0, <1>1, <2>5, <2>6, <2>8, <3>1, <3>2 DEF Reading
    <3>5. Writing'
      BY Zenon, <1>0, <2>5, <2>8 DEF Writing
    <3>6. Copied'
      BY Zenon, <1>0, <1>1, <2>4, <2>5, <2>6, <2>8, <3>1 DEF Copied
    <3> QED
      BY Zenon, <3>3, <3>4, <3>5, <3>6 DEF FileInv
  <2> QED
    BY Zenon, <2>7, <2>8
<1> QED
  BY Zenon, <1>2, <1>3

\* The n elements of out that lie in d from b on are followed in e by the k elements of xs, which
\* are the next ones of out.
Grows(d, e, b, n, k, out, xs) ==
  /\ \A i \in 1 .. n : b + i \in 1 .. Len(d) /\ d[b + i] = out[i]
  /\ \A i \in 1 .. Len(d) : i <= b + n => e[i] = d[i]
  /\ \A i \in 1 .. k : e[(b + n) + i] = xs[i] /\ xs[i] = out[n + i]
  /\ (b + n) + k <= Len(e)

\* What was written so far, and one more chunk behind it.
LEMMA LiesMore ==
  ASSUME NEW d \in Octets, NEW e \in Octets, NEW b \in Nat, NEW n \in Nat, NEW k \in Nat,
         NEW out, NEW xs, Grows(d, e, b, n, k, out, xs)
  PROVE  LiesAt(e, b, out, n + k)
<1>0. /\ \A i \in 1 .. n : b + i \in 1 .. Len(d) /\ d[b + i] = out[i]
      /\ \A i \in 1 .. Len(d) : i <= b + n => e[i] = d[i]
      /\ \A i \in 1 .. k : e[(b + n) + i] = xs[i] /\ xs[i] = out[n + i]
      /\ (b + n) + k <= Len(e)
  BY Zenon DEF Grows
<1>1. ASSUME NEW i \in 1 .. n + k PROVE e[b + i] = out[i]
  <2>1. CASE i <= n
    <3>1. i \in 1 .. n /\ b + i <= b + n
      BY <2>1
    <3> QED
      BY Zenon, <1>0, <3>1
  <2>2. CASE ~(i <= n)
    <3>1. i - n \in 1 .. k /\ (b + n) + (i - n) = b + i /\ n + (i - n) = i
      BY <2>2
    <3>2. e[(b + n) + (i - n)] = xs[i - n] /\ xs[i - n] = out[n + (i - n)]
      BY Zenon, <1>0, <3>1
    <3> QED
      BY Zenon, <3>1, <3>2
  <2> QED
    BY Zenon, <2>1, <2>2
<1>2. b + (n + k) <= Len(e)
  BY <1>0 DEF Octets
<1> QED
  BY Zenon, <1>1, <1>2 DEF LiesAt

\* AtomicWriteFile on either access method; a stream write that names its place goes there.
LEMMA AtomicWriteFacts ==
  ASSUME FileTypes, NEW record, NEW start \in Int, NEW xs \in Octets
  PROVE  /\ IsWritten(file.data, xs, atomicWriteFile(record, start, xs))
         /\ record = FALSE /\ atomicWriteFile(record, start, xs).ok /\ start >= 0 =>
              atomicWriteFile(record, start, xs).at = start
<1>0. PICK w : w = atomicWriteFile(record, start, xs)
  BY Zenon
<1> SUFFICES /\ IsWritten(file.data, xs, w)
             /\ record = FALSE /\ w.ok /\ start >= 0 => w.at = start
  BY Zenon, <1>0
<1>1. file.data \in Octets /\ Len(file.data) <= MaxSize
  BY Zenon DEF FileTypes
<1>2. CASE file.record # record
  <2>1. w = [ok |-> FALSE, at |-> 0, data |-> file.data]
    BY Zenon, <1>0, <1>2 DEF atomicWriteFile
  <2>2. w.data = file.data /\ ~w.ok
    BY <2>1
  <2> QED
    BY Zenon, <1>1, <2>2 DEF IsWritten
<1>3. CASE file.record = record
  <2>1. \/ w = WriteStream(file, start, xs)
        \/ w = WriteRecords(file, start, xs) /\ record
    BY Zenon, <1>0, <1>3 DEF atomicWriteFile
  <2> QED
    BY Zenon, <1>1, <2>1, WriteFacts
<1> QED
  BY Zenon, <1>2, <1>3

\* A refused write leaves the file as it was.
LEMMA RefusedKeepsData ==
  ASSUME NEW record, NEW start, NEW xs, ~atomicWriteFile(record, start, xs).ok
  PROVE  atomicWriteFile(record, start, xs).data = file.data
<1>1. PICK w : w = atomicWriteFile(record, start, xs)
  BY Zenon
<1>2. \/ w = [ok |-> FALSE, at |-> 0, data |-> file.data]
      \/ \E p, o : w = [ok |-> TRUE, at |-> p, data |-> o]
  BY Zenon, <1>1 DEF atomicWriteFile, WriteStream, WriteRecords
<1>3. ~w.ok
  BY Zenon, <1>1
<1>4. w.data = file.data
  BY <1>2, <1>3
<1> QED
  BY Zenon, <1>1, <1>4

\* The chunk that is sent, and what is left of the payload after it.
LEMMA ChunkFacts ==
  ASSUME NEW s \in Octets, NEW k \in 0 .. Len(s)
  PROVE  /\ SubSeq(s, 1, k) \in Octets /\ Len(SubSeq(s, 1, k)) = k
         /\ \A i \in 1 .. k : SubSeq(s, 1, k)[i] = s[i]
         /\ SubSeq(s, k + 1, Len(s)) \in Octets /\ Len(SubSeq(s, k + 1, Len(s))) = Len(s) - k
         /\ \A i \in 1 .. Len(s) - k : SubSeq(s, k + 1, Len(s))[i] = s[k + i]
<1>1. Len(s) \in Nat
  BY DEF Octets
<1>2. 0 + 1 = 1 /\ k - 0 = k /\ 0 \in Nat /\ k \in Nat /\ k \in 0 .. Len(s)
      /\ Len(s) \in k .. Len(s) /\ \A i \in 1 .. k : 0 + i = i
  BY <1>1
<1>3. /\ SubSeq(s, 0 + 1, k) \in Octets /\ Len(SubSeq(s, 0 + 1, k)) = k - 0
      /\ \A i \in 1 .. k - 0 : SubSeq(s, 0 + 1, k)[i] = s[0 + i]
  BY Zenon, <1>2, Piece
<1>4. /\ SubSeq(s, k + 1, Len(s)) \in Octets /\ Len(SubSeq(s, k + 1, Len(s))) = Len(s) - k
      /\ \A i \in 1 .. Len(s) - k : SubSeq(s, k + 1, Len(s))[i] = s[k + i]
  BY Zenon, <1>2, Piece
<1> QED
  BY Zenon, <1>2, <1>3, <1>4

\* One round of WriteFileStream: the payload is used up, the chunk is refused, or it is written
\* behind the ones before it, wherever the first one went.
LEMMA WriteChunkKept ==
  ASSUME FileInv, WriteChunk
  PROVE  FileInv'
<1> DEFINE t == transfer
           k == IF t.chunk < Len(t.data) THEN t.chunk ELSE Len(t.data)
           xs == SubSeq(t.data, 1, k)
           a == atomicWriteFile(FALSE, t.pos, xs)
<1>0. /\ IsTransfer(t) /\ t.op = "writeStream" /\ t.pos \in Int /\ t.data \in Octets
      /\ t.out \in Octets /\ t.chunk \in Nat /\ t.size \in Nat /\ t.max = 0
      /\ t.size + Len(t.data) = Len(t.out)
      /\ \A i \in 1 .. Len(t.data) : t.data[i] = t.out[t.size + i]
      /\ t.base = None => t.size = 0
      /\ t.base # None => t.pos = t.base + t.size /\ t.base \in Nat
      /\ t.base # None /\ ~since => LiesAt(file.data, t.base, t.out, t.size)
  BY Zenon DEF FileInv, FileTypes, Writing, Copied, WriteChunk
<1>1. Len(t.data) \in Nat /\ Len(t.out) \in Nat /\ IsFile(file) /\ file.data \in Octets
  <2>1. IsFile(file) /\ file.data \in Octets
    BY Zenon DEF FileInv, FileTypes
  <2> QED
    BY <1>0, <2>1 DEF Octets
<1>2. UNCHANGED since
  BY Zenon DEF WriteChunk
<1>3. CASE t.data = <<>>
  <2>1. transfer' = Finish(t, "ok") /\ UNCHANGED file
    BY Zenon, <1>3 DEF WriteChunk
  <2>2. /\ IsTransfer(transfer') /\ transfer'.op = "done" /\ transfer'.result = "ok"
        /\ transfer'.out = t.out /\ transfer'.pos = t.pos /\ transfer'.data = t.data
        /\ transfer'.chunk = t.chunk /\ transfer'.max = t.max
        /\ transfer'.base = t.base /\ transfer'.size = t.size
    BY Zenon, <1>0, <2>1 DEF IsTransfer, Finish
  <2>3. t.size = Len(t.out) /\ t.size <= Len(t.out) /\ 0 \in Nat /\ ~(0 > 0)
    BY <1>0, <1>1, <1>3
  <2>4. FileTypes'
    BY Zenon, <1>0, <2>1, <2>2, <2>3 DEF FileInv, FileTypes
  <2>5. Reading' /\ Writing'
    BY Zenon, <2>2 DEF Reading, Writing
  <2>6. Copied'
    BY Zenon, <1>0, <1>2, <2>1, <2>2, <2>3 DEF Copied
  <2> QED
    BY Zenon, <2>4, <2>5, <2>6 DEF FileInv
<1>4. CASE t.data # <<>>
  <2>1. file' = [file EXCEPT !.data = a.data] /\ transfer' = writeStep(t, xs, a)
    BY Zenon, <1>4 DEF WriteChunk
  <2>2. k \in 0 .. Len(t.data) /\ k \in Nat
    BY <1>0, <1>1
  <2> HIDE DEF k
  <2>3. /\ xs \in Octets /\ Len(xs) = k /\ \A i \in 1 .. k : xs[i] = t.data[i]
        /\ SubSeq(t.data, k + 1, Len(t.data)) \in Octets
        /\ Len(SubSeq(t.data, k + 1, Len(t.data))) = Len(t.data) - k
        /\ \A i \in 1 .. Len(t.data) - k : SubSeq(t.data, k + 1, Len(t.data))[i] = t.data[k + i]
    BY Zenon, <1>0, <2>2, ChunkFacts
  <2> HIDE DEF xs
  <2>4. /\ IsWritten(file.data, xs, a)
        /\ a.ok /\ t.pos >= 0 => a.at = t.pos
    BY Zenon, <1>0, <2>3, AtomicWriteFacts DEF FileInv
  <2> HIDE DEF a
  <2>5. IsWriteStep(t, xs, a, transfer')
    BY Zenon, <1>0, <2>1, WriteStepFacts
  <2>6. IsFile(file') /\ file'.data = a.data /\ file'.data \in Octets /\ Len(file'.data) <= MaxSize
    BY Zenon, <1>1, <2>1, <2>4 DEF IsFile, IsWritten
  <2>7. CASE ~a.ok
    <3>1. /\ IsTransfer(transfer') /\ transfer'.out = t.out /\ transfer'.chunk = t.chunk
          /\ transfer'.max = t.max /\ transfer'.op = "done" /\ transfer'.result = "error"
          /\ transfer'.pos = t.pos /\ transfer'.data = t.data
          /\ transfer'.base = t.base /\ transfer'.size = t.size
      BY Zenon, <2>5, <2>7 DEF IsWriteStep
    <3>2. file'.data = file.data
      BY Zenon, <2>6, <2>7, RefusedKeepsData DEF a
    <3>3. t.size <= Len(t.out) /\ 0 \in Nat /\ ~(0 > 0)
      BY <1>0, <1>1
    <3>4. FileTypes'
      BY Zenon, <1>0, <2>6, <3>1, <3>3 DEF FileInv, FileTypes
    <3>5. Reading' /\ Writing' /\ Copied'
      BY Zenon, <1>0, <1>2, <3>1, <3>2, <3>3 DEF Reading, Writing, Copied
    <3> QED
      BY Zenon, <3>4, <3>5 DEF FileInv
  <2>8. CASE a.ok
    <3>1. /\ IsTransfer(transfer') /\ transfer'.out = t.out /\ transfer'.chunk = t.chunk
          /\ transfer'.max = t.max
          /\ transfer'.data = SubSeq(t.data, k + 1, Len(t.data))
          /\ transfer'.size = t.size + k
          /\ t.base = None => transfer'.base = a.at
          /\ t.base # None => transfer'.base = t.base
          /\ \/ transfer'.op = "done" /\ transfer'.pos = t.pos /\ transfer'.result = "error"
             \/ transfer'.op = t.op /\ transfer'.pos = (IF t.pos < 0 THEN a.at ELSE t.pos) + k
      BY Zenon, <2>3, <2>5, <2>8 DEF IsWriteStep
    <3>2. /\ a.at \in Nat /\ LiesAt(a.data, a.at, xs, k) /\ Len(file.data) <= Len(a.data)
          /\ \A i \in 1 .. Len(file.data) : i <= a.at => a.data[i] = file.data[i]
          /\ a.data \in Octets
      BY Zenon, <2>3, <2>4, <2>8 DEF IsWritten
    <3>3. PICK b : b = transfer'.base
      BY Zenon
    <3>4. b \in Nat /\ a.at = b + t.size /\ (IF t.pos < 0 THEN a.at ELSE t.pos) = b + t.size
      <4>1. CASE t.base = None
        <5>1. b = a.at /\ t.size = 0
          BY Zenon, <1>0, <3>1, <3>3, <4>1
        <5>2. t.pos < 0 \/ t.pos >= 0
          BY <1>0
        <5>3. (IF t.pos < 0 THEN a.at ELSE t.pos) = a.at
          BY Zenon, <2>4, <2>8, <5>2
        <5>4. b = b + 0
          BY <3>2, <5>1
        <5> QED
          BY Zenon, <3>2, <5>1, <5>3, <5>4
      <4>2. CASE t.base # None
        <5>1. b = t.base /\ b \in Nat /\ t.pos = b + t.size
          BY Zenon, <1>0, <3>1, <3>3, <4>2
        <5>2. t.pos >= 0 /\ ~(t.pos < 0)
          BY <1>0, <5>1
        <5> QED
          BY Zenon, <2>4, <2>8, <5>1, <5>2
      <4> QED
        BY Zenon, <4>1, <4>2
    <3>5. transfer'.size \in Nat /\ transfer'.size <= Len(t.out) /\ b # None
          /\ transfer'.size + Len(transfer'.data) = Len(t.out)
      <4>1. b # None
        BY <3>4, FileAssumption
      <4>2. t.size + k \in Nat /\ t.size + k <= Len(t.out) /\ (t.size + k) + (Len(t.data) - k) = Len(t.out)
        BY <1>0, <1>1, <2>2
      <4> QED
        BY Zenon, <2>3, <3>1, <4>1, <4>2
    <3>6. \A i \in 1 .. Len(transfer'.data) : transfer'.data[i] = t.out[transfer'.size + i]
      <4> SUFFICES ASSUME NEW i \in 1 .. Len(t.data) - k
                   PROVE  SubSeq(t.data, k + 1, Len(t.data))[i] = t.out[(t.size + k) + i]
        BY Zenon, <2>3, <3>1
      <4>1. k + i \in 1 .. Len(t.data) /\ t.size + (k + i) = (t.size + k) + i
        BY <1>0, <1>1, <2>2
      <4>2. t.data[k + i] = t.out[t.size + (k + i)]
        BY Zenon, <1>0, <4>1
      <4> QED
        BY Zenon, <2>3, <4>1, <4>2
    <3>7. ~since => LiesAt(a.data, b, t.out, t.size + k)
      <4> SUFFICES ASSUME ~since PROVE LiesAt(a.data, b, t.out, t.size + k)
        BY Zenon
      <4>1. \A i \in 1 .. t.size : b + i \in 1 .. Len(file.data) /\ file.data[b + i] = t.out[i]
        <5>1. CASE t.base = None
          BY <1>0, <5>1
        <5>2. CASE t.base # None
          <6>1. LiesAt(file.data, b, t.out, t.size)
            BY Zenon, <1>0, <3>1, <3>3, <5>2
          <6>2. \A i \in 1 .. t.size : b + i \in 1 .. Len(file.data)
            <7>1. b + t.size <= Len(file.data) /\ Len(file.data) \in Nat
              BY <1>1, <6>1 DEF LiesAt, Octets
            <7> QED
              BY <1>0, <3>4, <7>1
          <6> QED
            BY Zenon, <6>1, <6>2 DEF LiesAt
        <5> QED
          BY Zenon, <5>1, <5>2
      <4>2. \A i \in 1 .. Len(file.data) : i <= b + t.size => a.data[i] = file.data[i]
        BY Zenon, <3>2, <3>4
      <4>3. ASSUME NEW i \in 1 .. k PROVE a.data[(b + t.size) + i] = xs[i] /\ xs[i] = t.out[t.size + i]
        <5>1. i \in 1 .. Len(t.data)
          BY <1>1, <2>2
        <5> QED
          BY Zenon, <1>0, <2>3, <3>2, <3>4, <5>1 DEF LiesAt
      <4>4. (b + t.size) + k <= Len(a.data)
        BY Zenon, <3>2, <3>4 DEF LiesAt
      <4>5. /\ file.data \in Octets /\ a.data \in Octets /\ b \in Nat /\ t.size \in Nat
            /\ k \in Nat
        BY Zenon, <1>0, <1>1, <2>2, <3>2, <3>4
      <4>6. Grows(file.data, a.data, b, t.size, k, t.out, xs)
        BY Zenon, <4>1, <4>2, <4>3, <4>4 DEF Grows
      <4> QED
        BY Zenon, <4>5, <4>6, LiesMore
    <3>8. transfer'.pos \in Int /\ (transfer'.op = t.op => transfer'.pos = b + (t.size + k))
      <4>1. (b + t.size) + k = b + (t.size + k) /\ b + (t.size + k) \in Int
        BY <1>0, <2>2, <3>4
      <4> QED
        BY Zenon, <1>0, <3>1, <3>4, <4>1
    <3>9. FileTypes'
      BY Zenon, <1>0, <2>3, <2>6, <3>1, <3>3, <3>4, <3>5, <3>8 DEF FileInv, FileTypes
    <3>10. Reading' /\ Writing'
      BY Zenon, <1>0, <3>1, <3>3, <3>5, <3>6, <3>8 DEF Reading, Writing
    <3>11. Copied'
      <4>1. ~(transfer'.max > 0)
        BY <1>0, <3>1
      <4> QED
        BY Zenon, <1>0, <1>2, <2>6, <3>1, <3>3, <3>5, <3>7, <4>1 DEF Copied
    <3> QED
      BY Zenon, <3>9, <3>10, <3>11 DEF FileInv
  <2> QED
    BY Zenon, <2>7, <2>8
<1> QED
  BY Zenon, <1>3, <1>4

\* A read begins with nothing read.
LEMMA BeginReadKept ==
  ASSUME FileInv, BeginRead
  PROVE  FileInv'
<1>1. PICK record \in BOOLEAN, chunk \in Chunks, max \in MaxTotals :
        /\ transfer' = [NoTransfer EXCEPT !.op = IF record THEN "readRecords" ELSE "readStream",
                                         !.chunk = chunk, !.max = max]
        /\ since' = FALSE /\ UNCHANGED file
  BY Zenon DEF BeginRead
<1>2. /\ IsTransfer(transfer') /\ transfer'.op \in {"readStream", "readRecords"}
      /\ transfer'.pos = 0 /\ transfer'.data = <<>> /\ transfer'.out = <<>>
      /\ transfer'.chunk = chunk /\ transfer'.max = max /\ transfer'.base = None
      /\ transfer'.size = 0
  BY Zenon, <1>1 DEF IsTransfer, NoTransfer
<1>3. /\ chunk \in Nat /\ chunk > 0 /\ max \in Nat /\ max > 0 /\ 0 \in Int /\ 0 \in Nat
      /\ <<>> \in Octets /\ Len(<<>>) = 0 /\ 0 <= max
  BY FileAssumption DEF Octets
<1>4. LiesAt(file.data, 0, <<>>, 0)
  <2>1. Len(file.data) \in Nat
    BY DEF FileInv, FileTypes, Octets
  <2> QED
    BY <2>1 DEF LiesAt
<1>5. FileTypes'
  BY Zenon, <1>1, <1>2, <1>3 DEF FileInv, FileTypes
<1>6. Reading' /\ Writing' /\ Copied'
  BY Zenon, <1>1, <1>2, <1>3, <1>4 DEF Reading, Writing, Copied
<1> QED
  BY Zenon, <1>5, <1>6 DEF FileInv

\* A write begins with the whole payload left, or is refused for its size.
LEMMA BeginWriteKept ==
  ASSUME FileInv, BeginWrite
  PROVE  FileInv'
<1>1. PICK start \in Starts, chunk \in Chunks, xs \in Payloads :
        /\ transfer' = IF start >= 0 /\ start + Len(xs) > MaxPosition
                       THEN Finish(NoTransfer, "error")
                       ELSE [NoTransfer EXCEPT !.op = "writeStream", !.pos = start, !.data = xs,
                                               !.out = xs, !.chunk = chunk]
        /\ since' = FALSE /\ UNCHANGED file
  BY Zenon DEF BeginWrite
<1>2. /\ chunk \in Nat /\ start \in Int /\ xs \in Octets /\ Len(xs) \in Nat
      /\ 0 \in Int /\ 0 \in Nat /\ ~(0 > 0) /\ <<>> \in Octets
      /\ 0 + Len(xs) = Len(xs) /\ \A i \in 1 .. Len(xs) : 0 + i = i
  BY FileAssumption DEF Octets
<1>3. CASE transfer' = Finish(NoTransfer, "error")
  <2>1. /\ IsTransfer(transfer') /\ transfer'.op = "done" /\ transfer'.result = "error"
        /\ transfer'.pos = 0 /\ transfer'.data = <<>> /\ transfer'.out = <<>>
        /\ transfer'.chunk = 0 /\ transfer'.max = 0 /\ transfer'.base = None
        /\ transfer'.size = 0
    BY Zenon, <1>3 DEF IsTransfer, NoTransfer, Finish
  <2>2. FileTypes'
    BY Zenon, <1>1, <1>2, <2>1 DEF FileInv, FileTypes
  <2>3. Reading' /\ Writing' /\ Copied'
    BY Zenon, <1>1, <1>2, <2>1 DEF Reading, Writing, Copied
  <2> QED
    BY Zenon, <2>2, <2>3 DEF FileInv
<1>4. CASE transfer' = [NoTransfer EXCEPT !.op = "writeStream", !.pos = start, !.data = xs,
                                          !.out = xs, !.chunk = chunk]
  <2>1. /\ IsTransfer(transfer') /\ transfer'.op = "writeStream"
        /\ transfer'.pos = start /\ transfer'.data = xs /\ transfer'.out = xs
        /\ transfer'.chunk = chunk /\ transfer'.max = 0 /\ transfer'.base = None
        /\ transfer'.size = 0
    BY Zenon, <1>4 DEF IsTransfer, NoTransfer
  <2>2. FileTypes'
    BY Zenon, <1>1, <1>2, <2>1 DEF FileInv, FileTypes
  <2>3. Reading' /\ Writing' /\ Copied'
    BY Zenon, <1>1, <1>2, <2>1 DEF Reading, Writing, Copied
  <2> QED
    BY Zenon, <2>2, <2>3 DEF FileInv
<1> QED
  BY Zenon, <1>1, <1>3, <1>4

\* Another client's write: nothing is said of the contents from then on, but the file stays in its
\* bound.
LEMMA OtherWriteKept ==
  ASSUME FileInv, OtherWrite
  PROVE  FileInv'
<1>1. PICK start \in Starts, xs \in Payloads :
        /\ file' = [file EXCEPT !.data = atomicWriteFile(file.record, start, xs).data]
        /\ since' = TRUE /\ UNCHANGED transfer
  BY Zenon DEF OtherWrite
<1>2. start \in Int /\ xs \in Octets
  BY Zenon, FileAssumption DEF Octets
<1>3. IsWritten(file.data, xs, atomicWriteFile(file.record, start, xs))
  BY Zenon, <1>2, AtomicWriteFacts DEF FileInv
<1>4. IsFile(file') /\ file'.data \in Octets /\ Len(file'.data) <= MaxSize
  BY Zenon, <1>1, <1>3 DEF IsWritten, IsFile, FileInv, FileTypes
<1>5. FileTypes'
  BY Zenon, <1>1, <1>4 DEF FileInv, FileTypes
<1>6. Reading' /\ Writing' /\ Copied'
  BY Zenon, <1>1 DEF FileInv, Reading, Writing, Copied
<1> QED
  BY Zenon, <1>5, <1>6 DEF FileInv

\* What lies in the file is what the pieces of it show.
LEMMA LiesIsPiece ==
  ASSUME NEW d \in Octets, NEW out \in Octets, NEW b \in Nat, NEW n \in Nat, n <= Len(out),
         LiesAt(d, b, out, n)
  PROVE  SubSeq(d, b + 1, b + n) = SubSeq(out, 1, n)
<1> DEFINE x == SubSeq(d, b + 1, b + n)
           y == SubSeq(out, 1, n)
<1>1. /\ Len(d) \in Nat /\ Len(out) \in Nat /\ b + n \in b .. Len(d) /\ n \in 0 .. Len(out)
      /\ (b + n) - b = n
  BY DEF Octets, LiesAt
<1>2. x \in Octets /\ Len(x) = n /\ \A i \in 1 .. n : x[i] = d[b + i]
  BY Zenon, <1>1, Piece
<1>3. y \in Octets /\ Len(y) = n /\ \A i \in 1 .. n : y[i] = out[i]
  BY Zenon, <1>1, ChunkFacts
<1> HIDE DEF x, y
<1>4. \A i \in 1 .. Len(x) : x[i] = y[i]
  BY Zenon, <1>2, <1>3 DEF LiesAt
<1>5. x = y
  BY Zenon, <1>2, <1>3, <1>4, SeqSame DEF Octets
<1> QED
  BY Zenon, <1>5 DEF x, y

\* The invariant implies the property the run checks.
LEMMA FileParts == FileInv => FileIsCopied
<1> SUFFICES ASSUME FileInv PROVE FileIsCopied
  OBVIOUS
<1> DEFINE t == transfer
           d == file.data
<1>0. /\ d \in Octets /\ t.out \in Octets /\ Len(t.out) \in Nat /\ Len(d) \in Nat
      /\ t.max \in Nat /\ t.size \in Nat /\ 0 \in Nat /\ Len(d) <= MaxSize
      /\ Len(t.out) <= Len(t.out)
  <2>1. d \in Octets /\ t.out \in Octets
    BY Zenon DEF FileInv, FileTypes
  <2>2. Len(d) \in Nat /\ Len(t.out) \in Nat /\ 0 \in Nat
    BY <2>1 DEF Octets
  <2>3. Len(t.out) <= Len(t.out)
    BY <2>2
  <2> QED
    BY Zenon, <2>1, <2>2, <2>3 DEF FileInv, FileTypes
<1>1. ASSUME ~since, t.op = "done", t.max > 0
      PROVE  /\ t.result = "ok" => t.out = d
             /\ t.result = "limit" => t.out = SubSeq(d, 1, t.max)
  <2>1. /\ LiesAt(d, 0, t.out, Len(t.out))
        /\ t.result = "ok" => Len(t.out) = Len(d)
        /\ t.result = "limit" => Len(t.out) = t.max
    BY Zenon, <1>1 DEF FileInv, Copied
  <2>2. 0 + 1 = 1 /\ 0 + Len(t.out) = Len(t.out)
    BY <1>0
  <2>3. SubSeq(d, 0 + 1, 0 + Len(t.out)) = SubSeq(t.out, 1, Len(t.out))
    BY Zenon, <1>0, <2>1, LiesIsPiece
  <2>4. SubSeq(t.out, 1, Len(t.out)) = t.out /\ SubSeq(d, 1, Len(d)) = d
    BY Zenon, <1>0, SeqWhole DEF Octets
  <2> QED
    BY Zenon, <2>1, <2>2, <2>3, <2>4
<1>2. ASSUME ~since, t.base # None
      PROVE  SubSeq(d, t.base + 1, t.base + t.size) = SubSeq(t.out, 1, t.size)
  <2>1. t.base \in Nat /\ t.size <= Len(t.out) /\ LiesAt(d, t.base, t.out, t.size)
    BY Zenon, <1>2 DEF FileInv, FileTypes, Copied
  <2> QED
    BY Zenon, <1>0, <2>1, LiesIsPiece
<1>3. t.op = "done" /\ t.result = "ok" /\ t.max = 0 => t.size = Len(t.out)
  BY Zenon DEF FileInv, Copied
<1> QED
  BY Zenon, <1>0, <1>1, <1>2, <1>3 DEF FileIsCopied

\* ReadFileStream, ReadFileRecords and WriteFileStream against the file object, when nobody else
\* writes meanwhile: a read that ends without an error returned the whole file, a limited one a
\* prefix as long as the limit; the acknowledged chunks of a write lie one after the other in the
\* file; and the file never outgrows its size, whoever writes.
THEOREM FilesAreCopied == Spec => []FileIsCopied
<1>1. Init => FileInv
  <2> SUFFICES ASSUME Init PROVE FileInv
    OBVIOUS
  <2>1. PICK r \in AnyOf("file", BOOLEAN), o \in AnyOf("file", BOOLEAN), c \in AnyOf("file", Contents) :
          file = [record |-> r, readOnly |-> o, data |-> c]
    BY Zenon DEF Init, FileInit
  <2>2. transfer = NoTransfer
    BY Zenon DEF Init, FileInit
  <2>3. c \in Contents
    BY Zenon, FileAssumption DEF AnyOf
  <2>4. c \in Octets /\ Len(c) <= MaxSize /\ 0 \in Nat /\ 0 \in Int /\ <<>> \in Octets /\ ~(0 > 0)
    BY <2>3, FileAssumption DEF Octets
  <2>5. IsFile(file) /\ file.data = c
    BY Zenon, <2>1 DEF IsFile
  <2>6. /\ IsTransfer(transfer) /\ transfer.op = "none" /\ transfer.pos = 0
        /\ transfer.data = <<>> /\ transfer.out = <<>> /\ transfer.chunk = 0
        /\ transfer.max = 0 /\ transfer.base = None /\ transfer.size = 0
    BY Zenon, <2>2 DEF NoTransfer, IsTransfer
  <2>7. FileTypes
    BY Zenon, <2>4, <2>5, <2>6 DEF FileTypes
  <2> QED
    BY Zenon, <2>6, <2>7 DEF FileInv, Reading, Writing, Copied
<1>2. FileInv /\ [Next]_vars => FileInv'
  <2> SUFFICES ASSUME FileInv, [Next]_vars PROVE FileInv'
    OBVIOUS
  <2>1. CASE FileNext
    BY Zenon, <2>1, BeginReadKept, ReadChunkKept, BeginWriteKept, WriteChunkKept, OtherWriteKept
       DEF FileNext
  <2>2. CASE UNCHANGED fileVars
    <3>1. UNCHANGED <<file, transfer, since>>
      BY Zenon, <2>2 DEF fileVars
    <3> QED
      BY Zenon, <3>1 DEF FileInv, FileTypes, Reading, Writing, Copied
  <2> QED
    BY Zenon, <2>1, <2>2 DEF Next, TableStep, PointStep, ScheduleStep, LogStep, FileStep,
         BatchStep, vars
<1> QED
  BY <1>1, <1>2, FileParts, PTL DEF Spec
==============================================================================
