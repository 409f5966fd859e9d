------------------------------ MODULE Schedules ------------------------------
(***************************************************************************)
(* The Schedule object with the Calendar it refers to                      *)
(* (server/object/schedule.go, calendar.go), polled by the server's        *)
(* housekeeping goroutine (server/server.go poll) while workers write its  *)
(* properties.  Poll takes a snapshot, evaluates it without the lock,      *)
(* stores the result under the lock, takes the pending flag under the lock *)
(* again and then writes the referenced objects one by one.                *)
(*                                                                         *)
(* held, kept and still are history variables: the Present_Value last      *)
(* written (or found) out of service, the references present since         *)
(* Present_Value last changed, and whether anything the evaluation depends *)
(* on has changed since the last Poll began.                               *)
(***************************************************************************)
EXTENDS Dates, Absent

CONSTANTS Clock,         \* a sequence of [date, time], the instants Poll sees
          Targets,       \* objects a reference may name
          Accepts,       \* those of Targets that accept the write
          Weeklies,      \* Weekly_Schedule values that are written
          Exceptions,    \* Exception_Schedule values that are written
          DateLists,     \* Date_List values that are written
          Effectives,    \* Effective_Period values that are written
          Default,       \* Schedule_Default
          Scheduled,     \* values of the schedule's datatype
          MaxWrites     \* property writes in a behaviour

\* checkEvent: an Event_Priority is 1..16.
ASSUME ScheduleAssumption ==
    \A x \in Exceptions : Len(x) \in Nat /\ \A i \in 1 .. Len(x) : x[i].priority \in 1 .. 16

VARIABLES now, sched, dates, target, poll, written, held, kept, still

schedVars == <<now, sched, dates, target, poll, written, held, kept, still>>

Today == Clock[now].date
contains(entries, d) == \E i \in 1 .. Len(entries) : entryMatches(entries[i], d)

\* periodActive: the event's own calendar entry, or the Calendar object.
periodActive(e, d) == IF e.calendar THEN contains(dates.entries, d) ELSE entryMatches(e.entry, d)

timed(tvs, t) == IF valueAt(tvs, t) = 0 THEN None ELSE tvs[valueAt(tvs, t)].value

\* evaluate: the exceptions are scanned in order, and a later one wins only
\* with a numerically lower priority.
scanExceptions(at, s) ==
    LET scan[i \in 0 .. Len(s.exceptions)] ==
          IF i = 0 THEN [value |-> None, priority |-> 17]
          ELSE LET e == s.exceptions[i]
                   v == timed(e.values, at.time)
               IN IF e.priority < scan[i - 1].priority /\ periodActive(e, at.date) /\ v # None
                  THEN [value |-> v, priority |-> e.priority] ELSE scan[i - 1]
    IN scan

evaluate(at, s) ==
    LET special == scanExceptions(at, s)[Len(s.exceptions)].value
        weekday == timed(s.weekly[at.date.weekday], at.time)
        effective == dateInRange(at.date, s.effective)
    IN CASE ~effective -> s.default
         [] effective /\ special # None -> special
         [] effective /\ special = None /\ weekday # None -> weekday
         [] OTHER -> s.default

Resting == [pc |-> "idle", at |-> Clock[1], snapshot |-> None, value |-> None, refs |-> {}]

NewSchedule ==
    [effective |-> [start |-> unspecifiedDate, end |-> unspecifiedDate],
     weekly |-> [d \in 1 .. 7 |-> <<>>], exceptions |-> <<>>, default |-> Default,
     refs |-> {}, oos |-> FALSE, pv |-> Default, pending |-> TRUE]

SchedInit(weeklies, exceptions, references, lists) ==
    /\ now = 1
    /\ \E w \in weeklies, x \in exceptions, refs \in references :
         sched = [NewSchedule EXCEPT !.weekly = w, !.exceptions = x, !.refs = refs]
    /\ \E l \in lists : dates = [entries |-> l, today |-> Today, pv |-> contains(l, Today)]
    /\ target = [t \in Targets |-> None]
    /\ poll = Resting
    /\ written = 0
    /\ held = Default
    /\ kept = sched.refs
    /\ still = FALSE

-----------------------------------------------------------------------------
\* Calendar.Poll, then Schedule.Poll's View: the snapshot it evaluates.
PollBegin ==
    /\ poll.pc = "idle"
    /\ dates' = [dates EXCEPT !.today = Today, !.pv = contains(dates.entries, Today)]
    /\ poll' = [poll EXCEPT !.pc = IF sched.oos THEN "take" ELSE "evaluate",
                            !.at = Clock[now], !.snapshot = sched]
    /\ still' = TRUE
    /\ UNCHANGED <<now, sched, target, written, held, kept>>

Evaluate ==
    /\ poll.pc = "evaluate"
    /\ poll' = [poll EXCEPT !.pc = "update", !.value = evaluate(poll.at, poll.snapshot)]
    /\ UNCHANGED <<now, sched, dates, target, written, held, kept, still>>

setPresent(v) ==
    /\ sched' = [sched EXCEPT !.pv = v, !.pending = TRUE]
    /\ kept' = sched.refs

\* A slip: Out_Of_Service is only looked at in the snapshot.
UpdateUnchecked ==
    /\ poll.pc = "update"
    /\ IF sched.pv = poll.value THEN UNCHANGED <<sched, kept>>
       ELSE setPresent(poll.value)
    /\ poll' = [poll EXCEPT !.pc = "take"]
    /\ UNCHANGED <<now, dates, target, written, held, still>>

\* Update: Out_Of_Service may have been written since the snapshot.
PollUpdate ==
    /\ poll.pc = "update"
    /\ IF sched.oos \/ sched.pv = poll.value THEN UNCHANGED <<sched, kept>>
       ELSE setPresent(poll.value)
    /\ poll' = [poll EXCEPT !.pc = "take"]
    /\ UNCHANGED <<now, dates, target, written, held, still>>

\* The pending flag, Present_Value and the references, in one hold.
TakePending ==
    /\ poll.pc = "take"
    /\ sched' = [sched EXCEPT !.pending = FALSE]
    /\ poll' = IF sched.pending
               THEN [poll EXCEPT !.pc = "write", !.value = sched.pv, !.refs = sched.refs]
               ELSE Resting
    /\ UNCHANGED <<now, dates, target, written, held, kept, still>>

\* One WriteProperty per reference; a refused one leaves the object as it was.
WriteReference ==
    /\ poll.pc = "write"
    /\ IF poll.refs = {} THEN poll' = Resting /\ UNCHANGED target
       ELSE \E t \in poll.refs :
              /\ poll' = [poll EXCEPT !.refs = @ \ {t}]
              /\ target' = IF t \in Accepts THEN [target EXCEPT ![t] = poll.value] ELSE target
    /\ UNCHANGED <<now, sched, dates, written, held, kept, still>>

PollSchedule == PollBegin \/ Evaluate \/ PollUpdate \/ TakePending \/ WriteReference

-----------------------------------------------------------------------------
CountWrite == written < MaxWrites /\ written' = written + 1

\* A step of one worker: the write of one property of the schedule.
scheduleWritePresentValue(v) ==
    /\ CountWrite /\ sched.oos /\ sched.pv # v
    /\ setPresent(v)
    /\ held' = v
    /\ UNCHANGED <<now, dates, target, poll, still>>

scheduleWriteOutOfService(b) ==
    /\ CountWrite /\ sched.oos # b
    /\ sched' = [sched EXCEPT !.oos = b]
    /\ held' = IF b THEN sched.pv ELSE held
    /\ still' = FALSE
    /\ UNCHANGED <<now, dates, target, poll, kept>>

Rewrite(s) ==
    /\ CountWrite
    /\ sched' = s
    /\ still' = FALSE
    /\ kept' = kept \cap s.refs
    /\ UNCHANGED <<now, dates, target, poll, held>>

writeWeekly == \E w \in Weeklies : Rewrite([sched EXCEPT !.weekly = w])
writeExceptions == \E x \in Exceptions : Rewrite([sched EXCEPT !.exceptions = x])
writeEffectivePeriod == \E r \in Effectives : Rewrite([sched EXCEPT !.effective = r])
writeReferences == \E refs \in SUBSET Targets : Rewrite([sched EXCEPT !.refs = refs])

setEntriesLocked(entries) ==
    dates' = [dates EXCEPT !.entries = entries, !.pv = contains(entries, dates.today)]

\* Calendar.writeDateList, SetDateList and the list services.
writeDateList ==
    \E l \in DateLists :
       /\ CountWrite
       /\ setEntriesLocked(l)
       /\ still' = FALSE
       /\ UNCHANGED <<now, sched, target, poll, held, kept>>

Tick ==
    /\ now < Len(Clock)
    /\ now' = now + 1
    /\ still' = FALSE
    /\ UNCHANGED <<sched, dates, target, poll, written, held, kept>>

SchedNext ==
    \/ PollSchedule \/ Tick
    \/ \E v \in Scheduled : scheduleWritePresentValue(v)
    \/ \E b \in BOOLEAN : scheduleWriteOutOfService(b)
    \/ writeWeekly \/ writeExceptions \/ writeEffectivePeriod \/ writeReferences \/ writeDateList

-----------------------------------------------------------------------------
\* The value clause 12.24 asks for, said without a scan: the special event
\* in effect with a value that no other such event precedes.
InEffect(s, at) ==
    {i \in 1 .. Len(s.exceptions) :
       /\ periodActive(s.exceptions[i], at.date)
       /\ timed(s.exceptions[i].values, at.time) # None}
Precedes(x, i, S) ==
    \A j \in S : \/ x[i].priority < x[j].priority
                 \/ x[i].priority = x[j].priority /\ i <= j
First(x, S) == CHOOSE i \in S : Precedes(x, i, S)
Expected(s, at) ==
    IF ~dateInRange(at.date, s.effective) THEN s.default
    ELSE IF InEffect(s, at) # {}
    THEN timed(s.exceptions[First(s.exceptions, InEffect(s, at))].values, at.time)
    ELSE IF timed(s.weekly[at.date.weekday], at.time) # None
    THEN timed(s.weekly[at.date.weekday], at.time)
    ELSE s.default

\* Between polls a schedule in service whose inputs have not changed since
\* the poll began has the value clause 12.24 asks for; a schedule out of
\* service keeps the value it was given there, although a poll that began
\* before may still be evaluating; every reference that was there when
\* Present_Value last changed has received it once nothing is pending; and
\* the Calendar's Present_Value always matches its list and its date
\* (Schedule.Poll, Calendar.setEntriesLocked).
ScheduleFollows ==
    /\ poll.pc = "idle" /\ still /\ ~sched.oos => sched.pv = Expected(sched, Clock[now])
    /\ sched.oos => sched.pv = held
    /\ poll.pc = "idle" /\ ~sched.pending => \A t \in kept \cap Accepts : target[t] = sched.pv
    /\ dates.pv = contains(dates.entries, dates.today)
=============================================================================
