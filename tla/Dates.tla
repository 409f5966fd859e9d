-------------------------------- MODULE Dates --------------------------------
(***************************************************************************)
(* Dates, date patterns and daily time values as server/object matches     *)
(* them (calendar_entry.go, and valueAt of schedule.go).  A date is a      *)
(* record of year (since 1900), month, day and weekday (Monday = 1); Any   *)
(* is the unspecified field X'FF'.                                         *)
(***************************************************************************)
EXTENDS Integers, Sequences, FiniteSets

Any == 255
monthOdd == 13
monthEven == 14
dayLast == 32
dayOdd == 33
dayEven == 34
weekLastSeven == 6

unspecifiedDate == [year |-> Any, month |-> Any, day |-> Any, weekday |-> Any]

\* daysIn, with the leap years of the Gregorian calendar (package time).
leap(y) == (y % 4 = 0 /\ y % 100 # 0) \/ y % 400 = 0
daysIn(y, m) == CASE m = 2 -> IF leap(y) THEN 29 ELSE 28
                  [] m \in {4, 6, 9, 11} -> 30
                  [] OTHER -> 31
fullYear(d) == d.year + 1900

monthMatches(p, d) ==
    CASE p = Any -> TRUE
      [] p = monthOdd -> d.month % 2 = 1
      [] p = monthEven -> d.month % 2 = 0
      [] OTHER -> p = d.month

dayMatches(p, d) ==
    CASE p = Any -> TRUE
      [] p = dayLast -> d.day = daysIn(fullYear(d), d.month)
      [] p = dayOdd -> d.day % 2 = 1
      [] p = dayEven -> d.day % 2 = 0
      [] OTHER -> p = d.day

dateMatches(p, d) ==
    /\ p.year \in {Any, d.year}
    /\ monthMatches(p.month, d)
    /\ dayMatches(p.day, d)
    /\ p.weekday \in {Any, d.weekday}

\* compareDate and compareTime: the first field specified on both sides that
\* differs decides.  The result has the sign of the difference.
compareFields(a, b) ==
    LET differ == {i \in 1 .. Len(a) : a[i] # Any /\ b[i] # Any /\ a[i] # b[i]} IN
    IF differ = {} THEN 0
    ELSE LET i == CHOOSE i \in differ : \A j \in differ : i <= j IN a[i] - b[i]

compareDate(a, b) == compareFields(<<a.year, a.month, a.day>>, <<b.year, b.month, b.day>>)

dateInRange(d, r) == compareDate(r.start, d) <= 0 /\ compareDate(d, r.end) <= 0

weekNDayMatches(w, d) ==
    /\ monthMatches(w.month, d)
    /\ w.weekday \in {Any, d.weekday}
    /\ \/ w.week = Any
       \/ w.week \in 1 .. 5 /\ w.week = (d.day - 1) \div 7 + 1
       \/ /\ w.week \in weekLastSeven .. 9
          /\ w.week - weekLastSeven = (daysIn(fullYear(d), d.month) - d.day) \div 7

entryMatches(e, d) ==
    CASE e.choice = "date" -> dateMatches(e.date, d)
      [] e.choice = "range" -> dateInRange(d, e.range)
      [] e.choice = "weekNDay" -> weekNDayMatches(e.weekNDay, d)
      [] OTHER -> FALSE

\* valueAt: the index of the time value in effect at t, 0 before the first.
\* The scan keeps the last of the entries no other is later than.
valueAt(tvs, t) ==
    LET scan[i \in 0 .. Len(tvs)] ==
          IF i = 0 THEN 0
          ELSE LET best == scan[i - 1] IN
               IF compareFields(t, tvs[i].time) < 0 THEN best
               ELSE IF best = 0 \/ compareFields(tvs[i].time, tvs[best].time) >= 0 THEN i
               ELSE best
    IN scan[Len(tvs)]

=============================================================================
