---------------------------- MODULE MCObjectModel ----------------------------
(***************************************************************************)
(* ObjectModel on small instances.  The requests on the object table are   *)
(* those that can meet: automatic and named instances of one type, an      *)
(* Object_Name that is also the automatic name of instance 0.  The dates   *)
(* are the end of a leap February, the end and the start of a year.        *)
(***************************************************************************)
EXTENDS ObjectModel

CONSTANTS r1, r2, r3, w1, w2, t1, t2, a, b, wrong, range, fault

mcRequests == {r1, r2, r3}
mcNames == {<<-2, 0>>, <<0, 0>>}
Create0(instance, name, initial) ==
    [op |-> "create", type |-> "av", instance |-> instance, name |-> name, initial |-> initial]
DeleteOf(type) == [op |-> "delete", id |-> <<type, 0>>]
RenameOf(type, name) == [op |-> "rename", id |-> <<type, 0>>, name |-> name]
asks ==
    <<Create0(0, None, "good"), Create0(0, None, "bad"), Create0(0, <<0, 0>>, "good"), Create0(0, <<0, 0>>, "bad"),
      Create0(None, None, "good"), Create0(None, None, "bad"), Create0(None, <<0, 0>>, "good"),
      Create0(None, <<0, 0>>, "bad"),
      [op |-> "create", type |-> "ai", instance |-> None, name |-> None, initial |-> "none"],
      DeleteOf("av"), DeleteOf("ai"), RenameOf("av", <<0, 0>>), RenameOf("av", <<-2, 0>>),
      RenameOf("ai", <<0, 0>>), RenameOf("ai", <<-2, 0>>)>>
\* One of every six ways to give three asks to three requests: which of them
\* has which makes no difference.
mcAsked ==
    LET n == Len(asks)
    IN {[w \in mcRequests |-> IF w = r1 THEN asks[i[1]] ELSE IF w = r2 THEN asks[i[2]] ELSE asks[i[3]]] :
          i \in {k \in (1 .. n) \X (1 .. n) \X (1 .. n) : k[1] <= k[2] /\ k[2] <= k[3]}}

mcWriters == {w1, w2}
mcValues == {a, fault}
mcFaults == {fault}

Date(y, m, d, w) == [year |-> y, month |-> m, day |-> d, weekday |-> w]
At(d, h) == [date |-> d, time |-> <<h, 0, 0, 0>>]
Feb29 == Date(124, 2, 29, 4)
Dec31 == Date(124, 12, 31, 2)
Jan1 == Date(125, 1, 1, 3)
mcClock == <<At(Feb29, 8), At(Feb29, 18), At(Dec31, 8), At(Jan1, 8)>>

Timed(h, v) == [time |-> <<h, 0, Any, Any>>, value |-> v]
EveryDay(tvs) == [d \in 1 .. 7 |-> tvs]
mcWeeklies == {EveryDay(<<>>), EveryDay(<<Timed(17, b), Timed(6, a)>>)}

LastDay == [choice |-> "date", date |-> [unspecifiedDate EXCEPT !.day = dayLast]]
LastWeek == [choice |-> "weekNDay", weekNDay |-> [month |-> monthEven, week |-> 6, weekday |-> Any]]
YearEnd == [choice |-> "range", range |-> [start |-> Dec31, end |-> Jan1]]
Event(e, p, tvs) == [calendar |-> FALSE, entry |-> e, priority |-> p, values |-> tvs]
ByCalendar(p, tvs) == [calendar |-> TRUE, entry |-> LastDay, priority |-> p, values |-> tvs]
mcExceptions ==
    {<<>>,
     <<Event(LastWeek, 5, <<Timed(0, a)>>), Event(LastDay, 5, <<Timed(7, b)>>)>>,
     <<ByCalendar(9, <<Timed(0, b)>>), Event(YearEnd, 3, <<Timed(0, None), Timed(12, a)>>)>>}
mcShortLists == {x \in mcExceptions : Len(x) = 0 \/ x[1].calendar}
mcDateLists == {<<>>, <<YearEnd>>}
mcEffectives == {[start |-> Dec31, end |-> unspecifiedDate]}
mcTargets == {t1, t2}
mcAccepts == {t1}
mcScheduled == {a, b}

mcContents == {<<>>, <<1, 2, 3>>}
mcPayloads == {<<7>>, <<7, 8, 9>>}
mcSpecs == {<<1>>, <<2, 3>>, <<1, 1, 4>>}
mcMinusOne == {-1, 0, 2, 5}
=============================================================================
