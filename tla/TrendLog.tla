------------------------------ MODULE TrendLog ------------------------------
(***************************************************************************)
(* A Trend Log (server/object/trendlog.go), the ReadRange service on it    *)
(* (server/handlers_range.go) and the client that pages through it         *)
(* (client/read_range_pager.go).  The log goes on recording while the      *)
(* client pages: a full log without Stop_When_Full drops its oldest record *)
(* for each new one, and a write of Record_Count empties it.               *)
(*                                                                         *)
(* dropped and began are history variables: whether a record left the log  *)
(* since the paging began, and the records there were when it began.       *)
(***************************************************************************)
EXTENDS Absent, Integers, Sequences, FiniteSetsExt

CONSTANTS BufferSize,    \* Buffer_Size
          MaxRecords,    \* records made in a behaviour; no sequence wrap
          LogInterval,   \* ticks between polled samples
          MaxTime,
          PageCounts,    \* PageCount values of the client
          Fit,           \* records one reply can carry
          MaxItems, MaxPages

\* A Buffer_Size or PageCount of 0 is replaced by a default (NewTrendLog,
\* ReadRangeAll).
ASSUME LogAssumption ==
    /\ BufferSize \in Nat \ {0} /\ PageCounts \subseteq Nat \ {0}
    /\ Fit \in Nat /\ MaxItems \in Nat /\ MaxPages \in Nat /\ MaxRecords \in Nat

VARIABLES clock, enable, stopWhenFull, records, total, lastPoll, polling,   \* the log
          pager, dropped, began                                    \* the client

logVars == <<clock, enable, stopWhenFull, records, total, lastPoll, polling, pager, dropped, began>>

NoPager == [pc |-> "idle", by |-> None, from |-> 0, ref |-> 0, count |-> 0, page |-> 0, pages |-> 0,
            items |-> <<>>, partial |-> FALSE]

LogInit(stops) ==
    /\ clock = 1 /\ enable = TRUE /\ stopWhenFull \in stops
    /\ records = <<>> /\ total = 0 /\ lastPoll = 0 /\ polling = 0
    /\ pager = NoPager /\ dropped = FALSE /\ began = <<>>

-----------------------------------------------------------------------------
\* TrendLog.Log under the object's lock.
Log(at) ==
    IF ~enable THEN UNCHANGED <<enable, records, total, dropped>>
    ELSE IF Len(records) >= BufferSize /\ stopWhenFull
    THEN /\ enable' = FALSE
         /\ UNCHANGED <<records, total, dropped>>
    ELSE /\ total' = total + 1
         /\ records' = Append(IF Len(records) >= BufferSize THEN Tail(records) ELSE records,
                              [seq |-> total + 1, at |-> at])
         /\ dropped' = (dropped \/ Len(records) >= BufferSize)
         /\ UNCHANGED enable

\* The application's own records.
LogRecord ==
    /\ total < MaxRecords
    /\ Log(clock)
    /\ UNCHANGED <<clock, stopWhenFull, lastPoll, polling, pager, began>>

\* Polled logging: due when LogInterval has passed since the last poll. The
\* source is read without the log's lock, so the log may change before Log.
PollDue ==
    /\ polling = 0 /\ total < MaxRecords
    /\ enable /\ (lastPoll = 0 \/ clock - lastPoll >= LogInterval)
    /\ lastPoll' = clock
    /\ polling' = clock
    /\ UNCHANGED <<clock, enable, stopWhenFull, records, total, pager, dropped, began>>

\* The sample, stamped with the time of the poll; none when the source object
\* is gone or refuses the read.
PollLog ==
    /\ polling # 0
    /\ polling' = 0
    /\ \/ total < MaxRecords /\ Log(polling)
       \/ UNCHANGED <<enable, records, total, dropped>>
    /\ UNCHANGED <<clock, stopWhenFull, lastPoll, pager, began>>

WriteEnable(b) ==
    /\ enable # b
    /\ enable' = b
    /\ UNCHANGED <<clock, stopWhenFull, records, total, lastPoll, polling, pager, dropped, began>>

\* Record_Count takes only zero, which empties the log.
WriteRecordCount ==
    /\ records # <<>>
    /\ records' = <<>>
    /\ dropped' = TRUE
    /\ UNCHANGED <<clock, enable, stopWhenFull, total, lastPoll, polling, pager, began>>

LogTick ==
    /\ clock < MaxTime
    /\ clock' = clock + 1
    /\ UNCHANGED <<enable, stopWhenFull, records, total, lastPoll, polling, pager, dropped, began>>

-----------------------------------------------------------------------------
\* ReadRange: the first and the last index selected; first > last is nothing.
Nothing == [first |-> 1, last |-> 0]

\* lo and hi of a reference and a signed count.
span(ref, count) == IF count < 0 THEN [lo |-> ref + count + 1, hi |-> ref]
                    ELSE [lo |-> ref, hi |-> ref + count - 1]

byPosition(recs, ref, count) ==
    LET n == Len(recs)
        s == span(ref, count)
        lo == Max({s.lo, 1})
        hi == Min({s.hi, n})
    IN IF count = 0 \/ ref < 1 \/ ref > n \/ lo > hi THEN Nothing ELSE [first |-> lo, last |-> hi]

bySequence(recs, ref, count) ==
    LET s == span(ref, count)
        firstSeq == recs[1].seq
        lastSeq == recs[Len(recs)].seq
    IN IF count = 0 \/ s.hi < firstSeq \/ s.lo > lastSeq THEN Nothing
       ELSE [first |-> Max({s.lo, firstSeq}) - firstSeq + 1,
             last |-> Min({s.hi, lastSeq}) - firstSeq + 1]

\* With a positive count from the first record after the time on, with a
\* negative one up to the last record before it.
byTime(recs, t, count) ==
    LET n == Len(recs)
        after == {i \in 1 .. n : recs[i].at > t}
        before == {i \in 1 .. n : recs[i].at < t}
        least == CHOOSE i \in after : \A j \in after : i <= j
        most == CHOOSE i \in before : \A j \in before : j <= i
    IN CASE count > 0 /\ after # {} -> [first |-> least, last |-> Min({n, least + count - 1})]
         [] count < 0 /\ before # {} -> [first |-> Max({1, most + count + 1}), last |-> most]
         [] OTHER -> Nothing

ReadRange(recs, by, ref, count) ==
    CASE recs = <<>> -> Nothing
      [] recs # <<>> /\ by = "all" -> [first |-> 1, last |-> Len(recs)]
      [] recs # <<>> /\ by = "position" -> byPosition(recs, ref, count)
      [] recs # <<>> /\ by = "sequence" -> bySequence(recs, ref, count)
      [] OTHER -> byTime(recs, ref, count)

\* The readRange handler: as many of the selected records as the reply can
\* carry, and the flags that say what was left out.
readRange(by, ref, count) ==
    LET sel == ReadRange(records, by, ref, count)
        n == sel.last - sel.first + 1
        k == Min({n, Fit})
    IN [items |-> SubSeq(records, sel.first, sel.first + k - 1),
        last |-> k > 0 /\ sel.first + k - 1 = Len(records),
        more |-> k < n]

-----------------------------------------------------------------------------
\* ReadRangeAll: a request by position or by sequence number.
PagerBegin ==
    \E by \in {"position", "sequence"}, ref \in 1 .. 2, count \in {0} \cup PageCounts,
       page \in PageCounts :
       /\ pager.pc = "idle"
       /\ pager' = [NoPager EXCEPT !.pc = "page", !.by = by, !.from = ref, !.ref = ref, !.page = page,
                                   !.count = IF count = 0 THEN page ELSE count]
       /\ dropped' = FALSE
       /\ began' = records
       /\ UNCHANGED <<clock, enable, stopWhenFull, records, total, lastPoll, polling>>

Stop(p, partial) == [p EXCEPT !.pc = "done", !.partial = partial]

\* A slip: a page whose MORE_ITEMS is clear is taken for the last one.
advanceUntilClear(p, ack) ==
    LET n == Len(ack.items)
        q == [p EXCEPT !.items = @ \o ack.items, !.pages = @ + 1]
    IN CASE Len(q.items) >= MaxItems -> Stop(q, TRUE)
         [] Len(q.items) < MaxItems /\ (ack.last \/ n = 0 \/ ~ack.more) -> Stop(q, FALSE)
         [] OTHER -> [q EXCEPT !.ref = IF p.by = "position" THEN p.ref + n
                                       ELSE ack.items[1].seq + n,
                               !.count = p.page]

\* What the client does with a page: it stops at a limit, at LAST_ITEM, at an
\* empty page and at a short page without MORE_ITEMS, and else advances.
advance(p, ack) ==
    LET n == Len(ack.items)
        q == [p EXCEPT !.items = @ \o ack.items, !.pages = @ + 1]
        short == n < p.count
    IN CASE Len(q.items) >= MaxItems -> Stop(q, TRUE)
         [] Len(q.items) < MaxItems /\ (ack.last \/ n = 0 \/ (short /\ ~ack.more)) -> Stop(q, FALSE)
         [] OTHER -> [q EXCEPT !.ref = IF p.by = "position" THEN p.ref + n
                                       ELSE ack.items[1].seq + n,
                               !.count = p.page]

\* One page: the server answers at one instant, the client goes on from it.
Page ==
    /\ pager.pc = "page"
    /\ pager' = IF pager.pages >= MaxPages THEN Stop(pager, TRUE)
                ELSE advance(pager, readRange(pager.by, pager.ref, pager.count))
    /\ UNCHANGED <<clock, enable, stopWhenFull, records, total, lastPoll, polling, dropped, began>>

\* The request of a page fails: what was read is returned with the error.
PageError ==
    /\ pager.pc = "page"
    /\ pager' = Stop(pager, TRUE)
    /\ UNCHANGED <<clock, enable, stopWhenFull, records, total, lastPoll, polling, dropped, began>>

LogNext ==
    \/ LogRecord \/ PollDue \/ PollLog \/ (\E b \in BOOLEAN : WriteEnable(b)) \/ WriteRecordCount \/ LogTick
    \/ PagerBegin \/ Page \/ PageError

-----------------------------------------------------------------------------
\* What ReadRange selects is what the positions or sequence numbers asked for
\* have in common with the log, whatever the reference and the sign of the
\* count; and by time, records on the asked side of the reference as long as
\* the log's stamps are in order, which a poll stamped before a record the
\* application made meanwhile is not (TrendLog.ReadRange, Poll, Log).
RangeSelects ==
    \A ref \in 0 .. MaxRecords + 1, count \in -2 .. 2 :
       LET chosen(by) == LET s == ReadRange(records, by, ref, count) IN s.first .. s.last
           asked == LET s == span(ref, count) IN s.lo .. s.hi
           n == Len(records)
       IN /\ chosen("position") = IF ref \in 1 .. n THEN {i \in 1 .. n : i \in asked} ELSE {}
          /\ chosen("sequence") = {i \in 1 .. n : records[i].seq \in asked}
          /\ (\A i, j \in 1 .. n : i < j => records[i].at <= records[j].at) =>
               \A i \in chosen("time") : IF count > 0 THEN records[i].at > ref ELSE records[i].at < ref

\* Each range is what was asked for (RangeSelects); the records a paging
\* returns are in order and none comes twice; and a paging that reports
\* completion returned every record from its first one to the newest there was
\* when it began, if no record left the log meanwhile and the sequence number
\* it began from had not left it before (ReadRangeAll against a log that grows).
PagesCover ==
    /\ RangeSelects
    /\ \A i, j \in 1 .. Len(pager.items) : i < j => pager.items[i].seq < pager.items[j].seq
    /\ pager.pc = "done" /\ ~pager.partial /\ ~dropped /\ pager.items # <<>> =>
         \A i \in 1 .. Len(began) :
            /\ pager.by = "sequence" => began[1].seq <= pager.from
            /\ began[i].seq >= pager.items[1].seq
            => began[i] \in Range(pager.items)

\* The records in the log from the paging's beginning to its end.
Stayed == {r \in Range(began) : r \in Range(records)}

\* A paging by sequence number that reports completion returned every record
\* that was in the log all the time and is newer than the first it returned:
\* ReadRangeAll takes a short page without MORE_ITEMS for the peer's last.
StayedIsRead ==
    pager.pc = "done" /\ pager.by = "sequence" /\ ~pager.partial /\ pager.items # <<>> =>
       \A r \in Stayed : r.seq >= pager.items[1].seq => r \in Range(pager.items)
=============================================================================
