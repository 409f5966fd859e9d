---------------------------- MODULE PagingProofs -----------------------------
(***************************************************************************)
(* Proofs about the services a client splits into several requests, for    *)
(* every value of the constants: paging through a trend log, and batched   *)
(* reads and writes.                                                       *)
(***************************************************************************)
EXTENDS ObjectModel, WellFoundedInduction, TLAPS

(***************************************************************************)
(* Sequences, numbers, and induction.                                      *)
(***************************************************************************)
\* Sequences with the same elements are the same.
LEMMA SeqSame ==
  ASSUME NEW S, NEW s \in Seq(S), NEW t \in Seq(S), Len(s) = Len(t),
         \A i \in 1 .. Len(s) : s[i] = t[i]
  PROVE  s = t
  BY SMTT(30)

\* Two sequences one after the other, element by element.
LEMMA SeqConcat ==
  ASSUME NEW S, NEW s \in Seq(S), NEW t \in Seq(S)
  PROVE  /\ s \o t \in Seq(S) /\ Len(s \o t) = Len(s) + Len(t)
         /\ \A i \in 1 .. Len(s) + Len(t) :
              (s \o t)[i] = IF i <= Len(s) THEN s[i] ELSE t[i - Len(s)]
  BY SMTT(30)

\* A piece of a sequence, element by element.
LEMMA SeqPiece ==
  ASSUME NEW S, NEW s \in Seq(S), NEW m \in Nat, NEW n \in m .. Len(s)
  PROVE  /\ SubSeq(s, m + 1, n) \in Seq(S) /\ Len(SubSeq(s, m + 1, n)) = n - m
         /\ \A i \in 1 .. n - m : SubSeq(s, m + 1, n)[i] = s[m + i]
  BY SMTT(30)

\* The whole of a sequence is a piece of it.
LEMMA SeqWhole ==
  ASSUME NEW S, NEW s \in Seq(S)
  PROVE  SubSeq(s, 1, Len(s)) = s
  BY SMTT(30)

\* A sequence without its first element.
LEMMA SeqTail ==
  ASSUME NEW S, NEW s \in Seq(S), s # <<>>
  PROVE  /\ Tail(s) \in Seq(S) /\ Len(Tail(s)) = Len(s) - 1 /\ Len(s) > 0
         /\ \A i \in 1 .. Len(s) - 1 : Tail(s)[i] = s[i + 1]
  BY SMTT(30)

\* A sequence with one more element at its end.
LEMMA SeqAppend ==
  ASSUME NEW S, NEW s \in Seq(S), NEW x \in S
  PROVE  /\ Append(s, x) \in Seq(S) /\ Len(Append(s, x)) = Len(s) + 1
         /\ Append(s, x)[Len(s) + 1] = x
         /\ \A i \in 1 .. Len(s) : Append(s, x)[i] = s[i]
  BY SMTT(30)

\* The greater and the smaller of two numbers.
LEMMA MaxMin ==
  ASSUME NEW a \in Int, NEW b \in Int
  PROVE  /\ Max({a, b}) = IF a >= b THEN a ELSE b
         /\ Min({a, b}) = IF a <= b THEN a ELSE b
<1>1. \E x \in {a, b} : \A y \in {a, b} : x >= y
  OBVIOUS
<1>2. \E x \in {a, b} : \A y \in {a, b} : x =< y
  OBVIOUS
<1>3. Max({a, b}) \in {a, b} /\ \A y \in {a, b} : Max({a, b}) >= y
  BY Zenon, <1>1 DEF Max
<1>4. Min({a, b}) \in {a, b} /\ \A y \in {a, b} : Min({a, b}) =< y
  BY Zenon, <1>2 DEF Min
<1> QED
  BY <1>3, <1>4

\* Every non-empty set of natural numbers has a least member.
LEMMA Least ==
  ASSUME NEW T, T \subseteq Nat, T # {}
  PROVE  \E x \in T : \A y \in T : x <= y
<1> DEFINE R == {ss \in Nat \X Nat : ss[1] < ss[2]}
<1>1. IsWellFoundedOn(R, Nat)
  BY NatLessThanWellFounded, Zenon DEF OpToRel
<1> HIDE DEF R
<1>2. PICK x \in T : \A y \in T : ~ (<<y, x>> \in R)
  BY <1>1, WFMin, Zenon
<1>3. \A z, y \in T : <<y, z>> \in R <=> y < z
  BY SMTT(30) DEF R
<1>4. ASSUME NEW y \in T PROVE x <= y
  <2>1. ~ (y < x)
    BY Zenon, <1>2, <1>3
  <2>2. x \in Int /\ y \in Int
    OBVIOUS
  <2> QED
    BY <2>1, <2>2
<1> QED
  BY <1>4

\* Induction, for a set in place of a predicate.
LEMMA SetInduction ==
  ASSUME NEW S, 0 \in S, \A n \in Nat : n \in S => n + 1 \in S
  PROVE  Nat \subseteq S
<1> SUFFICES ASSUME Nat \ S # {} PROVE FALSE
  OBVIOUS
<1>1. PICK x \in Nat \ S : \A y \in Nat \ S : x <= y
  BY Zenon, Least
<1>2. x # 0 /\ x - 1 \in Nat /\ ~(x <= x - 1) /\ x = (x - 1) + 1
  BY <1>1
<1>3. x - 1 \in S
  BY <1>1, <1>2
<1> QED
  BY <1>1, <1>2, <1>3

(***************************************************************************)
(* Trend logs: what a range selects, and what a paging returns.            *)
(***************************************************************************)
\* The records of a log.
Samples == [seq : Nat, at : Nat]

\* The fields of a paging.
IsPager(p) ==
  p = [pc |-> p.pc, by |-> p.by, from |-> p.from, ref |-> p.ref, count |-> p.count,
       page |-> p.page, pages |-> p.pages, items |-> p.items, partial |-> p.partial]

\* The sequence numbers of the n records of a log that has made t in all are the last n ones.
Numbered(recs, t) ==
  /\ recs \in Seq(Samples) /\ t \in Nat /\ Len(recs) <= t
  /\ \A i \in 1 .. Len(recs) : recs[i].seq = (t - Len(recs)) + i

\* The places lo to hi as far as a log of n records has them.
IsRange(sel, lo, hi, n) ==
  LET first == IF lo >= 1 THEN lo ELSE 1
      last == IF hi <= n THEN hi ELSE n
  IN IF first <= last THEN sel.first = first /\ sel.last = last ELSE sel.first = 1 /\ sel.last = 0

\* The places a reference and a count stand for.
LEMMA SpanFacts ==
  ASSUME NEW ref \in Int, NEW count \in Int
  PROVE  /\ span(ref, count).lo = IF count < 0 THEN (ref + count) + 1 ELSE ref
         /\ span(ref, count).hi = IF count < 0 THEN ref ELSE (ref + count) - 1
         /\ span(ref, count).lo \in Int /\ span(ref, count).hi \in Int
  BY DEF span

\* A range by position: the asked places as far as the log has them, and none when the reference is
\* not a place of the log (TrendLog.ReadRange).
LEMMA ByPositionFacts ==
  ASSUME NEW recs, Len(recs) \in Nat, NEW ref \in Int, NEW count \in Int
  PROVE  IF ref \in 1 .. Len(recs)
         THEN IsRange(byPosition(recs, ref, count), span(ref, count).lo, span(ref, count).hi, Len(recs))
         ELSE byPosition(recs, ref, count) = Nothing
<1>0. PICK n, lo, hi, sel :
        /\ n = Len(recs) /\ lo = span(ref, count).lo /\ hi = span(ref, count).hi
        /\ sel = byPosition(recs, ref, count)
  BY Zenon
<1> DEFINE first == IF lo >= 1 THEN lo ELSE 1
           last == IF hi <= n THEN hi ELSE n
<1>1. /\ n \in Nat /\ lo \in Int /\ hi \in Int
      /\ lo = IF count < 0 THEN (ref + count) + 1 ELSE ref
      /\ hi = IF count < 0 THEN ref ELSE (ref + count) - 1
  BY Zenon, <1>0, SpanFacts
<1>2. Max({lo, 1}) = first /\ Min({hi, n}) = last
  <2>1. n \in Int /\ 1 \in Int
    BY <1>1
  <2> QED
    BY Zenon, <1>1, <2>1, MaxMin
<1>3. sel = IF count = 0 \/ ref < 1 \/ ref > n \/ first > last THEN Nothing
            ELSE [first |-> first, last |-> last]
  BY Zenon, <1>0, <1>2 DEF byPosition
<1>4. ref \in 1 .. n <=> ~(ref < 1 \/ ref > n)
  BY <1>1
<1>5. /\ first > last <=> ~(first <= last)
      /\ count = 0 /\ ref \in 1 .. n => first > last
  BY <1>1
<1>6. Nothing.first = 1 /\ Nothing.last = 0
  BY DEF Nothing
<1> SUFFICES IF ref \in 1 .. n THEN IsRange(sel, lo, hi, n) ELSE sel = Nothing
  BY Zenon, <1>0
<1>7. CASE ref \in 1 .. n /\ first <= last
  <2>1. sel = [first |-> first, last |-> last]
    BY Zenon, <1>3, <1>4, <1>5, <1>7
  <2>2. sel.first = first /\ sel.last = last
    BY Zenon, <2>1
  <2> QED
    BY Zenon, <1>7, <2>2 DEF IsRange
<1>8. CASE ref \in 1 .. n /\ ~(first <= last)
  BY Zenon, <1>3, <1>5, <1>6, <1>8 DEF IsRange
<1>9. CASE ref \notin 1 .. n
  BY Zenon, <1>3, <1>4, <1>9
<1> QED
  BY Zenon, <1>7, <1>8, <1>9

\* A range by sequence number: the records with the asked numbers, wherever the log has moved to
\* (TrendLog.ReadRange).
LEMMA BySequenceFacts ==
  ASSUME NEW recs, NEW t, Numbered(recs, t), recs # <<>>, NEW ref \in Int, NEW count \in Int
  PROVE  IsRange(bySequence(recs, ref, count), span(ref, count).lo - (t - Len(recs)),
                 span(ref, count).hi - (t - Len(recs)), Len(recs))
<1>0. PICK n, lo, hi, sel, b :
        /\ n = Len(recs) /\ lo = span(ref, count).lo /\ hi = span(ref, count).hi
        /\ sel = bySequence(recs, ref, count) /\ b = t - n
  BY Zenon
<1>1. /\ n \in Nat /\ n >= 1 /\ b \in Nat /\ recs[1].seq = b + 1 /\ recs[n].seq = b + n
  <2>1. n \in Nat /\ n >= 1 /\ t \in Nat /\ n <= t
    BY <1>0 DEF Numbered
  <2>2. 1 \in 1 .. n /\ n \in 1 .. n /\ b \in Nat
    BY <1>0, <2>1
  <2> QED
    BY Zenon, <1>0, <2>1, <2>2 DEF Numbered
<1>2. /\ lo \in Int /\ hi \in Int
      /\ lo = IF count < 0 THEN (ref + count) + 1 ELSE ref
      /\ hi = IF count < 0 THEN ref ELSE (ref + count) - 1
  BY Zenon, <1>0, SpanFacts
<1>3. /\ Max({lo, b + 1}) = IF lo >= b + 1 THEN lo ELSE b + 1
      /\ Min({hi, b + n}) = IF hi <= b + n THEN hi ELSE b + n
  <2>1. b + 1 \in Int /\ b + n \in Int
    BY <1>1
  <2> QED
    BY Zenon, <1>2, <2>1, MaxMin
<1>4. sel = IF count = 0 \/ hi < b + 1 \/ lo > b + n THEN Nothing
            ELSE [first |-> (IF lo >= b + 1 THEN lo ELSE b + 1) - (b + 1) + 1,
                  last |-> (IF hi <= b + n THEN hi ELSE b + n) - (b + 1) + 1]
  BY Zenon, <1>0, <1>1, <1>3 DEF bySequence
<1> DEFINE first == IF lo - b >= 1 THEN lo - b ELSE 1
           last == IF hi - b <= n THEN hi - b ELSE n
<1>5. /\ (IF lo >= b + 1 THEN lo ELSE b + 1) - (b + 1) + 1 = first
      /\ (IF hi <= b + n THEN hi ELSE b + n) - (b + 1) + 1 = last
  <2>1. lo \in Int /\ hi \in Int /\ b \in Int /\ n \in Int
    BY <1>1, <1>2
  <2>2. CASE lo >= b + 1
    BY <2>1, <2>2
  <2>3. CASE ~(lo >= b + 1)
    BY <2>1, <2>3
  <2> QED
    BY <2>2, <2>3
<1>6. ~(count = 0 \/ hi < b + 1 \/ lo > b + n) <=> first <= last
  BY <1>1, <1>2
<1>7. Nothing.first = 1 /\ Nothing.last = 0
  BY DEF Nothing
<1> SUFFICES IsRange(sel, lo - b, hi - b, n)
  BY Zenon, <1>0
<1>8. CASE first <= last
  <2>1. sel = [first |-> first, last |-> last]
    BY Zenon, <1>4, <1>5, <1>6, <1>8
  <2>2. sel.first = first /\ sel.last = last
    BY Zenon, <2>1
  <2> QED
    BY Zenon, <1>8, <2>2 DEF IsRange
<1>9. CASE ~(first <= last)
  BY Zenon, <1>4, <1>6, <1>7, <1>9 DEF IsRange
<1> QED
  BY Zenon, <1>8, <1>9
\* A non-empty set of places has a last one.
LEMMA Greatest ==
  ASSUME NEW n \in Nat, NEW T, T \subseteq 1 .. n, T # {}
  PROVE  \E x \in T : \A y \in T : y <= x
<1> DEFINE R == {n - y : y \in T}
<1>1. R \subseteq Nat /\ R # {}
  <2>1. ASSUME NEW y \in T PROVE n - y \in Nat
    <3>1. y \in 1 .. n
      BY Zenon
    <3> QED
      BY <3>1
  <2> QED
    BY Zenon, <2>1
<1>2. PICK z \in R : \A w \in R : z <= w
  <2> HIDE DEF R
  <2> QED
    BY Zenon, <1>1, Least
<1>3. PICK x \in T : z = n - x
  BY Zenon
<1>4. ASSUME NEW y \in T PROVE y <= x
  <2>1. n - x <= n - y
    BY Zenon, <1>2, <1>3
  <2>2. x \in 1 .. n /\ y \in 1 .. n
    BY Zenon
  <2> QED
    BY <2>1, <2>2
<1> QED
  BY Zenon, <1>4

\* A range by time holds records on the asked side of the reference, when the stamps are in order
\* (TrendLog.ReadRange).
LEMMA ByTimeFacts ==
  ASSUME NEW recs \in Seq(Samples), NEW t \in Int, NEW count \in Int,
         \A i, j \in 1 .. Len(recs) : i < j => recs[i].at <= recs[j].at,
         NEW i \in byTime(recs, t, count).first .. byTime(recs, t, count).last
  PROVE  IF count > 0 THEN recs[i].at > t ELSE recs[i].at < t
<1>0. PICK n, sel, after, before :
        /\ n = Len(recs) /\ sel = byTime(recs, t, count)
        /\ after = {k \in 1 .. n : recs[k].at > t}
        /\ before = {k \in 1 .. n : recs[k].at < t}
  BY Zenon
<1> DEFINE least == CHOOSE k \in after : \A j \in after : k <= j
           most == CHOOSE k \in before : \A j \in before : j <= k
<1>1. n \in Nat /\ \A k \in 1 .. n : recs[k].at \in Nat
  <2>1. n \in Nat /\ \A k \in 1 .. n : recs[k] \in Samples
    BY <1>0
  <2> QED
    BY <2>1 DEF Samples
<1>2. sel = CASE count > 0 /\ after # {} -> [first |-> least, last |-> Min({n, least + count - 1})]
              [] count < 0 /\ before # {} -> [first |-> Max({1, most + count + 1}), last |-> most]
              [] OTHER -> Nothing
  BY Zenon, <1>0 DEF byTime
<1>3. Nothing.first = 1 /\ Nothing.last = 0
  BY DEF Nothing
<1>4. i \in sel.first .. sel.last
  BY Zenon, <1>0
<1>5. \A k, j \in 1 .. n : k <= j => recs[k].at <= recs[j].at
  <2> SUFFICES ASSUME NEW k \in 1 .. n, NEW j \in 1 .. n, k <= j PROVE recs[k].at <= recs[j].at
    BY Zenon
  <2>1. CASE k = j
    <3>1. recs[k].at \in Nat
      BY Zenon, <1>1
    <3> QED
      BY <2>1, <3>1
  <2>2. CASE k # j
    <3>1. k < j
      BY <1>1, <2>2
    <3> QED
      BY Zenon, <1>0, <3>1
  <2> QED
    BY Zenon, <2>1, <2>2
<1>6. CASE count > 0 /\ after # {}
  <2>1. least \in after
    <3>1. after \subseteq Nat
      BY <1>0, <1>1
    <3>2. \E k \in after : \A j \in after : k <= j
      BY Zenon, <1>6, <3>1, Least
    <3> QED
      BY Zenon, <3>2
  <2> HIDE DEF least
  <2>2. sel = [first |-> least, last |-> Min({n, least + count - 1})]
    <3>1. ~(count < 0)
      BY <1>6
    <3> QED
      BY Zenon, <1>2, <1>6, <3>1
  <2>3. least \in 1 .. n /\ recs[least].at > t
    BY Zenon, <1>0, <2>1
  <2>4. Min({n, least + (count - 1)}) = IF n <= least + (count - 1) THEN n ELSE least + (count - 1)
    <3>1. n \in Int /\ least + (count - 1) \in Int
      BY <1>1, <2>3
    <3> QED
      BY Zenon, <3>1, MaxMin
  <2>5. sel.first = least /\ sel.last = IF n <= least + (count - 1) THEN n ELSE least + (count - 1)
    <3>1. PICK m : m = Min({n, least + (count - 1)}) /\ sel = [first |-> least, last |-> m]
      BY Zenon, <2>2
    <3>2. sel.first = least /\ sel.last = m
      BY <3>1
    <3> QED
      BY Zenon, <2>4, <3>1, <3>2
  <2>6. i \in 1 .. n /\ least <= i
    BY <1>1, <1>4, <2>3, <2>5
  <2>7. recs[least].at <= recs[i].at /\ recs[least].at \in Nat /\ recs[i].at \in Nat
    BY Zenon, <1>1, <1>5, <2>3, <2>6
  <2>8. \A x, y \in Nat : x <= y /\ x > t => y > t
    OBVIOUS
  <2> QED
    BY Zenon, <1>6, <2>3, <2>7, <2>8
<1>7. CASE count < 0 /\ before # {}
  <2>1. most \in before
    <3>1. before \subseteq 1 .. n
      BY Zenon, <1>0
    <3>2. \E k \in before : \A j \in before : j <= k
      BY Zenon, <1>1, <1>7, <3>1, Greatest
    <3> QED
      BY Zenon, <3>2
  <2> HIDE DEF most
  <2>0. ~(count > 0)
    BY <1>7
  <2>2. sel = [first |-> Max({1, most + count + 1}), last |-> most]
    BY Zenon, <1>2, <1>7, <2>0
  <2>3. most \in 1 .. n /\ recs[most].at < t
    BY Zenon, <1>0, <2>1
  <2>4. Max({1, (most + count) + 1}) = IF 1 >= (most + count) + 1 THEN 1 ELSE (most + count) + 1
    <3>1. 1 \in Int /\ (most + count) + 1 \in Int
      BY <1>1, <2>3
    <3> QED
      BY Zenon, <3>1, MaxMin
  <2>5. sel.last = most /\ sel.first = IF 1 >= (most + count) + 1 THEN 1 ELSE (most + count) + 1
    BY Zenon, <2>2, <2>4
  <2>6. i \in 1 .. n /\ i <= most
    BY <1>1, <1>4, <2>3, <2>5
  <2>7. recs[i].at <= recs[most].at /\ recs[most].at \in Nat /\ recs[i].at \in Nat
    BY Zenon, <1>1, <1>5, <2>3, <2>6
  <2>8. \A x, y \in Nat : x <= y /\ y < t => x < t
    OBVIOUS
  <2> QED
    BY Zenon, <2>0, <2>3, <2>7, <2>8
<1>8. CASE ~(count > 0 /\ after # {}) /\ ~(count < 0 /\ before # {})
  <2>1. sel = Nothing
    BY Zenon, <1>2, <1>8
  <2>2. i \in 1 .. 0
    BY Zenon, <1>3, <1>4, <2>1
  <2> QED
    BY <2>2
<1> QED
  BY Zenon, <1>6, <1>7, <1>8

\* Each range is what was asked for, for every reference and count.
LEMMA RangesSelect ==
  ASSUME Numbered(records, total)
  PROVE  RangeSelects
<1>0. PICK n, b : n = Len(records) /\ b = total - n
  BY Zenon
<1>1. n \in Nat /\ b \in Nat /\ records \in Seq(Samples)
  BY <1>0 DEF Numbered
<1> SUFFICES ASSUME NEW ref \in 0 .. MaxRecords + 1, NEW count \in -2 .. 2
             PROVE  LET chosen(by) == LET s == ReadRange(records, by, ref, count) IN s.first .. s.last
                        asked == LET s == span(ref, count) IN s.lo .. s.hi
                    IN /\ chosen("position") = IF ref \in 1 .. n THEN {i \in 1 .. n : i \in asked} ELSE {}
                       /\ chosen("sequence") = {i \in 1 .. n : records[i].seq \in asked}
                       /\ (\A i, j \in 1 .. n : i < j => records[i].at <= records[j].at) =>
                            \A i \in chosen("time") : IF count > 0 THEN records[i].at > ref ELSE records[i].at < ref
  BY Zenon, <1>0 DEF RangeSelects
<1>2. ref \in Int /\ count \in Int
  BY LogAssumption
<1>3. PICK lo, hi : lo = span(ref, count).lo /\ hi = span(ref, count).hi /\ lo \in Int /\ hi \in Int
  BY Zenon, <1>2, SpanFacts
<1>4. Nothing.first = 1 /\ Nothing.last = 0 /\ 1 .. 0 = {}
  BY DEF Nothing
<1>5. CASE records = <<>>
  <2>1. n = 0 /\ \A by : ReadRange(records, by, ref, count) = Nothing
    BY <1>0, <1>5 DEF ReadRange
  <2>2. 1 .. n = {}
    BY <2>1
  <2> QED
    BY Zenon, <1>4, <2>1, <2>2
<1>6. CASE records # <<>>
  <2>1. PICK p : p = ReadRange(records, "position", ref, count) /\ p = byPosition(records, ref, count)
    BY <1>6 DEF ReadRange
  <2>2. PICK s : s = ReadRange(records, "sequence", ref, count) /\ s = bySequence(records, ref, count)
    BY <1>6 DEF ReadRange
  <2>3. ReadRange(records, "time", ref, count) = byTime(records, ref, count)
    BY <1>6 DEF ReadRange
  <2>4. p.first .. p.last = IF ref \in 1 .. n THEN {i \in 1 .. n : i \in lo .. hi} ELSE {}
    <3>1. IF ref \in 1 .. n THEN IsRange(p, lo, hi, n) ELSE p = Nothing
      BY Zenon, <1>0, <1>1, <1>2, <1>3, <2>1, ByPositionFacts
    <3>2. CASE ref \in 1 .. n
      <4>1. IsRange(p, lo, hi, n)
        BY Zenon, <3>1, <3>2
      <4> QED
        BY <1>1, <1>3, <3>2, <4>1 DEF IsRange
    <3>3. CASE ref \notin 1 .. n
      BY Zenon, <1>4, <3>1, <3>3
    <3> QED
      BY Zenon, <3>2, <3>3
  <2>5. s.first .. s.last = {i \in 1 .. n : records[i].seq \in lo .. hi}
    <3>1. IsRange(s, lo - b, hi - b, n)
      BY Zenon, <1>0, <1>2, <1>3, <1>6, <2>2, BySequenceFacts
    <3>2. s.first .. s.last = {i \in 1 .. n : b + i \in lo .. hi}
      <4>1. PICK l, h : l = lo - b /\ h = hi - b /\ l \in Int /\ h \in Int
        BY <1>1, <1>3
      <4>2. s.first .. s.last = {i \in 1 .. n : i \in l .. h}
        BY <1>1, <3>1, <4>1 DEF IsRange
      <4>3. \A i \in 1 .. n : b + i \in lo .. hi <=> i \in l .. h
        BY <1>1, <1>3, <4>1
      <4> QED
        BY Zenon, <4>2, <4>3
    <3>3. \A i \in 1 .. n : records[i].seq = b + i
      BY Zenon, <1>0 DEF Numbered
    <3> QED
      BY Zenon, <3>2, <3>3
  <2>6. ASSUME \A i, j \in 1 .. n : i < j => records[i].at <= records[j].at,
               NEW i \in byTime(records, ref, count).first .. byTime(records, ref, count).last
        PROVE  IF count > 0 THEN records[i].at > ref ELSE records[i].at < ref
    BY Zenon, <1>0, <1>1, <1>2, <2>6, ByTimeFacts
  <2> QED
    BY Zenon, <1>3, <2>1, <2>2, <2>3, <2>4, <2>5, <2>6
<1> QED
  BY Zenon, <1>5, <1>6

\* How many records of the log come before the reference of a request.
Start(by, ref) == IF by = "position" THEN ref - 1 ELSE (ref - (total - Len(records))) - 1

\* The same, at least none.
From(by, ref) == IF Start(by, ref) >= 0 THEN Start(by, ref) ELSE 0

\* A page is a piece of the log from its reference on, and one that the client takes for the last
\* reaches the end of the log, if the reference had not left it.
IsPage(by, ref, count, a) ==
  /\ a.items \in Seq(Samples) /\ Len(a.items) \in Nat
  /\ \A i \in 1 .. Len(a.items) :
       /\ From(by, ref) + i \in 1 .. Len(records)
       /\ a.items[i] = records[From(by, ref) + i]
  /\ Len(a.items) > 0 => Fit > 0
  /\ /\ Start(by, ref) >= 0 /\ Fit > 0
     /\ a.last \/ Len(a.items) = 0 \/ (Len(a.items) < count /\ ~a.more)
     => Len(records) <= Start(by, ref) + Len(a.items)

\* What a request of the pager selects (TrendLog.ReadRange).
LEMMA SelectFacts ==
  ASSUME Numbered(records, total), NEW by \in {"position", "sequence"},
         NEW ref \in Nat \ {0}, NEW count \in Nat \ {0}
  PROVE  IsRange(ReadRange(records, by, ref, count), Start(by, ref) + 1, Start(by, ref) + count,
                 Len(records))
<1>0. PICK n, sel, s : n = Len(records) /\ sel = ReadRange(records, by, ref, count) /\ s = Start(by, ref)
  BY Zenon
<1>1. n \in Nat /\ total \in Nat /\ n <= total /\ s \in Int
  BY <1>0 DEF Numbered, Start
<1>2. Nothing.first = 1 /\ Nothing.last = 0
  BY DEF Nothing
<1>3. /\ span(ref, count).lo = ref /\ span(ref, count).hi = (ref + count) - 1
      /\ ref \in Int /\ count \in Int
  <2>1. ref \in Int /\ count \in Int /\ ~(count < 0)
    OBVIOUS
  <2> QED
    BY Zenon, <2>1, SpanFacts
<1> SUFFICES IsRange(sel, s + 1, s + count, n)
  BY Zenon, <1>0
<1>4. CASE records = <<>>
  <2>1. n = 0 /\ sel = Nothing
    BY <1>0, <1>4 DEF ReadRange
  <2>2. ~((IF s + 1 >= 1 THEN s + 1 ELSE 1) <= (IF s + count <= n THEN s + count ELSE n))
    BY <1>1, <2>1
  <2> QED
    BY Zenon, <1>2, <2>1, <2>2 DEF IsRange
<1>5. CASE records # <<>> /\ by = "position"
  <2>1. s = ref - 1 /\ s + 1 = ref /\ (ref + count) - 1 = s + count
    BY <1>0, <1>5 DEF Start
  <2>2. sel = byPosition(records, ref, count)
    BY <1>0, <1>5 DEF ReadRange
  <2>3. IF ref \in 1 .. n THEN IsRange(sel, ref, (ref + count) - 1, n) ELSE sel = Nothing
    BY Zenon, <1>0, <1>1, <1>3, <2>2, ByPositionFacts
  <2>4. CASE ref \in 1 .. n
    BY Zenon, <2>1, <2>3, <2>4
  <2>5. CASE ref \notin 1 .. n
    <3>1. ~((IF s + 1 >= 1 THEN s + 1 ELSE 1) <= (IF s + count <= n THEN s + count ELSE n))
      BY <1>1, <2>1, <2>5
    <3> QED
      BY Zenon, <1>2, <2>3, <2>5, <3>1 DEF IsRange
  <2> QED
    BY Zenon, <2>4, <2>5
<1>6. CASE records # <<>> /\ by = "sequence"
  <2>1. s + 1 = ref - (total - n) /\ ((ref + count) - 1) - (total - n) = s + count
    BY <1>0, <1>1, <1>6 DEF Start
  <2>2. sel = bySequence(records, ref, count)
    BY <1>0, <1>6 DEF ReadRange
  <2>3. IsRange(sel, ref - (total - n), ((ref + count) - 1) - (total - n), n)
    BY Zenon, <1>0, <1>3, <1>6, <2>2, BySequenceFacts
  <2> QED
    BY Zenon, <2>1, <2>3
<1> QED
  BY Zenon, <1>4, <1>5, <1>6

\* The answer to a request of the pager (the readRange handler).
LEMMA PageFacts ==
  ASSUME Numbered(records, total), NEW by \in {"position", "sequence"},
         NEW ref \in Nat \ {0}, NEW count \in Nat \ {0}
  PROVE  IsPage(by, ref, count, readRange(by, ref, count))
<1>0. PICK len, sel, s, f, a :
        /\ len = Len(records) /\ sel = ReadRange(records, by, ref, count)
        /\ s = Start(by, ref) /\ f = From(by, ref) /\ a = readRange(by, ref, count)
  BY Zenon
<1>1. PICK first, last : first = sel.first /\ last = sel.last
  BY Zenon
<1>2. len \in Nat /\ s \in Int /\ records \in Seq(Samples) /\ f = (IF s >= 0 THEN s ELSE 0)
  BY <1>0 DEF Numbered, Start, From
<1>3. IF (IF s + 1 >= 1 THEN s + 1 ELSE 1) <= (IF s + count <= len THEN s + count ELSE len)
      THEN /\ first = IF s + 1 >= 1 THEN s + 1 ELSE 1
           /\ last = IF s + count <= len THEN s + count ELSE len
      ELSE first = 1 /\ last = 0
  BY Zenon, <1>0, <1>1, SelectFacts DEF IsRange
<1>4. first \in Nat \ {0} /\ last \in Nat
  BY <1>2, <1>3
<1>5. PICK n, k, m : n = last - first + 1 /\ k = Min({n, Fit}) /\ m = first - 1
  BY Zenon
<1>6. k = (IF n <= Fit THEN n ELSE Fit) /\ n \in Nat /\ m \in Nat
  <2>1. n \in Int /\ Fit \in Int /\ m \in Nat /\ n >= 0
    BY <1>2, <1>3, <1>4, <1>5, LogAssumption
  <2>2. n \in Nat
    BY <2>1
  <2> QED
    BY Zenon, <1>5, <2>1, <2>2, MaxMin
<1>7. Fit \in Nat /\ k \in Nat /\ first = m + 1 /\ first + (k - 1) = m + k
  BY <1>4, <1>5, <1>6, LogAssumption
<1>8. a = [items |-> SubSeq(records, m + 1, m + k), last |-> k > 0 /\ m + k = len, more |-> k < n]
  BY Zenon, <1>0, <1>1, <1>5, <1>7 DEF readRange
<1>9. /\ a.items = SubSeq(records, m + 1, m + k)
      /\ a.last <=> k > 0 /\ m + k = len
      /\ a.more <=> k < n
  BY Zenon, <1>8
<1>10. /\ m + k \in m .. len /\ (k > 0 => m = f /\ Fit > 0)
  BY <1>2, <1>3, <1>4, <1>5, <1>6, <1>7
<1>11. /\ a.items \in Seq(Samples) /\ Len(a.items) = k
       /\ \A i \in 1 .. k : a.items[i] = records[m + i]
  <2>1. PICK e : e = m + k /\ e - m = k
    BY <1>6, <1>7
  <2>2. m \in Nat /\ e \in m .. Len(records) /\ records \in Seq(Samples)
    BY Zenon, <1>0, <1>2, <1>6, <1>10, <2>1
  <2>3. /\ SubSeq(records, m + 1, e) \in Seq(Samples) /\ Len(SubSeq(records, m + 1, e)) = e - m
        /\ \A i \in 1 .. e - m : SubSeq(records, m + 1, e)[i] = records[m + i]
    BY Zenon, <2>2, SeqPiece
  <2> QED
    BY Zenon, <1>9, <2>1, <2>3
<1>12. ASSUME NEW i \in 1 .. k PROVE f + i \in 1 .. len /\ a.items[i] = records[f + i]
  <2>1. k > 0 /\ f + i \in 1 .. len /\ f = m
    BY <1>2, <1>6, <1>7, <1>10
  <2> QED
    BY Zenon, <1>11, <2>1
<1>13. ASSUME s >= 0, Fit > 0, (k > 0 /\ m + k = len) \/ k = 0 \/ (k < count /\ ~(k < n))
       PROVE  len <= s + k
  <2>1. CASE k > 0 /\ m + k = len
    BY <1>2, <1>10, <1>13, <2>1
  <2>2. ASSUME n = k PROVE len <= s + k
    <3>1. CASE s + 1 <= IF s + count <= len THEN s + count ELSE len
      <4>1. first = s + 1 /\ last = IF s + count <= len THEN s + count ELSE len
        BY <1>2, <1>3, <1>13, <3>1
      <4>2. CASE k = 0
        BY <1>2, <1>5, <2>2, <4>1, <4>2, <3>1
      <4>3. CASE k # 0 /\ k < count
        BY <1>2, <1>5, <2>2, <4>1, <4>3
      <4>4. CASE k > 0 /\ m + k = len
        BY <2>1, <4>4
      <4> QED
        BY <1>13, <4>2, <4>3, <4>4
    <3>2. CASE ~(s + 1 <= IF s + count <= len THEN s + count ELSE len)
      BY <1>2, <1>7, <1>13, <3>2
    <3> QED
      BY <3>1, <3>2
  <2>3. ~(k < n) \/ k = 0 => n = k
    BY <1>6, <1>7, <1>13
  <2> QED
    BY <1>13, <2>1, <2>2, <2>3
<1> SUFFICES IsPage(by, ref, count, a)
  BY Zenon, <1>0
<1> QED
  BY Zenon, <1>0, <1>7, <1>9, <1>10, <1>11, <1>12, <1>13 DEF IsPage

\* The shape of the state: a log numbered without gaps, the log as it was when the paging began, and
\* the paging.
LogTypes ==
  /\ Numbered(records, total) /\ clock \in Nat /\ polling \in Nat
  /\ began \in Seq(Samples)
  /\ IsPager(pager) /\ pager.items \in Seq(Samples) /\ pager.pc \in {"idle", "page", "done"}

\* As long as no record has left the log, it has only grown.
Grown ==
  ~dropped => Len(began) <= Len(records) /\ \A i \in 1 .. Len(began) : began[i] = records[i]

\* The next request of a paging asks for something.
Paging ==
  /\ pager.pc = "idle" => pager.items = <<>>
  /\ pager.pc # "idle" => pager.by \in {"position", "sequence"} /\ pager.from \in Nat \ {0}
  /\ pager.pc = "page" => /\ pager.ref \in Nat \ {0} /\ pager.count \in Nat \ {0}
                          /\ pager.page \in Nat \ {0}
  /\ pager.items # <<>> => Fit > 0

\* What was read is in order, and comes before all that the next page can hold.
Ordered ==
  /\ \A i, j \in 1 .. Len(pager.items) : i < j => pager.items[i].seq < pager.items[j].seq
  /\ \A i \in 1 .. Len(pager.items) :
       /\ pager.items[i].seq <= total
       /\ pager.pc = "page" =>
            /\ pager.by = "sequence" => pager.items[i].seq < pager.ref
            /\ pager.by = "position" =>
                 \A p \in 1 .. Len(records) : p >= pager.ref => pager.items[i].seq < records[p].seq

\* The place before the first record read, when the reference had not left the log.
Offset == IF pager.by = "position" THEN pager.from - 1 ELSE pager.from - began[1].seq

\* Whether the reference was still in the log when the paging began.
Claimed == pager.by = "position" \/ (began # <<>> /\ began[1].seq <= pager.from)

\* What was read lies together in the log.
Contiguous ==
  pager.pc # "idle" /\ ~dropped /\ Claimed =>
    /\ \A i \in 1 .. Len(pager.items) :
         Offset + i \in 1 .. Len(records) /\ pager.items[i] = records[Offset + i]
    /\ pager.pc = "page" => pager.ref = pager.from + Len(pager.items)
    /\ pager.pc = "done" /\ ~pager.partial /\ pager.items # <<>> =>
         Len(began) <= Offset + Len(pager.items)

\* The inductive invariant of a log and of the client that pages through it.
LogInv == LogTypes /\ Grown /\ Paging /\ Ordered /\ Contiguous

\* The fields of a numbered log.
LEMMA NumberedFacts ==
  ASSUME Numbered(records, total)
  PROVE  /\ records \in Seq(Samples) /\ Len(records) \in Nat /\ total \in Nat
         /\ Len(records) <= total /\ total - Len(records) \in Nat
         /\ \A i \in 1 .. Len(records) :
              records[i].seq = (total - Len(records)) + i /\ records[i].seq \in Nat
<1>1. /\ records \in Seq(Samples) /\ Len(records) \in Nat /\ total \in Nat
      /\ Len(records) <= total /\ total - Len(records) \in Nat
  BY DEF Numbered
<1>2. ASSUME NEW i \in 1 .. Len(records)
      PROVE  records[i].seq = (total - Len(records)) + i /\ records[i].seq \in Nat
  <2>1. (total - Len(records)) + i \in Nat
    BY <1>1
  <2> QED
    BY Zenon, <2>1 DEF Numbered
<1> QED
  BY Zenon, <1>1, <1>2

\* Where the pages lie is a place of the log, or none of it.
LEMMA OffsetType ==
  ASSUME LogInv, pager.pc # "idle", ~dropped, Claimed
  PROVE  /\ Offset \in Nat
         /\ pager.by = "sequence" => Offset = (pager.from - (total - Len(records))) - 1
<1>0. pager.from \in Nat \ {0} /\ pager.by \in {"position", "sequence"}
  BY Zenon DEF LogInv, Paging
<1>1. CASE pager.by = "position"
  <2>1. Offset = pager.from - 1
    BY Zenon, <1>1 DEF Offset
  <2> QED
    BY <1>0, <1>1, <2>1
<1>2. CASE pager.by = "sequence"
  <2>1. Offset = pager.from - began[1].seq /\ began # <<>> /\ began[1].seq <= pager.from
    <3>1. pager.by # "position"
      BY <1>2
    <3> QED
      BY Zenon, <3>1 DEF Offset, Claimed
  <2>2. began \in Seq(Samples) /\ Len(began) <= Len(records) /\ Len(records) \in Nat
    BY Zenon, NumberedFacts DEF LogInv, LogTypes, Grown
  <2>3. 1 \in 1 .. Len(began) /\ 1 \in 1 .. Len(records)
    BY <2>1, <2>2
  <2>4. began[1] = records[1]
    BY Zenon, <2>3 DEF LogInv, Grown
  <2>5. began[1].seq = (total - Len(records)) + 1 /\ total - Len(records) \in Nat
    BY Zenon, <2>3, <2>4, NumberedFacts DEF LogInv, LogTypes
  <2> QED
    BY <1>0, <1>2, <2>1, <2>5
<1> QED
  BY Zenon, <1>0, <1>1, <1>2

\* The invariant implies the property the run checks.
LEMMA LogParts == LogInv => PagesCover
<1> SUFFICES ASSUME LogInv PROVE PagesCover
  OBVIOUS
<1>1. RangeSelects
  BY Zenon, RangesSelect DEF LogInv, LogTypes
<1>2. ASSUME pager.pc = "done", ~pager.partial, ~dropped, pager.items # <<>>,
             NEW i \in 1 .. Len(began),
             pager.by = "sequence" => began[1].seq <= pager.from,
             began[i].seq >= pager.items[1].seq
      PROVE  began[i] \in Range(pager.items)
  <2>0. PICK L, o : L = Len(pager.items) /\ o = Offset
    BY Zenon
  <2>1. /\ pager.pc # "idle" /\ pager.by \in {"position", "sequence"}
        /\ began \in Seq(Samples) /\ pager.items \in Seq(Samples)
    BY <1>2 DEF LogInv, Paging, LogTypes
  <2>2. Claimed
    <3>1. began # <<>>
      BY <1>2, <2>1
    <3> QED
      BY Zenon, <1>2, <2>1, <3>1 DEF Claimed
  <2>3. o \in Nat
    BY Zenon, <1>2, <2>0, <2>1, <2>2, OffsetType
  <2>4. /\ \A j \in 1 .. L : o + j \in 1 .. Len(records) /\ pager.items[j] = records[o + j]
        /\ Len(began) <= o + L
    BY Zenon, <1>2, <2>0, <2>1, <2>2 DEF LogInv, Contiguous
  <2>5. L \in Nat /\ L > 0 /\ Len(began) \in Nat /\ DOMAIN pager.items = 1 .. L
    BY <1>2, <2>0, <2>1
  <2>6. Len(began) <= Len(records) /\ began[i] = records[i] /\ Len(records) \in Nat
    BY Zenon, <1>2, NumberedFacts DEF LogInv, LogTypes, Grown
  <2>7. PICK b : b = total - Len(records) /\ b \in Nat
    BY Zenon, NumberedFacts DEF LogInv, LogTypes
  <2>8. i \in 1 .. Len(records) /\ 1 \in 1 .. L /\ i \in Nat
    BY <2>5, <2>6
  <2>9. records[i].seq = b + i /\ records[o + 1].seq = b + (o + 1) /\ pager.items[1] = records[o + 1]
    BY Zenon, <2>4, <2>7, <2>8, NumberedFacts DEF LogInv, LogTypes
  <2>10. b + i >= b + (o + 1)
    BY Zenon, <1>2, <2>6, <2>9
  <2>11. i - o \in 1 .. L /\ o + (i - o) = i
    BY <2>3, <2>4, <2>5, <2>7, <2>8, <2>10
  <2>12. pager.items[i - o] = began[i]
    BY Zenon, <2>4, <2>6, <2>11
  <2> QED
    BY Zenon, <2>5, <2>11, <2>12 DEF Range
<1> QED
  BY Zenon, <1>1, <1>2 DEF PagesCover, LogInv, Ordered

\* The log moves and the pager does not: what stays in the log keeps its order, new records are
\* newer than all before, and while nothing is dropped the log only grows.
LEMMA LogMoves ==
  ASSUME LogInv, Numbered(records', total'), total <= total', UNCHANGED <<pager, began>>,
         clock' \in Nat, polling' \in Nat,
         \A p \in 1 .. Len(records') :
           \/ total < records'[p].seq
           \/ \E q \in 1 .. Len(records) : p <= q /\ records'[p] = records[q],
         ~dropped' => /\ ~dropped /\ Len(records) <= Len(records')
                      /\ \A i \in 1 .. Len(records) : records'[i] = records[i]
  PROVE  LogInv'
<1>0. /\ total \in Nat /\ total' \in Nat /\ Len(records) \in Nat /\ Len(records') \in Nat
      /\ began \in Seq(Samples) /\ pager.items \in Seq(Samples)
  BY DEF LogInv, LogTypes, Numbered
<1>1. LogTypes'
  BY Zenon DEF LogInv, LogTypes
<1>2. Paging'
  BY Zenon DEF LogInv, Paging
<1>3. Grown'
  <2> SUFFICES ASSUME ~dropped'
               PROVE  Len(began) <= Len(records') /\ \A i \in 1 .. Len(began) : began[i] = records'[i]
    BY Zenon DEF Grown
  <2>1. /\ Len(began) <= Len(records) /\ Len(records) <= Len(records')
        /\ \A i \in 1 .. Len(began) : began[i] = records[i]
        /\ \A i \in 1 .. Len(records) : records'[i] = records[i]
    BY Zenon DEF LogInv, Grown
  <2>2. Len(began) <= Len(records') /\ \A i \in 1 .. Len(began) : i \in 1 .. Len(records)
    BY <1>0, <2>1
  <2> QED
    BY Zenon, <2>1, <2>2
<1>4. Ordered'
  <2>1. ASSUME NEW i \in 1 .. Len(pager.items)
        PROVE  /\ pager.items[i].seq <= total /\ pager.items[i].seq <= total'
               /\ pager.items[i].seq \in Nat
    <3>1. pager.items[i].seq <= total
      BY Zenon DEF LogInv, Ordered
    <3>2. pager.items[i].seq \in Nat
      <4>1. pager.items[i] \in Samples
        BY <1>0
      <4> QED
        BY Zenon, <4>1 DEF Samples
    <3>3. \A x \in Nat : x <= total => x <= total'
      BY <1>0
    <3> QED
      BY Zenon, <3>1, <3>2, <3>3
  <2>2. ASSUME pager.pc = "page", pager.by = "position", NEW i \in 1 .. Len(pager.items),
               NEW p \in 1 .. Len(records'), p >= pager.ref
        PROVE  pager.items[i].seq < records'[p].seq
    <3>0. records'[p].seq \in Nat
      <4>1. records'[p] \in Samples
        BY DEF Numbered
      <4> QED
        BY Zenon, <4>1 DEF Samples
    <3>1. CASE total < records'[p].seq
      <4>1. \A x, y \in Nat : x <= total /\ total < y => x < y
        BY <1>0
      <4> QED
        BY Zenon, <2>1, <3>0, <3>1, <4>1
    <3>2. ASSUME NEW q \in 1 .. Len(records), p <= q, records'[p] = records[q]
          PROVE  pager.items[i].seq < records'[p].seq
      <4>1. pager.ref \in Nat
        BY Zenon, <2>2 DEF LogInv, Paging
      <4>2. q >= pager.ref
        BY <1>0, <2>2, <3>2, <4>1
      <4> QED
        BY Zenon, <2>2, <3>2, <4>2 DEF LogInv, Ordered
    <3> QED
      BY Zenon, <3>1, <3>2
  <2> QED
    BY Zenon, <2>1, <2>2 DEF LogInv, Ordered
<1>5. Contiguous'
  <2> SUFFICES ASSUME pager.pc # "idle", ~dropped', Claimed
               PROVE  Contiguous'
    BY Zenon DEF Contiguous, Claimed
  <2>1. /\ ~dropped /\ Len(records) <= Len(records')
        /\ \A i \in 1 .. Len(records) : records'[i] = records[i]
    BY Zenon
  <2>2. \A i \in 1 .. Len(records) : i \in 1 .. Len(records')
    BY <1>0, <2>1
  <2>3. Offset' = Offset
    BY Zenon DEF Offset
  <2> QED
    BY Zenon, <2>1, <2>2, <2>3 DEF LogInv, Contiguous
<1> QED
  BY Zenon, <1>1, <1>2, <1>3, <1>4, <1>5 DEF LogInv

\* TrendLog.Log: a record more at the end, the oldest one dropped when the log is full.
LEMMA LogKept ==
  ASSUME LogInv, NEW t \in Nat, Log(t), UNCHANGED <<pager, began>>, clock' \in Nat, polling' \in Nat
  PROVE  LogInv'
<1>0. /\ records \in Seq(Samples) /\ Len(records) \in Nat /\ total \in Nat
      /\ Len(records) <= total
      /\ \A i \in 1 .. Len(records) : records[i].seq = (total - Len(records)) + i
  BY Zenon, NumberedFacts DEF LogInv, LogTypes
<1>1. CASE UNCHANGED <<records, total, dropped>>
  <2>1. Numbered(records', total')
    BY Zenon, <1>1 DEF LogInv, LogTypes
  <2>2. total <= total' /\ \A p \in 1 .. Len(records) : p <= p
    BY <1>0, <1>1
  <2>3. Len(records) <= Len(records')
    BY <1>0, <1>1
  <2> QED
    BY Zenon, <1>1, <2>1, <2>2, <2>3, LogMoves
<1> DEFINE r == [seq |-> total + 1, at |-> t]
<1>2. r \in Samples /\ r.seq = total + 1
  BY <1>0 DEF Samples
<1> HIDE DEF r
<1>3. ASSUME NEW old \in Seq(Samples), Len(old) + 1 <= total + 1,
             \A i \in 1 .. Len(old) : old[i].seq = (total - Len(old)) + i,
             records' = Append(old, r), total' = total + 1,
             \A p \in 1 .. Len(old) : \E q \in 1 .. Len(records) : p <= q /\ old[p] = records[q],
             ~dropped' => ~dropped /\ old = records
      PROVE  LogInv'
  <2>0. /\ records' \in Seq(Samples) /\ Len(records') = Len(old) + 1
        /\ records'[Len(old) + 1] = r
        /\ \A i \in 1 .. Len(old) : records'[i] = old[i]
    <3>1. /\ Append(old, r) \in Seq(Samples) /\ Len(Append(old, r)) = Len(old) + 1
          /\ Append(old, r)[Len(old) + 1] = r
          /\ \A i \in 1 .. Len(old) : Append(old, r)[i] = old[i]
      BY Zenon, <1>2, SeqAppend
    <3> QED
      BY Zenon, <1>3, <3>1
  <2>1. Len(old) \in Nat /\ total + 1 \in Nat
    BY <1>0, <1>3
  <2>2. \A p \in 1 .. Len(records') : p \in 1 .. Len(old) \/ p = Len(old) + 1
    BY <2>0, <2>1
  <2>3. Numbered(records', total')
    <3>1. ASSUME NEW p \in 1 .. Len(records') PROVE records'[p].seq = (total' - Len(records')) + p
      <4>1. CASE p \in 1 .. Len(old)
        <5>1. (total - Len(old)) + p = ((total + 1) - (Len(old) + 1)) + p
          BY <1>0, <2>1
        <5> QED
          BY Zenon, <1>3, <2>0, <4>1, <5>1
      <4>2. CASE p = Len(old) + 1
        <5>1. total + 1 = ((total + 1) - (Len(old) + 1)) + (Len(old) + 1)
          BY <1>0, <2>1
        <5> QED
          BY Zenon, <1>2, <1>3, <2>0, <4>2, <5>1
      <4> QED
        BY Zenon, <2>2, <4>1, <4>2
    <3> QED
      BY Zenon, <1>3, <2>0, <2>1, <3>1 DEF Numbered
  <2>4. ASSUME NEW p \in 1 .. Len(records')
        PROVE  \/ total < records'[p].seq
               \/ \E q \in 1 .. Len(records) : p <= q /\ records'[p] = records[q]
    <3>1. total < total + 1
      BY <1>0
    <3> QED
      BY Zenon, <1>2, <1>3, <2>0, <2>2, <3>1
  <2>5. ~dropped' => /\ ~dropped /\ Len(records) <= Len(records')
                     /\ \A i \in 1 .. Len(records) : records'[i] = records[i]
    <3>1. Len(old) <= Len(old) + 1
      BY <2>1
    <3> QED
      BY Zenon, <1>3, <2>0, <3>1
  <2>6. total <= total'
    BY <1>0, <1>3
  <2> QED
    BY Zenon, <2>3, <2>4, <2>5, <2>6, LogMoves
<1>4. CASE /\ ~(Len(records) >= BufferSize) /\ total' = total + 1 /\ records' = Append(records, r)
           /\ ~dropped' => ~dropped
  <2>1. Len(records) + 1 <= total + 1 /\ \A p \in 1 .. Len(records) : p <= p
    BY <1>0
  <2> QED
    BY Zenon, <1>0, <1>3, <1>4, <2>1
<1>5. CASE /\ Len(records) >= BufferSize /\ total' = total + 1
           /\ records' = Append(Tail(records), r) /\ dropped'
  <2>1. records # <<>>
    BY <1>0, <1>5, LogAssumption
  <2>2. PICK old : old = Tail(records) /\ old \in Seq(Samples) /\ Len(old) = Len(records) - 1
                   /\ \A i \in 1 .. Len(records) - 1 : old[i] = records[i + 1]
    <3>1. /\ Tail(records) \in Seq(Samples) /\ Len(Tail(records)) = Len(records) - 1
          /\ \A i \in 1 .. Len(records) - 1 : Tail(records)[i] = records[i + 1]
      BY Zenon, <1>0, <2>1, SeqTail
    <3> QED
      BY Zenon, <3>1
  <2>3. Len(old) + 1 <= total + 1
    BY <1>0, <2>2
  <2>4. ASSUME NEW i \in 1 .. Len(old)
        PROVE  /\ old[i].seq = (total - Len(old)) + i
               /\ \E q \in 1 .. Len(records) : i <= q /\ old[i] = records[q]
    <3>1. i \in 1 .. Len(records) - 1 /\ i + 1 \in 1 .. Len(records) /\ i <= i + 1
      BY <1>0, <2>2
    <3>2. (total - Len(records)) + (i + 1) = (total - Len(old)) + i
      BY <1>0, <2>2, <3>1
    <3> QED
      BY Zenon, <1>0, <2>2, <3>1, <3>2
  <2> QED
    BY Zenon, <1>3, <1>5, <2>2, <2>3, <2>4
<1>6. \/ UNCHANGED <<records, total, dropped>>
      \/ /\ total' = total + 1 /\ (dropped' <=> dropped \/ Len(records) >= BufferSize)
         /\ records' = Append(IF Len(records) >= BufferSize THEN Tail(records) ELSE records, r)
  BY Zenon DEF Log, r
<1>7. CASE Len(records) >= BufferSize
  BY Zenon, <1>1, <1>5, <1>6, <1>7
<1>8. CASE ~(Len(records) >= BufferSize)
  BY Zenon, <1>1, <1>4, <1>6, <1>8
<1> QED
  BY Zenon, <1>7, <1>8

\* What the client does with the page a, from p to r.
IsAdvance(p, a, r) ==
  LET n == Len(a.items)
      over == a.last \/ n = 0 \/ (n < p.count /\ ~a.more)
  IN /\ IsPager(r) /\ r.by = p.by /\ r.from = p.from /\ r.items = p.items \o a.items
     /\ \/ r.pc = "done" /\ r.partial
        \/ r.pc = "done" /\ over
        \/ /\ r.pc = p.pc /\ r.count = p.page /\ r.page = p.page /\ n # 0
           /\ r.ref = IF p.by = "position" THEN p.ref + n ELSE a.items[1].seq + n

\* The cases of ReadRangeAll's loop body, as the pager they leave.
LEMMA AdvanceFacts ==
  ASSUME NEW p, IsPager(p), NEW a, Len(p.items \o a.items) \in Nat
  PROVE  IsAdvance(p, a, advance(p, a))
<1>0. PICK r, n, q :
        /\ r = advance(p, a) /\ n = Len(a.items)
        /\ q = [p EXCEPT !.items = @ \o a.items, !.pages = @ + 1]
  BY Zenon
<1> DEFINE over == a.last \/ n = 0 \/ (n < p.count /\ ~a.more)
           ref == IF p.by = "position" THEN p.ref + n ELSE a.items[1].seq + n
<1>1. /\ IsPager(q) /\ q.by = p.by /\ q.from = p.from /\ q.items = p.items \o a.items
      /\ q.pc = p.pc /\ q.page = p.page
  BY Zenon, <1>0 DEF IsPager
<1>2. r = CASE Len(q.items) >= MaxItems -> Stop(q, TRUE)
            [] Len(q.items) < MaxItems /\ over -> Stop(q, FALSE)
            [] OTHER -> [q EXCEPT !.ref = ref, !.count = p.page]
  BY Zenon, <1>0 DEF advance
<1>3. Len(q.items) < MaxItems <=> ~(Len(q.items) >= MaxItems)
  <2>1. \A x \in Nat : x < MaxItems <=> ~(x >= MaxItems)
    BY LogAssumption
  <2> QED
    BY Zenon, <1>1, <2>1
<1>4. \/ r = Stop(q, TRUE)
      \/ r = Stop(q, FALSE) /\ over
      \/ r = [q EXCEPT !.ref = ref, !.count = p.page] /\ ~over
  BY Zenon, <1>2, <1>3
<1> SUFFICES IsAdvance(p, a, r)
  BY Zenon, <1>0
<1> HIDE DEF over, ref
<1>5. CASE r = Stop(q, TRUE)
  <2>1. /\ IsPager(r) /\ r.by = q.by /\ r.from = q.from /\ r.items = q.items
        /\ r.pc = "done" /\ r.partial = TRUE
    BY Zenon, <1>1, <1>5 DEF Stop, IsPager
  <2> QED
    BY Zenon, <1>1, <2>1 DEF IsAdvance
<1>6. CASE r = Stop(q, FALSE) /\ over
  <2>1. /\ IsPager(r) /\ r.by = q.by /\ r.from = q.from /\ r.items = q.items
        /\ r.pc = "done"
    BY Zenon, <1>1, <1>6 DEF Stop, IsPager
  <2> QED
    BY Zenon, <1>0, <1>1, <1>6, <2>1 DEF IsAdvance, over
<1>7. CASE r = [q EXCEPT !.ref = ref, !.count = p.page] /\ ~over
  <2>1. /\ IsPager(r) /\ r.by = q.by /\ r.from = q.from /\ r.items = q.items
        /\ r.pc = q.pc /\ r.page = q.page /\ r.ref = ref /\ r.count = p.page
    BY Zenon, <1>1, <1>7 DEF IsPager
  <2> QED
    BY Zenon, <1>0, <1>1, <1>7, <2>1 DEF IsAdvance, over, ref
<1> QED
  BY Zenon, <1>4, <1>5, <1>6, <1>7

\* A paging that stops at a limit or at an error claims nothing.
LEMMA StopKept ==
  ASSUME LogInv, pager.pc = "page", pager' = Stop(pager, TRUE),
         UNCHANGED <<clock, records, total, polling, dropped, began>>
  PROVE  LogInv'
<1>1. /\ IsPager(pager') /\ pager'.by = pager.by /\ pager'.from = pager.from
      /\ pager'.items = pager.items /\ pager'.pc = "done" /\ pager'.partial = TRUE
  BY Zenon DEF Stop, IsPager, LogInv, LogTypes
<1>2. pager.pc # "idle" /\ pager'.pc # "idle" /\ pager'.pc # "page"
  BY Zenon, <1>1
<1>3. LogTypes' /\ Grown'
  BY Zenon, <1>1 DEF LogInv, LogTypes, Grown
<1>4. Paging' /\ Ordered'
  BY Zenon, <1>1, <1>2 DEF LogInv, Paging, Ordered
<1>5. Contiguous'
  <2>1. Offset' = Offset /\ (Claimed' <=> Claimed)
    BY Zenon, <1>1 DEF Offset, Claimed
  <2> QED
    BY Zenon, <1>1, <1>2, <2>1 DEF LogInv, Contiguous
<1> QED
  BY Zenon, <1>3, <1>4, <1>5 DEF LogInv

\* One page more.
LEMMA AdvanceKept ==
  ASSUME LogInv, pager.pc = "page",
         pager' = advance(pager, readRange(pager.by, pager.ref, pager.count)),
         UNCHANGED <<clock, records, total, polling, dropped, began>>
  PROVE  LogInv'
<1>0. PICK by, ref, count, from, items, a, xs, L, n, s, f, b :
        /\ by = pager.by /\ ref = pager.ref /\ count = pager.count /\ from = pager.from
        /\ items = pager.items /\ a = readRange(by, ref, count) /\ xs = a.items
        /\ L = Len(items) /\ n = Len(xs) /\ s = Start(by, ref) /\ f = From(by, ref)
        /\ b = total - Len(records)
  BY Zenon
<1>1. /\ Numbered(records, total) /\ IsPager(pager) /\ items \in Seq(Samples)
      /\ began \in Seq(Samples)
  BY Zenon, <1>0 DEF LogInv, LogTypes
<1>2. /\ by \in {"position", "sequence"} /\ from \in Nat \ {0} /\ ref \in Nat \ {0}
      /\ count \in Nat \ {0} /\ pager.page \in Nat \ {0} /\ pager.pc # "idle"
  BY <1>0 DEF LogInv, Paging
<1>3. /\ xs \in Seq(Samples) /\ n \in Nat
      /\ \A i \in 1 .. n : f + i \in 1 .. Len(records) /\ xs[i] = records[f + i]
      /\ n > 0 => Fit > 0
      /\ s >= 0 /\ Fit > 0 /\ (a.last \/ n = 0 \/ (n < count /\ ~a.more)) => Len(records) <= s + n
  <2>1. IsPage(by, ref, count, a)
    BY Zenon, <1>0, <1>1, <1>2, PageFacts
  <2> QED
    BY Zenon, <1>0, <2>1 DEF IsPage
<1>4. /\ b \in Nat /\ Len(records) \in Nat /\ total \in Nat /\ b + Len(records) = total
      /\ \A i \in 1 .. Len(records) : records[i].seq = b + i
  <2>1. /\ b \in Nat /\ Len(records) \in Nat /\ total \in Nat
        /\ \A i \in 1 .. Len(records) : records[i].seq = b + i
    BY Zenon, <1>0, <1>1, NumberedFacts
  <2> QED
    BY <1>0, <2>1
<1>5. /\ s \in Int /\ f \in Nat /\ s <= f /\ (s >= 0 => f = s)
      /\ by = "position" => s = ref - 1 /\ s >= 0
      /\ by = "sequence" => s = (ref - b) - 1
  BY <1>0, <1>2, <1>4 DEF Start, From
<1>6. /\ items \o xs \in Seq(Samples) /\ Len(items \o xs) = L + n /\ L \in Nat
      /\ \A i \in 1 .. L + n : (items \o xs)[i] = IF i <= L THEN items[i] ELSE xs[i - L]
  <2>1. L \in Nat
    BY <1>0, <1>1
  <2>2. /\ items \o xs \in Seq(Samples) /\ Len(items \o xs) = Len(items) + Len(xs)
        /\ \A i \in 1 .. Len(items) + Len(xs) :
             (items \o xs)[i] = IF i <= Len(items) THEN items[i] ELSE xs[i - Len(items)]
    BY Zenon, <1>1, <1>3, SeqConcat
  <2> QED
    BY Zenon, <1>0, <2>1, <2>2
<1>7. IsAdvance(pager, a, pager')
  <2>1. L + n \in Nat
    BY <1>3, <1>6
  <2> QED
    BY Zenon, <1>0, <1>1, <1>6, <2>1, AdvanceFacts
<1>8. /\ IsPager(pager') /\ pager'.by = by /\ pager'.from = from /\ pager'.items = items \o xs
      /\ \/ pager'.pc = "done" /\ pager'.partial
         \/ pager'.pc = "done" /\ (a.last \/ n = 0 \/ (n < count /\ ~a.more))
         \/ /\ pager'.pc = "page" /\ pager'.count = pager.page /\ pager'.page = pager.page /\ n # 0
            /\ pager'.ref = IF by = "position" THEN ref + n ELSE xs[1].seq + n
  BY Zenon, <1>0, <1>7 DEF IsAdvance
<1>9. pager'.pc \in {"page", "done"} /\ pager'.pc # "idle"
  BY <1>8
<1>10. ASSUME NEW j \in 1 .. n
       PROVE  /\ xs[j].seq = (b + f) + j /\ xs[j].seq <= total
              /\ by = "sequence" => ref <= xs[j].seq
  <2>1. f + j \in 1 .. Len(records) /\ xs[j].seq = b + (f + j)
    BY Zenon, <1>3, <1>4
  <2>2. b + (f + j) = (b + f) + j /\ b + (f + j) <= total
    BY <1>3, <1>4, <1>5, <2>1
  <2>3. by = "sequence" => ref <= b + (f + j)
    BY <1>2, <1>3, <1>4, <1>5
  <2> QED
    BY Zenon, <2>1, <2>2, <2>3
<1>11. pager'.pc = "page" => /\ pager'.ref \in Nat \ {0} /\ 1 \in 1 .. n
                             /\ pager'.ref = IF by = "position" THEN ref + n ELSE ((b + f) + 1) + n
  <2> SUFFICES ASSUME pager'.pc = "page"
               PROVE  /\ pager'.ref \in Nat \ {0} /\ 1 \in 1 .. n
                      /\ pager'.ref = IF by = "position" THEN ref + n ELSE ((b + f) + 1) + n
    BY Zenon
  <2>1. n # 0 /\ pager'.ref = IF by = "position" THEN ref + n ELSE xs[1].seq + n
    BY <1>8
  <2>2. 1 \in 1 .. n
    BY <1>3, <2>1
  <2>3. pager'.ref = IF by = "position" THEN ref + n ELSE ((b + f) + 1) + n
    BY Zenon, <1>10, <2>1, <2>2
  <2>4. ref + n \in Nat \ {0} /\ ((b + f) + 1) + n \in Nat \ {0}
    BY <1>2, <1>3, <1>4, <1>5
  <2> QED
    BY Zenon, <2>2, <2>3, <2>4
<1>12. LogTypes' /\ Grown'
  BY Zenon, <1>1, <1>6, <1>8, <1>9 DEF LogInv, LogTypes, Grown
<1>13. items \o xs # <<>> => Fit > 0
  <2>1. items \o xs # <<>> => L > 0 \/ n > 0
    BY <1>3, <1>6
  <2>2. L > 0 => items # <<>>
    BY <1>0, <1>1
  <2> QED
    BY Zenon, <1>0, <1>3, <2>1, <2>2 DEF LogInv, Paging
<1>14. Paging'
  BY Zenon, <1>2, <1>8, <1>9, <1>11, <1>13 DEF Paging
<1>15. ASSUME NEW i \in 1 .. L + n
       PROVE  \/ i \in 1 .. L /\ (items \o xs)[i] = items[i]
              \/ i - L \in 1 .. n /\ (items \o xs)[i] = xs[i - L]
  <2>1. (i <= L => i \in 1 .. L) /\ (~(i <= L) => i - L \in 1 .. n)
    BY <1>3, <1>6
  <2> QED
    BY Zenon, <1>6, <2>1
<1>16. ASSUME NEW i \in 1 .. L
       PROVE  /\ items[i].seq \in Nat /\ items[i].seq <= total
              /\ by = "sequence" => items[i].seq < ref
              /\ by = "position" => \A p \in 1 .. Len(records) : p >= ref => items[i].seq < records[p].seq
              /\ \A j \in 1 .. n : items[i].seq < xs[j].seq
  <2>1. /\ items[i].seq <= total
        /\ by = "sequence" => items[i].seq < ref
        /\ by = "position" => \A p \in 1 .. Len(records) : p >= ref => items[i].seq < records[p].seq
    BY Zenon, <1>0 DEF LogInv, Ordered
  <2>2. items[i].seq \in Nat
    <3>1. items[i] \in Samples
      BY <1>0, <1>1
    <3> QED
      BY Zenon, <3>1 DEF Samples
  <2>3. ASSUME NEW j \in 1 .. n PROVE items[i].seq < xs[j].seq
    <3>1. CASE by = "position"
      <4>1. f + j \in 1 .. Len(records) /\ xs[j] = records[f + j]
        BY Zenon, <1>3
      <4>2. f + j >= ref
        BY <1>2, <1>3, <1>5, <3>1
      <4> QED
        BY Zenon, <2>1, <3>1, <4>1, <4>2
    <3>2. CASE by = "sequence"
      <4>1. ref <= xs[j].seq /\ items[i].seq < ref /\ xs[j].seq = (b + f) + j
        BY Zenon, <1>10, <2>1, <3>2
      <4>2. (b + f) + j \in Nat
        BY <1>3, <1>4, <1>5
      <4>3. \A x, y \in Nat : x < ref /\ ref <= y => x < y
        BY <1>2
      <4> QED
        BY Zenon, <2>2, <4>1, <4>2, <4>3
    <3> QED
      BY Zenon, <1>2, <3>1, <3>2
  <2> QED
    BY Zenon, <2>1, <2>2, <2>3
<1>17. ASSUME NEW i \in 1 .. n, NEW j \in 1 .. n, i < j PROVE xs[i].seq < xs[j].seq
  <2>1. (b + f) + i < (b + f) + j
    BY <1>3, <1>4, <1>5, <1>17
  <2> QED
    BY Zenon, <1>10, <2>1
<1>18. Ordered'
  <2>1. ASSUME NEW i \in 1 .. L + n, NEW j \in 1 .. L + n, i < j
        PROVE  (items \o xs)[i].seq < (items \o xs)[j].seq
    <3>1. CASE i \in 1 .. L /\ j \in 1 .. L
      <4>1. (items \o xs)[i] = items[i] /\ (items \o xs)[j] = items[j]
        <5>1. i <= L /\ j <= L
          BY <1>6, <3>1
        <5> QED
          BY Zenon, <1>6, <5>1
      <4> QED
        BY Zenon, <1>0, <2>1, <3>1, <4>1 DEF LogInv, Ordered
    <3>2. CASE i \in 1 .. L /\ j \notin 1 .. L
      <4>1. (items \o xs)[i] = items[i]
        <5>1. i <= L
          BY <1>6, <3>2
        <5> QED
          BY Zenon, <1>6, <5>1
      <4> QED
        BY Zenon, <1>15, <1>16, <3>2, <4>1
    <3>3. CASE i \notin 1 .. L
      <4>1. ~(i <= L) /\ ~(j <= L) /\ i - L \in 1 .. n /\ j - L \in 1 .. n /\ i - L < j - L
        BY <1>3, <1>6, <2>1, <3>3
      <4>2. (items \o xs)[i] = xs[i - L] /\ (items \o xs)[j] = xs[j - L]
        BY Zenon, <1>6, <4>1
      <4> QED
        BY Zenon, <1>17, <4>1, <4>2
    <3> QED
      BY Zenon, <3>1, <3>2, <3>3
  <2>2. ASSUME NEW i \in 1 .. L + n
        PROVE  (items \o xs)[i].seq <= total
    BY Zenon, <1>10, <1>15, <1>16
  <2>3. ASSUME pager'.pc = "page", by = "sequence", NEW i \in 1 .. L + n
        PROVE  (items \o xs)[i].seq < pager'.ref
    <3>1. pager'.ref = ((b + f) + 1) + n /\ 1 \in 1 .. n
      <4>1. by # "position"
        BY <2>3
      <4> QED
        BY Zenon, <1>11, <2>3, <4>1
    <3>2. CASE i \in 1 .. L /\ (items \o xs)[i] = items[i]
      <4>1. items[i].seq < xs[1].seq /\ xs[1].seq = (b + f) + 1 /\ items[i].seq \in Nat
        BY Zenon, <1>10, <1>16, <3>1, <3>2
      <4>2. \A x \in Nat : x < (b + f) + 1 => x < ((b + f) + 1) + n
        BY <1>3, <1>4, <1>5
      <4> QED
        BY Zenon, <3>1, <3>2, <4>1, <4>2
    <3>3. CASE i - L \in 1 .. n /\ (items \o xs)[i] = xs[i - L]
      <4>1. xs[i - L].seq = (b + f) + (i - L)
        BY Zenon, <1>10, <3>3
      <4>2. (b + f) + (i - L) < ((b + f) + 1) + n
        BY <1>3, <1>4, <1>5, <1>6, <3>3
      <4> QED
        BY Zenon, <3>1, <3>3, <4>1, <4>2
    <3> QED
      BY Zenon, <1>15, <3>2, <3>3
  <2>4. ASSUME pager'.pc = "page", by = "position", NEW i \in 1 .. L + n,
               NEW p \in 1 .. Len(records), p >= pager'.ref
        PROVE  (items \o xs)[i].seq < records[p].seq
    <3>1. pager'.ref = ref + n /\ f = ref - 1
      BY Zenon, <1>5, <1>11, <2>4
    <3>2. p >= ref /\ p >= ref + n
      BY <1>2, <1>3, <1>4, <2>4, <3>1
    <3>3. CASE i \in 1 .. L /\ (items \o xs)[i] = items[i]
      BY Zenon, <1>16, <2>4, <3>2, <3>3
    <3>4. CASE i - L \in 1 .. n /\ (items \o xs)[i] = xs[i - L]
      <4>1. xs[i - L].seq = (b + f) + (i - L) /\ records[p].seq = b + p
        BY Zenon, <1>4, <1>10, <3>4
      <4>2. (b + f) + (i - L) < b + p
        BY <1>2, <1>3, <1>4, <1>6, <3>1, <3>2, <3>4
      <4> QED
        BY Zenon, <3>4, <4>1, <4>2
    <3> QED
      BY Zenon, <1>15, <3>3, <3>4
  <2> QED
    BY Zenon, <1>6, <1>8, <2>1, <2>2, <2>3, <2>4 DEF Ordered
<1>19. ASSUME ~dropped, Claimed
       PROVE  /\ Offset \in Nat /\ s = Offset + L /\ f = Offset + L /\ ref = from + L
              /\ \A i \in 1 .. L : Offset + i \in 1 .. Len(records) /\ items[i] = records[Offset + i]
              /\ pager'.pc = "page" => pager'.ref = from + (L + n)
  <2>1. PICK o : o = Offset /\ o \in Nat /\ (by = "sequence" => o = (from - b) - 1)
    BY Zenon, <1>0, <1>2, <1>19, OffsetType
  <2>2. /\ ref = from + L
        /\ \A i \in 1 .. L : o + i \in 1 .. Len(records) /\ items[i] = records[o + i]
    BY Zenon, <1>0, <1>2, <1>19, <2>1 DEF LogInv, Contiguous
  <2>3. by = "position" => o = from - 1
    BY Zenon, <1>0, <2>1 DEF Offset
  <2>4. s = o + L /\ f = o + L
    <3>1. CASE by = "position"
      <4>1. s = ref - 1 /\ o = from - 1
        BY Zenon, <1>5, <2>3, <3>1
      <4> QED
        BY <1>2, <1>5, <1>6, <2>1, <2>2, <4>1
    <3>2. CASE by = "sequence"
      <4>1. s = (ref - b) - 1 /\ o = (from - b) - 1
        BY Zenon, <1>5, <2>1, <3>2
      <4> QED
        BY <1>2, <1>4, <1>5, <1>6, <2>1, <2>2, <4>1
    <3> QED
      BY Zenon, <1>2, <3>1, <3>2
  <2>5. ref + n = from + (L + n) /\ (by = "sequence" => ((b + f) + 1) + n = from + (L + n))
    BY <1>2, <1>3, <1>4, <1>6, <2>1, <2>2, <2>4
  <2>6. pager'.pc = "page" => pager'.ref = from + (L + n)
    BY Zenon, <1>2, <1>11, <2>5
  <2> QED
    BY Zenon, <2>1, <2>2, <2>4, <2>6
<1>20. Contiguous'
  <2>1. Offset' = Offset /\ (Claimed' <=> Claimed)
    BY Zenon, <1>0, <1>8 DEF Offset, Claimed
  <2> SUFFICES ASSUME ~dropped, Claimed
               PROVE  /\ \A i \in 1 .. L + n : /\ Offset + i \in 1 .. Len(records)
                                               /\ (items \o xs)[i] = records[Offset + i]
                      /\ pager'.pc = "page" => pager'.ref = from + (L + n)
                      /\ pager'.pc = "done" /\ ~pager'.partial /\ items \o xs # <<>> =>
                           Len(began) <= Offset + (L + n)
    BY Zenon, <1>6, <1>8, <2>1 DEF Contiguous
  <2>2. ASSUME NEW i \in 1 .. L + n
        PROVE  Offset + i \in 1 .. Len(records) /\ (items \o xs)[i] = records[Offset + i]
    <3>1. CASE i - L \in 1 .. n /\ (items \o xs)[i] = xs[i - L]
      <4>1. f + (i - L) \in 1 .. Len(records) /\ xs[i - L] = records[f + (i - L)]
        BY Zenon, <1>3, <3>1
      <4>2. f + (i - L) = Offset + i
        BY <1>3, <1>6, <1>19
      <4> QED
        BY Zenon, <3>1, <4>1, <4>2
    <3> QED
      BY Zenon, <1>15, <1>19, <3>1
  <2>3. ASSUME pager'.pc = "done", ~pager'.partial, items \o xs # <<>>
        PROVE  Len(began) <= Offset + (L + n)
    <3>1. a.last \/ n = 0 \/ (n < count /\ ~a.more)
      BY <1>8, <2>3
    <3>2. Len(records) <= s + n
      <4>1. s >= 0
        BY <1>6, <1>19
      <4> QED
        BY Zenon, <1>3, <1>13, <2>3, <3>1, <4>1
    <3>3. Len(began) <= Len(records) /\ Len(began) \in Nat
      <4>1. Len(began) \in Nat
        BY <1>1
      <4> QED
        BY Zenon, <1>19, <4>1 DEF LogInv, Grown
    <3> QED
      BY <1>3, <1>4, <1>6, <1>19, <3>2, <3>3
  <2> QED
    BY Zenon, <1>19, <2>2, <2>3
<1> QED
  BY Zenon, <1>12, <1>14, <1>18, <1>20 DEF LogInv

\* A paging begins with nothing read and the log as it is.
LEMMA PagerBeginKept ==
  ASSUME LogInv, PagerBegin
  PROVE  LogInv'
<1>1. PICK by \in {"position", "sequence"}, ref \in 1 .. 2, count \in {0} \cup PageCounts,
           page \in PageCounts :
        /\ pager' = [NoPager EXCEPT !.pc = "page", !.by = by, !.from = ref, !.ref = ref,
                                    !.page = page, !.count = IF count = 0 THEN page ELSE count]
        /\ dropped' = FALSE /\ began' = records /\ UNCHANGED <<clock, records, total, polling>>
  BY Zenon DEF PagerBegin
<1>2. /\ IsPager(pager') /\ pager'.pc = "page" /\ pager'.by = by /\ pager'.from = ref
      /\ pager'.ref = ref /\ pager'.page = page /\ pager'.items = <<>>
      /\ pager'.count = IF count = 0 THEN page ELSE count
  BY Zenon, <1>1 DEF NoPager, IsPager
<1>3. /\ ref \in Nat \ {0} /\ page \in Nat \ {0} /\ (count # 0 => count \in Nat \ {0})
      /\ <<>> \in Seq(Samples) /\ Len(<<>>) = 0 /\ 1 .. 0 = {} /\ ref = ref + 0
  BY LogAssumption
<1>4. records \in Seq(Samples) /\ Len(records) \in Nat /\ Len(records) <= Len(records)
  <2>1. records \in Seq(Samples)
    BY Zenon DEF LogInv, LogTypes, Numbered
  <2> QED
    BY <2>1
<1>5. LogTypes' /\ Grown'
  BY Zenon, <1>1, <1>2, <1>3, <1>4 DEF LogInv, LogTypes, Grown
<1>6. Paging'
  BY Zenon, <1>2, <1>3 DEF Paging
<1>7. Ordered' /\ Contiguous'
  BY Zenon, <1>2, <1>3 DEF Ordered, Contiguous
<1> QED
  BY Zenon, <1>5, <1>6, <1>7 DEF LogInv

\* A step that leaves the records alone.
LEMMA LogRests ==
  ASSUME LogInv, UNCHANGED <<records, total, dropped, pager, began>>, clock' \in Nat, polling' \in Nat
  PROVE  LogInv'
  BY Zenon DEF LogInv, LogTypes, Numbered, Grown, Paging, Ordered, Contiguous, Offset, Claimed

\* A write of Record_Count empties the log.
LEMMA EmptyKept ==
  ASSUME LogInv, WriteRecordCount
  PROVE  LogInv'
<1>1. records' = <<>> /\ dropped' = TRUE /\ UNCHANGED <<clock, total, polling, pager, began>>
  BY Zenon DEF WriteRecordCount
<1>2. total \in Nat /\ total <= total
  <2>1. total \in Nat
    BY Zenon DEF LogInv, LogTypes, Numbered
  <2> QED
    BY <2>1
<1>3. Numbered(<<>>, total) /\ 1 .. Len(<<>>) = {}
  BY <1>2 DEF Numbered
<1>4. clock' \in Nat /\ polling' \in Nat
  BY Zenon, <1>1 DEF LogInv, LogTypes
<1> QED
  BY Zenon, <1>1, <1>2, <1>3, <1>4, LogMoves

\* Every step of the log and of the client that pages through it keeps the invariant.
LEMMA LogStepKept ==
  ASSUME LogInv, LogNext
  PROVE  LogInv'
<1>0. clock \in Nat /\ polling \in Nat /\ clock + 1 \in Nat /\ 0 \in Nat
  <2>1. clock \in Nat /\ polling \in Nat
    BY Zenon DEF LogInv, LogTypes
  <2> QED
    BY <2>1
<1>1. CASE LogRecord
  BY Zenon, <1>0, <1>1, LogKept DEF LogRecord
<1>2. CASE PollDue
  BY Zenon, <1>0, <1>2, LogRests DEF PollDue
<1>3. CASE PollLog
  BY Zenon, <1>0, <1>3, LogKept, LogRests DEF PollLog
<1>4. CASE \E b \in BOOLEAN : WriteEnable(b)
  BY Zenon, <1>0, <1>4, LogRests DEF WriteEnable
<1>5. CASE LogTick
  BY Zenon, <1>0, <1>5, LogRests DEF LogTick
<1>6. CASE Page
  BY Zenon, <1>6, StopKept, AdvanceKept DEF Page
<1>7. CASE PageError
  BY Zenon, <1>7, StopKept DEF PageError
<1> QED
  BY Zenon, <1>1, <1>2, <1>3, <1>4, <1>5, <1>6, <1>7, EmptyKept, PagerBeginKept DEF LogNext

\* TrendLog.ReadRange and the client's ReadRangeAll, while the log goes on recording: each range
\* holds the records that were asked for; the records a paging returns are in order and none comes
\* twice; and one that reports completion returned every record from its first one to the newest
\* there was when it began, if none left the log meanwhile and its reference had not left before.
THEOREM PagesAreCovered == Spec => []PagesCover
<1>1. Init => LogInv
  <2> SUFFICES ASSUME Init PROVE LogInv
    OBVIOUS
  <2>1. /\ clock = 1 /\ records = <<>> /\ total = 0 /\ polling = 0 /\ pager = NoPager
        /\ dropped = FALSE /\ began = <<>>
    BY Zenon DEF Init, LogInit
  <2>2. /\ IsPager(pager) /\ pager.pc = "idle" /\ pager.items = <<>>
    BY Zenon, <2>1 DEF NoPager, IsPager
  <2>3. /\ 1 \in Nat /\ 0 \in Nat /\ <<>> \in Seq(Samples) /\ Len(<<>>) = 0 /\ 0 <= 0 /\ 1 .. 0 = {}
    OBVIOUS
  <2>4. Numbered(records, total)
    BY Zenon, <2>1, <2>3 DEF Numbered
  <2> QED
    BY Zenon, <2>1, <2>2, <2>3, <2>4 DEF LogInv, LogTypes, Grown, Paging, Ordered, Contiguous
<1>2. LogInv /\ [Next]_vars => LogInv'
  <2> SUFFICES ASSUME LogInv, [Next]_vars PROVE LogInv'
    OBVIOUS
  <2>1. CASE LogNext
    BY Zenon, <2>1, LogStepKept
  <2>2. CASE UNCHANGED logVars
    <3>1. UNCHANGED <<records, total, dropped, pager, began, clock, polling>>
      BY Zenon, <2>2 DEF logVars
    <3>2. clock' \in Nat /\ polling' \in Nat
      BY Zenon, <3>1 DEF LogInv, LogTypes
    <3> QED
      BY Zenon, <3>1, <3>2, LogRests
  <2> QED
    BY Zenon, <2>1, <2>2 DEF Next, TableStep, PointStep, ScheduleStep, LogStep, FileStep,
         BatchStep, vars
<1> QED
  BY <1>1, <1>2, LogParts, PTL DEF Spec

(***************************************************************************)
(* Batched services: what a call gathers and sends.                        *)
(***************************************************************************)
\* The units of a request: a specification and a place in it.
Units == Nat \X Nat

\* The units of a read of w specifications: each once, and the ones of a
\* specification in the order of their places.
Proper(units, w) ==
  /\ units \in Seq(Units)
  /\ \A j \in 1 .. Len(units) : units[j][1] \in 1 .. w /\ units[j][2] \in Nat \ {0}
  /\ \A j, l \in 1 .. Len(units) : units[j] = units[l] => j = l
  /\ \A j \in 1 .. Len(units) : units[j][2] # 1 =>
       \E l \in 1 .. j - 1 : units[l] = <<units[j][1], units[j][2] - 1>>

\* The results of the first d units, each at its place.
Placed(out, units, d) ==
  /\ \A i \in 1 .. Len(out) : \A k \in 1 .. Len(out[i]) :
       out[i][k] = <<i, k>> /\ \E j \in 1 .. d : units[j] = <<i, k>>
  /\ \A j \in 1 .. d : units[j][1] \in 1 .. Len(out) /\ units[j][2] \in 1 .. Len(out[units[j][1]])

\* A result is appended to those of its specification at its own place: the
\* one before it is there, and it is not.
LEMMA AddPlaced ==
  ASSUME NEW units, NEW out \in Seq(Seq(Units)), Proper(units, Len(out)),
         NEW d \in Nat, d + 1 \in 1 .. Len(units), Placed(out, units, d)
  PROVE  /\ addResult(out, units[d + 1]) \in Seq(Seq(Units))
         /\ Len(addResult(out, units[d + 1])) = Len(out)
         /\ Placed(addResult(out, units[d + 1]), units, d + 1)
<1> DEFINE u == units[d + 1]
           m == u[1]
           x == Append(out[m], u)
           r == addResult(out, u)
<1>1. /\ units \in Seq(Units) /\ u \in Units /\ m \in 1 .. Len(out) /\ u[2] \in Nat \ {0}
      /\ Len(out) \in Nat /\ Len(units) \in Nat
  BY SMTT(30) DEF Proper
<1>2. u = <<m, u[2]>>
  BY <1>1 DEF Units
<1>3. out[m] \in Seq(Units) /\ Len(out[m]) \in Nat
  BY <1>1
<1>0. addResult(out, u) = [out EXCEPT ![m] = Append(out[m], u)]
  BY DEF addResult
<1> HIDE DEF u, m
<1>4. /\ x \in Seq(Units) /\ Len(x) = Len(out[m]) + 1 /\ x[Len(out[m]) + 1] = u
      /\ \A i \in 1 .. Len(out[m]) : x[i] = out[m][i]
  <2> DEFINE y == out[m]
  <2>1. y \in Seq(Units) /\ u \in Units
    BY Zenon, <1>1, <1>3
  <2> HIDE DEF y
  <2>2. /\ Append(y, u) \in Seq(Units) /\ Len(Append(y, u)) = Len(y) + 1
        /\ Append(y, u)[Len(y) + 1] = u
        /\ \A i \in 1 .. Len(y) : Append(y, u)[i] = y[i]
    BY <2>1, SMTT(30)
  <2> QED
    BY Zenon, <2>2 DEF y
<1>5. r = [out EXCEPT ![m] = x]
  BY Zenon, <1>0
<1> HIDE DEF r, x
<1>6. /\ r \in Seq(Seq(Units)) /\ Len(r) = Len(out) /\ r[m] = x
      /\ \A i \in 1 .. Len(out) : i # m => r[i] = out[i]
  <2> DEFINE T == Seq(Units)
  <2>1. out \in Seq(T) /\ m \in 1 .. Len(out) /\ x \in T
    BY Zenon, <1>1, <1>4
  <2> HIDE DEF T
  <2>2. /\ [out EXCEPT ![m] = x] \in Seq(T) /\ Len([out EXCEPT ![m] = x]) = Len(out)
        /\ [out EXCEPT ![m] = x][m] = x
        /\ \A i \in 1 .. Len(out) : i # m => [out EXCEPT ![m] = x][i] = out[i]
    BY <2>1, SMTT(30)
  <2> QED
    BY Zenon, <2>2, <1>5 DEF T
<1>7. ~(u[2] <= Len(out[m]))
  <2> SUFFICES ASSUME u[2] <= Len(out[m]) PROVE FALSE
    OBVIOUS
  <2>1. u[2] \in 1 .. Len(out[m])
    BY <1>1, <1>3
  <2>2. PICK j \in 1 .. d : units[j] = <<m, u[2]>>
    BY Zenon, <1>1, <2>1 DEF Placed
  <2>3. units[j] = units[d + 1]
    BY Zenon, <1>2, <2>2 DEF u
  <2>4. j \in 1 .. Len(units) /\ j # d + 1
    BY <1>1
  <2> QED
    BY Zenon, <2>3, <2>4 DEF Proper
<1>8. u[2] # 1 => u[2] - 1 <= Len(out[m])
  <2> SUFFICES ASSUME u[2] # 1 PROVE u[2] - 1 <= Len(out[m])
    OBVIOUS
  <2>1. PICK l \in 1 .. (d + 1) - 1 : units[l] = <<m, u[2] - 1>>
    BY Zenon DEF Proper, u, m
  <2>2. l \in 1 .. d
    OBVIOUS
  <2>3. units[l][1] = m /\ units[l][2] = u[2] - 1
    <3>1. \A a, b : <<a, b>>[1] = a /\ <<a, b>>[2] = b
      OBVIOUS
    <3> QED
      BY <2>1, <3>1
  <2>4. u[2] - 1 \in 1 .. Len(out[m])
    BY Zenon, <2>2, <2>3 DEF Placed
  <2> QED
    BY <2>4, <1>1, <1>3
<1>9. u[2] = Len(out[m]) + 1
  <2>1. \A a, b \in Nat : ~(a <= b) /\ a # 0 /\ (a # 1 => a - 1 <= b) => a = b + 1
    OBVIOUS
  <2>2. u[2] \in Nat /\ u[2] # 0
    BY <1>1
  <2> QED
    BY Zenon, <1>3, <1>7, <1>8, <2>1, <2>2
<1>10. ASSUME NEW i \in 1 .. Len(r), NEW k \in 1 .. Len(r[i])
       PROVE  r[i][k] = <<i, k>> /\ \E j \in 1 .. d + 1 : units[j] = <<i, k>>
  <2>1. i \in 1 .. Len(out) /\ d + 1 \in 1 .. d + 1 /\ \A j \in 1 .. d : j \in 1 .. d + 1
    BY <1>6
  <2>2. CASE i # m
    <3>1. r[i] = out[i]
      BY Zenon, <1>6, <2>1, <2>2
    <3>2. k \in 1 .. Len(out[i])
      BY Zenon, <3>1
    <3> QED
      BY Zenon, <3>1, <3>2, <2>1 DEF Placed
  <2>3. CASE i = m /\ k # Len(out[m]) + 1
    <3>1. k \in 1 .. Len(out[m])
      <4>1. k \in 1 .. Len(out[m]) + 1
        BY Zenon, <1>4, <1>6, <2>3
      <4> QED
        <5>1. \A a \in Nat : \A b \in 1 .. a + 1 : b # a + 1 => b \in 1 .. a
          OBVIOUS
        <5> QED
          BY Zenon, <4>1, <5>1, <2>3, <1>3
    <3>2. r[i][k] = out[i][k]
      BY Zenon, <3>1, <1>4, <1>6, <2>3
    <3> QED
      BY Zenon, <3>1, <3>2, <2>1, <2>3 DEF Placed
  <2>4. CASE i = m /\ k = Len(out[m]) + 1
    <3>1. r[i][k] = u /\ u = <<i, k>>
      BY Zenon, <1>2, <1>4, <1>6, <1>9, <2>4
    <3>2. units[d + 1] = <<i, k>>
      BY Zenon, <3>1 DEF u
    <3> QED
      BY Zenon, <3>1, <3>2, <2>1
  <2> QED
    BY Zenon, <2>2, <2>3, <2>4
<1>11. ASSUME NEW j \in 1 .. d + 1
       PROVE  units[j][1] \in 1 .. Len(r) /\ units[j][2] \in 1 .. Len(r[units[j][1]])
  <2>1. CASE j = d + 1
    <3>1. u[2] \in 1 .. Len(x)
      BY <1>1, <1>3, <1>4, <1>9
    <3> QED
      BY Zenon, <3>1, <2>1, <1>1, <1>6 DEF u, m
  <2>2. CASE j \in 1 .. d
    <3> DEFINE q == units[j][1]
    <3>1. q \in 1 .. Len(out) /\ units[j][2] \in 1 .. Len(out[q])
      BY Zenon, <2>2 DEF Placed
    <3>2. 1 .. Len(out[m]) \subseteq 1 .. Len(x)
      BY <1>3, <1>4
    <3>3. q \in 1 .. Len(r)
      BY Zenon, <3>1, <1>6
    <3>4. 1 .. Len(out[q]) \subseteq 1 .. Len(r[q])
      <4>1. CASE q = m
        BY Zenon, <4>1, <3>2, <1>6
      <4>2. CASE q # m
        BY Zenon, <4>2, <3>1, <1>6
      <4> QED
        BY Zenon, <4>1, <4>2
    <3> QED
      BY Zenon, <3>1, <3>3, <3>4
  <2> QED
    BY <2>1, <2>2
<1> QED
  <2>1. Placed(r, units, d + 1)
    BY Zenon, <1>10, <1>11 DEF Placed
  <2> QED
    BY Zenon, <1>6, <2>1 DEF r, u

\* What the recursion of collect says of its result.
IsFold(out, us, N, g) ==
  g = [i \in 0 .. N |-> IF i = 0 THEN out ELSE addResult(g[i - 1], us[i])]

\* The loop over the results of a batch has a result.
LEMMA FoldExists ==
  ASSUME NEW out, NEW us, NEW N \in Nat
  PROVE  \E f : IsFold(out, us, N, f)
<1> DEFINE P == {n \in Nat : \E f : IsFold(out, us, n, f)}
<1>1. 0 \in P
  <2> DEFINE f == [i \in 0 .. 0 |-> out]
  <2>1. IsFold(out, us, 0, f)
    BY SMTT(30) DEF IsFold
  <2> QED
    BY Zenon, <2>1
<1>2. ASSUME NEW n \in Nat, n \in P PROVE n + 1 \in P
  <2>1. PICK f : IsFold(out, us, n, f)
    BY Zenon, <1>2
  <2> DEFINE g == [i \in 0 .. n + 1 |-> IF i = n + 1 THEN addResult(f[n], us[n + 1]) ELSE f[i]]
  <2>2. ASSUME NEW i \in 0 .. n + 1
        PROVE  g[i] = IF i = 0 THEN out ELSE addResult(g[i - 1], us[i])
    <3>1. CASE i = n + 1
      <4>1. i # 0 /\ i - 1 = n /\ n \in 0 .. n + 1 /\ n # n + 1
        BY <3>1
      <4> QED
        BY <3>1, <4>1
    <3>2. CASE i \in 0 .. n
      <4>1. f[i] = IF i = 0 THEN out ELSE addResult(f[i - 1], us[i])
        BY <2>1, <3>2 DEF IsFold
      <4>2. g[i] = f[i] /\ (i # 0 => g[i - 1] = f[i - 1])
        BY <3>2
      <4> QED
        BY <4>1, <4>2
    <3> QED
      BY <3>1, <3>2
  <2>3. IsFold(out, us, n + 1, g)
    BY Zenon, <2>2 DEF IsFold
  <2>4. n + 1 \in Nat
    OBVIOUS
  <2> HIDE DEF g
  <2> QED
    BY Zenon, <2>3, <2>4
<1>3. Nat \subseteq P
  <2> HIDE DEF P
  <2> QED
    BY Zenon, <1>1, <1>2, SetInduction
<1> QED
  BY <1>3

\* The results of a batch, added one after the other, are at their places.
LEMMA CollectPlaced ==
  ASSUME NEW units, NEW out \in Seq(Seq(Units)), Proper(units, Len(out)),
         NEW a \in Nat, NEW e \in a .. Len(units), Placed(out, units, a),
         NEW us, us = SubSeq(units, a + 1, e)
  PROVE  /\ collect(out, us) \in Seq(Seq(Units)) /\ Len(collect(out, us)) = Len(out)
         /\ Placed(collect(out, us), units, e)
<1>1. units \in Seq(Units) /\ Len(units) \in Nat
  BY DEF Proper
<1>2. /\ Len(us) = e - a /\ e - a \in Nat /\ a + (e - a) = e
      /\ \A i \in 1 .. e - a : us[i] = units[a + i]
  BY <1>1, SeqPiece
<1> DEFINE N == e - a
<1>3. collect(out, us) = (CHOOSE g : IsFold(out, us, N, g))[N]
  BY Zenon, <1>2 DEF collect, IsFold
<1>4. PICK g : IsFold(out, us, N, g) /\ g = CHOOSE f : IsFold(out, us, N, f)
  BY Zenon, <1>2, FoldExists
<1> DEFINE Good(n) == /\ g[n] \in Seq(Seq(Units)) /\ Len(g[n]) = Len(out)
                      /\ Placed(g[n], units, a + n)
           P == {n \in Nat : n \in 0 .. N => Good(n)}
<1>5. 0 \in P
  <2>1. g[0] = out /\ a + 0 = a
    BY <1>2, <1>4 DEF IsFold
  <2> QED
    BY <2>1
<1>6. ASSUME NEW n \in Nat, n \in P PROVE n + 1 \in P
  <2>0. n + 1 \in Nat
    OBVIOUS
  <2> SUFFICES ASSUME n + 1 \in 0 .. N PROVE Good(n + 1)
    BY Zenon, <2>0
  <2>1. /\ n \in 0 .. N /\ n + 1 \in 1 .. N /\ n + 1 # 0 /\ (n + 1) - 1 = n
        /\ a + n \in Nat /\ (a + n) + 1 \in 1 .. Len(units)
        /\ a + (n + 1) = (a + n) + 1
    BY <1>1, <1>2
  <2>2. Good(n)
    BY Zenon, <1>6, <2>1
  <2>3. g[n + 1] = addResult(g[n], us[n + 1])
    BY <1>4, <2>1 DEF IsFold
  <2>4. us[n + 1] = units[(a + n) + 1]
    BY Zenon, <1>2, <2>1
  <2>5. Proper(units, Len(g[n]))
    BY Zenon, <2>2
  <2>6. PICK o : o = g[n]
    OBVIOUS
  <2>7. PICK d : d = a + n
    OBVIOUS
  <2>8. /\ o \in Seq(Seq(Units)) /\ Len(o) = Len(out) /\ Placed(o, units, d)
        /\ Proper(units, Len(o)) /\ d \in Nat /\ d + 1 \in 1 .. Len(units)
    BY Zenon, <2>1, <2>2, <2>5, <2>6, <2>7
  <2>9. /\ addResult(o, units[d + 1]) \in Seq(Seq(Units))
        /\ Len(addResult(o, units[d + 1])) = Len(o)
        /\ Placed(addResult(o, units[d + 1]), units, d + 1)
    BY Zenon, <2>8, AddPlaced
  <2>10. g[n + 1] = addResult(o, units[d + 1]) /\ a + (n + 1) = d + 1
    BY Zenon, <2>1, <2>3, <2>4, <2>6, <2>7
  <2> QED
    BY Zenon, <2>8, <2>9, <2>10
<1>7. Nat \subseteq P
  <2> HIDE DEF P
  <2> QED
    BY Zenon, <1>5, <1>6, SetInduction
<1>8. N \in Nat /\ N \in 0 .. N
  BY <1>2
<1>9. Good(N)
  BY Zenon, <1>7, <1>8
<1> QED
  BY Zenon, <1>2, <1>3, <1>4, <1>9

\* The units of one specification more.
UnitsStep(spec, r, i) == r \o [k \in 1 .. spec[i] |-> <<i, k>>]

\* What the recursion of unitsOf says of its result.
IsUnits(x, spec, N, g) ==
  g = [i \in 0 .. N |-> IF i = 0 THEN x ELSE UnitsStep(spec, g[i - 1], i)]

\* The loop over the specifications has a result.
LEMMA UnitsExist ==
  ASSUME NEW x, NEW spec, NEW N \in Nat
  PROVE  \E f : IsUnits(x, spec, N, f)
<1> DEFINE P == {n \in Nat : \E f : IsUnits(x, spec, n, f)}
<1>1. 0 \in P
  <2> DEFINE f == [i \in 0 .. 0 |-> x]
  <2>1. IsUnits(x, spec, 0, f)
    BY SMTT(30) DEF IsUnits
  <2> QED
    BY Zenon, <2>1
<1>2. ASSUME NEW n \in Nat, n \in P PROVE n + 1 \in P
  <2>1. PICK f : IsUnits(x, spec, n, f)
    BY Zenon, <1>2
  <2> DEFINE g == [i \in 0 .. n + 1 |-> IF i = n + 1 THEN UnitsStep(spec, f[n], n + 1) ELSE f[i]]
  <2>2. ASSUME NEW i \in 0 .. n + 1
        PROVE  g[i] = IF i = 0 THEN x ELSE UnitsStep(spec, g[i - 1], i)
    <3>1. CASE i = n + 1
      <4>1. i # 0 /\ i - 1 = n /\ n \in 0 .. n + 1 /\ n # n + 1
        BY <3>1
      <4> QED
        BY <3>1, <4>1
    <3>2. CASE i \in 0 .. n
      <4>1. f[i] = IF i = 0 THEN x ELSE UnitsStep(spec, f[i - 1], i)
        BY <2>1, <3>2 DEF IsUnits
      <4>2. g[i] = f[i] /\ (i # 0 => g[i - 1] = f[i - 1])
        BY <3>2
      <4> QED
        BY <4>1, <4>2
    <3> QED
      BY <3>1, <3>2
  <2>3. IsUnits(x, spec, n + 1, g)
    BY Zenon, <2>2 DEF IsUnits
  <2>4. n + 1 \in Nat
    OBVIOUS
  <2> HIDE DEF g
  <2> QED
    BY Zenon, <2>3, <2>4
<1>3. Nat \subseteq P
  <2> HIDE DEF P
  <2> QED
    BY Zenon, <1>1, <1>2, SetInduction
<1> QED
  BY <1>3

\* The units of one specification more are new, and in order.
LEMMA UnitsStepProper ==
  ASSUME NEW r, NEW n \in Nat, NEW spec, spec[n + 1] \in Nat, Proper(r, n)
  PROVE  Proper(UnitsStep(spec, r, n + 1), n + 1)
<1> DEFINE t == [k \in 1 .. spec[n + 1] |-> <<n + 1, k>>]
           c == spec[n + 1]
<1>1. r \in Seq(Units) /\ Len(r) \in Nat
  BY DEF Proper
<1>2. /\ t \in Seq(Units) /\ Len(t) = c /\ \A i \in 1 .. c : t[i] = <<n + 1, i>>
  BY SMTT(30) DEF Units
<1> HIDE DEF t, c
<1>3. /\ r \o t \in Seq(Units) /\ Len(r \o t) = Len(r) + Len(t)
      /\ \A i \in 1 .. Len(r) + Len(t) :
           (r \o t)[i] = IF i <= Len(r) THEN r[i] ELSE t[i - Len(r)]
  BY Zenon, <1>1, <1>2, SeqConcat
<1>4. PICK s : s = r \o t
  BY Zenon
<1>5. UnitsStep(spec, r, n + 1) = s
  BY Zenon, <1>4 DEF UnitsStep, t
<1>6. c \in Nat
  BY DEF c
<1>7. /\ s \in Seq(Units) /\ Len(s) = Len(r) + c
      /\ \A i \in 1 .. Len(s) :
           \/ i \in 1 .. Len(r) /\ s[i] = r[i]
           \/ i - Len(r) \in 1 .. c /\ i \notin 1 .. Len(r) /\ s[i] = <<n + 1, i - Len(r)>>
  <2>1. /\ s \in Seq(Units) /\ Len(s) = Len(r) + c
        /\ \A i \in 1 .. Len(r) + c : s[i] = IF i <= Len(r) THEN r[i] ELSE t[i - Len(r)]
    BY Zenon, <1>2, <1>3, <1>4
  <2>2. \A i \in 1 .. Len(r) + c :
          \/ i \in 1 .. Len(r) /\ i <= Len(r)
          \/ i - Len(r) \in 1 .. c /\ i \notin 1 .. Len(r) /\ ~(i <= Len(r))
    BY <1>1, <1>6
  <2> QED
    BY Zenon, <1>2, <2>1, <2>2
<1>8. \A a, b : <<a, b>>[1] = a /\ <<a, b>>[2] = b
  OBVIOUS
<1>9. \A i \in 1 .. Len(r) : s[i] = r[i] /\ i \in 1 .. Len(s) /\ r[i][1] \in 1 .. n /\ r[i][2] \in Nat \ {0}
  <2>1. \A i \in 1 .. Len(r) : i \in 1 .. Len(s) /\ i - Len(r) \notin 1 .. c
    BY <1>1, <1>6, <1>7
  <2> QED
    BY Zenon, <2>1, <1>7 DEF Proper
<1>10. \A a, b : <<n + 1, a>> = <<n + 1, b>> => a = b
  OBVIOUS
<1>11. n + 1 \in 1 .. n + 1 /\ n + 1 \notin 1 .. n /\ 1 .. n \subseteq 1 .. n + 1 /\ 1 .. c \subseteq Nat \ {0}
  BY <1>6
<1>12. ASSUME NEW j \in 1 .. Len(s)
       PROVE  s[j][1] \in 1 .. n + 1 /\ s[j][2] \in Nat \ {0}
  <2>1. CASE j \in 1 .. Len(r)
    BY Zenon, <2>1, <1>9, <1>11
  <2>2. CASE j \notin 1 .. Len(r)
    <3>1. s[j] = <<n + 1, j - Len(r)>> /\ j - Len(r) \in 1 .. c
      BY Zenon, <2>2, <1>7
    <3>2. s[j][1] = n + 1 /\ s[j][2] = j - Len(r)
      BY <3>1
    <3> QED
      BY Zenon, <3>1, <3>2, <1>11
  <2> QED
    BY Zenon, <2>1, <2>2
<1>13. ASSUME NEW j \in 1 .. Len(s), NEW l \in 1 .. Len(s), s[j] = s[l]
       PROVE  j = l
  <2>1. CASE j \in 1 .. Len(r) /\ l \in 1 .. Len(r)
    BY Zenon, <2>1, <1>9, <1>13 DEF Proper
  <2>2. ASSUME NEW p \in 1 .. Len(r), NEW q \in 1 .. Len(s), q \notin 1 .. Len(r), s[p] = s[q]
        PROVE  FALSE
    <3>1. s[q] = <<n + 1, q - Len(r)>> /\ s[p] = r[p] /\ r[p][1] \in 1 .. n
      BY Zenon, <2>2, <1>7, <1>9
    <3>2. r[p][1] = n + 1
      BY <3>1, <2>2
    <3> QED
      BY Zenon, <3>1, <3>2, <1>11
  <2>3. CASE j \notin 1 .. Len(r) /\ l \notin 1 .. Len(r)
    <3>1. s[j] = <<n + 1, j - Len(r)>> /\ s[l] = <<n + 1, l - Len(r)>>
      BY Zenon, <2>3, <1>7
    <3>2. j - Len(r) = l - Len(r)
      BY Zenon, <3>1, <1>10, <1>13
    <3> QED
      BY <3>2, <1>1
  <2> QED
    BY Zenon, <1>13, <2>1, <2>2, <2>3
<1>14. ASSUME NEW j \in 1 .. Len(s), s[j][2] # 1
       PROVE  \E l \in 1 .. j - 1 : s[l] = <<s[j][1], s[j][2] - 1>>
  <2>1. CASE j \in 1 .. Len(r)
    <3>1. PICK l \in 1 .. j - 1 : r[l] = <<r[j][1], r[j][2] - 1>>
      BY Zenon, <2>1, <1>9, <1>14 DEF Proper
    <3>2. l \in 1 .. Len(r)
      BY <2>1, <1>1
    <3> QED
      BY Zenon, <3>1, <3>2, <2>1, <1>9
  <2>2. CASE j \notin 1 .. Len(r)
    <3>1. s[j] = <<n + 1, j - Len(r)>> /\ j - Len(r) \in 1 .. c
      BY Zenon, <2>2, <1>7
    <3>2. s[j][1] = n + 1 /\ s[j][2] = j - Len(r)
      BY <3>1
    <3>3. j - Len(r) # 1
      BY Zenon, <3>2, <1>14
    <3>4. /\ j - 1 \in 1 .. Len(s) /\ j - 1 \notin 1 .. Len(r) /\ j - 1 \in 1 .. j - 1
          /\ (j - 1) - Len(r) = (j - Len(r)) - 1
      BY <3>1, <3>3, <1>1, <1>6, <1>7
    <3>5. s[j - 1] = <<n + 1, (j - 1) - Len(r)>>
      BY Zenon, <3>4, <1>7
    <3> QED
      BY Zenon, <3>2, <3>4, <3>5
  <2> QED
    BY Zenon, <2>1, <2>2
<1>15. Proper(s, n + 1)
  BY Zenon, <1>7, <1>12, <1>13, <1>14 DEF Proper
<1> QED
  BY Zenon, <1>5, <1>15

\* ReadPropertyMultipleBatched: the units of a read are each once, and in
\* order.
LEMMA UnitsProper ==
  ASSUME NEW spec \in Seq(Nat)
  PROVE  Proper(unitsOf(spec), Len(spec))
<1> DEFINE N == Len(spec)
<1>0. N \in Nat /\ N \in 0 .. N
  OBVIOUS
<1>1. unitsOf(spec) = (CHOOSE g : IsUnits(<<>>, spec, N, g))[N]
  BY Zenon DEF unitsOf, IsUnits, UnitsStep
<1>2. PICK g : IsUnits(<<>>, spec, N, g) /\ g = CHOOSE f : IsUnits(<<>>, spec, N, f)
  BY Zenon, <1>0, UnitsExist
<1> DEFINE P == {n \in Nat : n \in 0 .. N => Proper(g[n], n)}
<1>3. 0 \in P
  <2>1. g[0] = <<>>
    BY <1>0, <1>2 DEF IsUnits
  <2>2. Proper(<<>>, 0)
    <3>1. <<>> \in Seq(Units) /\ 1 .. Len(<<>>) = {}
      OBVIOUS
    <3> QED
      BY Zenon, <3>1 DEF Proper
  <2> QED
    BY <2>1, <2>2
<1>4. ASSUME NEW n \in Nat, n \in P PROVE n + 1 \in P
  <2>0. n + 1 \in Nat
    OBVIOUS
  <2> SUFFICES ASSUME n + 1 \in 0 .. N PROVE Proper(g[n + 1], n + 1)
    BY Zenon, <2>0
  <2>1. n \in 0 .. N /\ n + 1 \in 1 .. N /\ n + 1 # 0 /\ (n + 1) - 1 = n
    BY <1>0
  <2>2. Proper(g[n], n)
    BY Zenon, <1>4, <2>1
  <2>3. g[n + 1] = UnitsStep(spec, g[n], n + 1)
    BY <1>2, <2>1 DEF IsUnits
  <2>4. spec[n + 1] \in Nat
    BY <2>1
  <2> QED
    BY Zenon, <2>2, <2>3, <2>4, UnitsStepProper
<1>5. Nat \subseteq P
  <2> HIDE DEF P
  <2> QED
    BY Zenon, <1>3, <1>4, SetInduction
<1>6. Proper(g[N], N)
  BY Zenon, <1>0, <1>5
<1> QED
  BY Zenon, <1>1, <1>2, <1>6
\* How a batched service ends.
Results == {None, "ok", "limit", "error", "abort", "failed", "unknown"}

\* A call of a batched service.
Jobs == [op : {"none", "read", "single", "write", "done"}, units : Seq(Units), i : Nat, size : Nat,
         fits : Nat, reply : Nat, batches : Nat, out : Seq(Seq(Units)), result : Results,
         sent : Seq(Units)]

\* A read has the results of the units before the next, each at its place.
Gathers(j) ==
  /\ j.op \in {"read", "single"} =>
       Proper(j.units, Len(j.out)) /\ Placed(j.out, j.units, j.i) /\ j.sent = <<>>
  /\ j.op = "done" /\ j.out # <<>> =>
       Placed(j.out, j.units, IF j.result = "ok" THEN Len(j.units) ELSE j.i)

\* A write has sent the units before the next, and a unit is named by its place.
Sends(j) ==
  /\ j.op = "write" =>
       j.out = <<>> /\ Len(j.sent) = j.i /\ \A k \in 1 .. Len(j.units) : j.units[k] = <<k, 0>>
  /\ \A k \in 1 .. Len(j.sent) : j.sent[k] = <<k, 0>>

\* The inductive invariant of the batched services.
JobInv(j) ==
  /\ j \in Jobs /\ j.i <= Len(j.units)
  /\ Gathers(j) /\ Sends(j)
  /\ j.op = "none" => j.out = <<>>
  /\ j.op # "done" => j.result = None
  /\ j.op = "done" /\ j.result = "abort" => j.reply = 0

\* The property follows from the invariant.
LEMMA JobInvCovers ==
  ASSUME JobInv(job)
  PROVE  BatchesCover
<1>1. job.op \in {"none", "read", "single", "write", "done"} /\ Len(job.sent) \in Nat
  <2>1. job \in Jobs
    BY Zenon DEF JobInv
  <2> QED
    BY <2>1 DEF Jobs
<1>2. ASSUME job.out # <<>>, job.op \in {"read", "single"} \/ job.result # None
      PROVE  Placed(job.out, job.units, IF job.op = "done" /\ job.result = "ok" THEN Len(job.units) ELSE job.i)
  <2>1. CASE job.op \in {"read", "single"}
    <3>1. job.op # "done"
      BY <2>1
    <3>2. Placed(job.out, job.units, job.i)
      BY Zenon, <2>1 DEF JobInv, Gathers
    <3>3. (IF job.op = "done" /\ job.result = "ok" THEN Len(job.units) ELSE job.i) = job.i
      BY Zenon, <3>1
    <3> QED
      BY Zenon, <3>2, <3>3
  <2>2. CASE job.op \notin {"read", "single"}
    <3>1. job.op = "done"
      BY Zenon, <1>2, <2>2 DEF JobInv
    <3> QED
      BY Zenon, <1>2, <3>1 DEF JobInv, Gathers
  <2> QED
    BY Zenon, <2>1, <2>2
<1>3. ASSUME NEW a \in 1 .. Len(job.sent), NEW b \in 1 .. Len(job.sent), a # b
      PROVE  job.sent[a] # job.sent[b]
  <2>1. job.sent[a] = <<a, 0>> /\ job.sent[b] = <<b, 0>>
    BY Zenon DEF JobInv, Sends
  <2> QED
    BY <2>1, <1>3
<1>4. job.op = "done" /\ job.result = "abort" => job.reply = 0
  BY Zenon DEF JobInv
<1> QED
  BY Zenon, <1>2, <1>3, <1>4 DEF BatchesCover, Placed

\* One more transaction is counted.
LEMMA CountKept ==
  ASSUME NEW j, JobInv(j)
  PROVE  JobInv([j EXCEPT !.batches = @ + 1])
<1>1. PICK q : q = [j EXCEPT !.batches = @ + 1]
  BY Zenon
<1>2. j \in Jobs
  BY Zenon DEF JobInv
<1>3. /\ q \in Jobs /\ q.op = j.op /\ q.units = j.units /\ q.i = j.i /\ q.reply = j.reply /\ q.out = j.out
      /\ q.result = j.result /\ q.sent = j.sent
  <2>1. j.batches + 1 \in Nat
    BY <1>2 DEF Jobs
  <2>2. PICK b \in Nat : b = j.batches + 1
    BY Zenon, <2>1
  <2>3. q = [j EXCEPT !.batches = b]
    BY Zenon, <1>1, <2>2
  <2> QED
    BY <1>2, <2>3 DEF Jobs
<1> SUFFICES JobInv(q)
  BY Zenon, <1>1
<1> QED
  BY Zenon, <1>3 DEF JobInv, Gathers, Sends

\* ReadPropertyMultipleBatched: the batch is halved, and nothing else changes.
LEMMA HalveKept ==
  ASSUME NEW j, JobInv(j), NEW n \in Nat
  PROVE  JobInv([j EXCEPT !.size = n])
<1>1. PICK q : q = [j EXCEPT !.size = n]
  BY Zenon
<1>2. j \in Jobs
  BY Zenon DEF JobInv
<1>3. /\ q \in Jobs /\ q.op = j.op /\ q.units = j.units /\ q.i = j.i /\ q.reply = j.reply /\ q.out = j.out
      /\ q.result = j.result /\ q.sent = j.sent
  BY <1>1, <1>2 DEF Jobs
<1> SUFFICES JobInv(q)
  BY Zenon, <1>1
<1> QED
  BY Zenon, <1>3 DEF JobInv, Gathers, Sends

\* A read or a write ends: with success when no unit is left, and with the
\* peer's abort when a single result does not fit its reply.
LEMMA EndKept ==
  ASSUME NEW j, JobInv(j), j.op \in {"read", "single", "write"}, NEW x \in Results,
         x = "ok" => j.i = Len(j.units), x = "abort" => j.reply = 0
  PROVE  JobInv(End(j, x))
<1>1. PICK q : q = End(j, x)
  OBVIOUS
<1>2. j \in Jobs
  BY Zenon DEF JobInv
<1>3. /\ q \in Jobs /\ q.op = "done" /\ q.units = j.units /\ q.i = j.i /\ q.reply = j.reply /\ q.out = j.out
      /\ q.result = x /\ q.sent = j.sent
  BY Zenon, <1>1, <1>2 DEF Jobs, End
<1>4. q.out # <<>> => Placed(q.out, q.units, IF q.result = "ok" THEN Len(q.units) ELSE q.i)
  <2> SUFFICES ASSUME q.out # <<>> PROVE Placed(q.out, q.units, IF q.result = "ok" THEN Len(q.units) ELSE q.i)
    OBVIOUS
  <2>1. j.op # "write"
    BY Zenon, <1>3 DEF JobInv, Sends
  <2>2. Placed(j.out, j.units, j.i)
    BY Zenon, <2>1 DEF JobInv, Gathers
  <2> QED
    BY Zenon, <1>3, <2>2
<1>5. q.op \notin {"none", "read", "single", "write"}
  BY <1>3
<1> SUFFICES JobInv(q)
  BY Zenon, <1>1
<1>6. Gathers(q) /\ Sends(q)
  <2>1. \A k \in 1 .. Len(q.sent) : q.sent[k] = <<k, 0>>
    BY Zenon, <1>3 DEF JobInv, Sends
  <2> QED
    BY Zenon, <1>4, <1>5, <2>1 DEF Gathers, Sends
<1> QED
  BY Zenon, <1>3, <1>5, <1>6 DEF JobInv

\* The results of the next units are gathered.
LEMMA CollectKept ==
  ASSUME NEW j, JobInv(j), j.op \in {"read", "single"}, NEW e \in j.i .. Len(j.units),
         NEW us, us = SubSeq(j.units, j.i + 1, e)
  PROVE  JobInv([j EXCEPT !.out = collect(j.out, us), !.i = e])
<1>1. PICK o : o = collect(j.out, us)
  OBVIOUS
<1>2. PICK q : q = [j EXCEPT !.out = o, !.i = e]
  OBVIOUS
<1>3. j \in Jobs
  BY Zenon DEF JobInv
<1>4. /\ j.out \in Seq(Seq(Units)) /\ j.i \in Nat /\ Len(j.units) \in Nat
  BY <1>3 DEF Jobs
<1>5. Proper(j.units, Len(j.out)) /\ Placed(j.out, j.units, j.i) /\ j.sent = <<>>
  BY Zenon DEF JobInv, Gathers
<1>6. o \in Seq(Seq(Units)) /\ Len(o) = Len(j.out) /\ Placed(o, j.units, e)
  <2>1. PICK p : p = j.out
    OBVIOUS
  <2>2. PICK u : u = j.units
    OBVIOUS
  <2>3. PICK a \in Nat : a = j.i
    BY Zenon, <1>4
  <2>4. /\ p \in Seq(Seq(Units)) /\ Proper(u, Len(p)) /\ Placed(p, u, a) /\ e \in a .. Len(u)
        /\ us = SubSeq(u, a + 1, e)
    BY Zenon, <1>4, <1>5, <2>1, <2>2, <2>3
  <2>5. /\ collect(p, us) \in Seq(Seq(Units)) /\ Len(collect(p, us)) = Len(p)
        /\ Placed(collect(p, us), u, e)
    BY Zenon, <2>4, CollectPlaced
  <2> QED
    BY Zenon, <1>1, <2>1, <2>2, <2>5
<1>7. e \in Nat /\ e <= Len(j.units)
  BY <1>4
<1>8. /\ q \in Jobs /\ q.op = j.op /\ q.units = j.units /\ q.i = e /\ q.reply = j.reply /\ q.out = o
      /\ q.result = j.result /\ q.sent = j.sent
  BY Zenon, <1>2, <1>3, <1>6, <1>7 DEF Jobs
<1> SUFFICES JobInv(q)
  BY Zenon, <1>1, <1>2
<1>9. q.op \notin {"none", "write", "done"} /\ 1 .. Len(q.sent) = {}
  BY <1>5, <1>8
<1>10. Gathers(q) /\ Sends(q)
  BY Zenon, <1>5, <1>6, <1>8, <1>9 DEF Gathers, Sends
<1> QED
  BY Zenon, <1>7, <1>8, <1>9, <1>10 DEF JobInv
\* No call in progress.
LEMMA NoJobFacts ==
  /\ NoJob \in Jobs /\ NoJob.op = "none" /\ NoJob.i = 0 /\ NoJob.sent = <<>> /\ NoJob.result = None
  /\ NoJob.out = <<>> /\ NoJob.reply = 0
<1>1. None \in Results /\ <<>> \in Seq(Units) /\ <<>> \in Seq(Seq(Units))
  BY DEF Results
<1> QED
  BY <1>1 DEF NoJob, Jobs

\* A fresh call, before its first request.
LEMMA StartKept ==
  ASSUME NEW q, q \in Jobs, q.i = 0, q.sent = <<>>, q.result = None,
         \/ q.op = "none" /\ q.out = <<>>
         \/ q.op = "write" /\ q.out = <<>> /\ \A k \in 1 .. Len(q.units) : q.units[k] = <<k, 0>>
         \/ q.op \in {"read", "single"} /\ Proper(q.units, Len(q.out))
              /\ \A i \in 1 .. Len(q.out) : q.out[i] = <<>>
  PROVE  JobInv(q)
<1>1. Len(q.units) \in Nat /\ 0 <= Len(q.units) /\ 1 .. 0 = {} /\ Len(<<>>) = 0 /\ q.op # "done"
  BY DEF Jobs
<1>2. q.op \in {"read", "single"} => Proper(q.units, Len(q.out)) /\ Placed(q.out, q.units, 0)
  <2>1. q.op \in {"read", "single"} => q.op # "none" /\ q.op # "write"
    OBVIOUS
  <2> QED
    BY Zenon, <1>1, <2>1 DEF Placed
<1>3. q.op \in {"none", "write"} => q.op \notin {"read", "single"}
  OBVIOUS
<1>4. Gathers(q)
  BY Zenon, <1>1, <1>2 DEF Gathers
<1>5. Sends(q)
  <2>1. q.op = "write" => q.out = <<>> /\ \A k \in 1 .. Len(q.units) : q.units[k] = <<k, 0>>
    BY Zenon, <1>3
  <2> QED
    BY Zenon, <1>1, <2>1 DEF Sends
<1>6. q.op = "none" => q.out = <<>>
  BY Zenon, <1>3
<1> QED
  BY Zenon, <1>1, <1>4, <1>5, <1>6 DEF JobInv

\* ReadPropertyMultipleBatched.
LEMMA BatchedReadKept ==
  ASSUME JobInv(job), ReadPropertyMultipleBatched
  PROVE  JobInv(job')
<1>1. PICK spec \in Specs, size \in BatchSizes, fits \in RequestFits, reply \in ReplyFits :
        job' = [NoJob EXCEPT !.op = "read", !.units = unitsOf(spec), !.size = size,
                             !.fits = fits, !.reply = reply, !.out = [i \in 1 .. Len(spec) |-> <<>>]]
  BY Zenon DEF ReadPropertyMultipleBatched
<1>2. spec \in Seq(Nat) /\ size \in Nat /\ fits \in Nat /\ reply \in Nat
  BY BatchAssumption
<1>3. PICK u : u = unitsOf(spec)
  OBVIOUS
<1>4. PICK o : o = [i \in 1 .. Len(spec) |-> <<>>]
  BY Zenon
<1>5. o \in Seq(Seq(Units)) /\ Len(o) = Len(spec) /\ \A i \in 1 .. Len(o) : o[i] = <<>>
  BY <1>2, <1>4, SMTT(30)
<1>6. Proper(u, Len(o)) /\ u \in Seq(Units)
  BY Zenon, <1>2, <1>3, <1>5, UnitsProper DEF Proper
<1>7. PICK q : q = [NoJob EXCEPT !.op = "read", !.units = u, !.size = size, !.fits = fits, !.reply = reply, !.out = o]
  OBVIOUS
<1>8. job' = q
  BY Zenon, <1>1, <1>3, <1>4, <1>7
<1>9. q \in Jobs /\ q.i = 0 /\ q.sent = <<>> /\ q.result = None /\ q.op = "read" /\ q.units = u /\ q.out = o
  BY Zenon, <1>2, <1>5, <1>6, <1>7, NoJobFacts DEF Jobs
<1>10. q.op \in {"read", "single"} /\ Proper(q.units, Len(q.out)) /\ \A i \in 1 .. Len(q.out) : q.out[i] = <<>>
  BY Zenon, <1>5, <1>6, <1>9
<1> QED
  BY Zenon, <1>8, <1>9, <1>10, StartKept

\* The list of an object's elements, as the units of one specification.
LEMMA ListProper ==
  ASSUME NEW n \in Nat, NEW list, list = [k \in 1 .. n |-> <<1, k>>]
  PROVE  Proper(list, 1) /\ Len(list) = n /\ \A k \in 1 .. n : list[k] = <<1, k>>
<1>1. list \in Seq(Units) /\ Len(list) = n /\ \A k \in 1 .. n : list[k] = <<1, k>>
  BY SMTT(30) DEF Units
<1>2. \A j \in 1 .. Len(list) : list[j][1] \in 1 .. 1 /\ list[j][2] \in Nat \ {0}
  BY <1>1
<1>3. \A j, l \in 1 .. Len(list) : list[j] = list[l] => j = l
  BY <1>1
<1>4. ASSUME NEW j \in 1 .. Len(list), list[j][2] # 1
      PROVE  \E l \in 1 .. j - 1 : list[l] = <<list[j][1], list[j][2] - 1>>
  <2>1. list[j] = <<1, j>> /\ list[j][1] = 1 /\ list[j][2] = j
    BY <1>1
  <2>2. j - 1 \in 1 .. j - 1 /\ j - 1 \in 1 .. n
    BY <1>1, <1>4, <2>1
  <2>3. list[j - 1] = <<1, j - 1>>
    BY Zenon, <1>1, <2>2
  <2> QED
    BY Zenon, <2>1, <2>2, <2>3
<1> QED
  BY Zenon, <1>1, <1>2, <1>3, <1>4 DEF Proper

\* ReadObjectList.
LEMMA ObjectListKept ==
  ASSUME JobInv(job), ReadObjectList
  PROVE  JobInv(job')
<1>1. PICK count \in {Len(unitsOf(s)) : s \in Specs}, maxItems \in BatchSizes, reply \in ReplyFits,
           rpm \in BOOLEAN :
        LET n == objectListLength(count, maxItems)
            list == [k \in 1 .. n |-> <<1, k>>]
        IN job' = IF count <= reply
                  THEN End([NoJob EXCEPT !.units = list, !.out = <<list>>], "ok")
                  ELSE [NoJob EXCEPT !.op = IF n = 0 \/ rpm THEN "read" ELSE "single",
                                    !.units = list, !.size = n, !.fits = n, !.reply = reply,
                                    !.out = <<<<>>>>]
  BY Zenon DEF ReadObjectList
<1>2. maxItems \in Nat /\ reply \in Nat
  BY BatchAssumption
<1>3. count \in Nat
  <2>1. PICK s \in Specs : count = Len(unitsOf(s))
    BY Zenon
  <2>2. s \in Seq(Nat)
    BY BatchAssumption
  <2>3. unitsOf(s) \in Seq(Units)
    BY Zenon, <2>2, UnitsProper DEF Proper
  <2> QED
    BY <2>1, <2>3
<1>4. PICK n : n = objectListLength(count, maxItems)
  OBVIOUS
<1>5. n \in Nat
  <2>1. count \in Int /\ maxItems \in Int
    BY <1>2, <1>3
  <2>2. n = IF count <= maxItems THEN count ELSE maxItems
    BY Zenon, <1>4, <2>1, MaxMin DEF objectListLength
  <2> QED
    BY Zenon, <1>2, <1>3, <2>2
<1>6. PICK list : list = [k \in 1 .. n |-> <<1, k>>]
  BY Zenon
<1>7. Proper(list, 1) /\ Len(list) = n /\ (\A k \in 1 .. n : list[k] = <<1, k>>) /\ list \in Seq(Units)
  <2>1. Proper(list, 1) /\ Len(list) = n /\ \A k \in 1 .. n : list[k] = <<1, k>>
    BY Zenon, <1>5, <1>6, ListProper
  <2> QED
    BY Zenon, <2>1 DEF Proper
<1>8. CASE count <= reply
  <2>1. PICK q : q = End([NoJob EXCEPT !.units = list, !.out = <<list>>], "ok")
    OBVIOUS
  <2>2. job' = q
    BY Zenon, <1>1, <1>4, <1>6, <1>8, <2>1
  <2>3. <<list>> \in Seq(Seq(Units)) /\ Len(<<list>>) = 1 /\ <<list>>[1] = list
    BY <1>7
  <2>4. /\ q \in Jobs /\ q.i = 0 /\ q.sent = <<>> /\ q.result = "ok" /\ q.op = "done" /\ q.units = list
        /\ q.out = <<list>> /\ q.reply = 0
    BY Zenon, <1>7, <2>1, <2>3, NoJobFacts DEF Jobs, Results, End
  <2>5. 0 <= Len(list) /\ 1 .. Len(<<>>) = {} /\ 1 .. 1 = {1} /\ 1 \in 1 .. 1
    BY <1>5, <1>7
  <2>6. \A k \in 1 .. n : list[k][1] = 1 /\ list[k][2] = k
    BY <1>7
  <2>7. Placed(<<list>>, list, Len(list))
    <3>1. \A i \in 1 .. 1 : \A k \in 1 .. n :
            <<list>>[i][k] = <<i, k>> /\ \E j \in 1 .. n : list[j] = <<i, k>>
      BY Zenon, <1>7, <2>3, <2>5
    <3>2. \A j \in 1 .. n : list[j][1] \in 1 .. 1 /\ list[j][2] \in 1 .. Len(<<list>>[list[j][1]])
      BY Zenon, <1>7, <2>3, <2>5, <2>6
    <3>3. \A i \in 1 .. 1 : Len(<<list>>[i]) = n
      BY Zenon, <1>7, <2>3, <2>5
    <3> QED
      BY Zenon, <1>7, <2>3, <3>1, <3>2, <3>3 DEF Placed
  <2>8. q.op \notin {"none", "read", "single", "write"}
    BY <2>4
  <2>9. Gathers(q) /\ Sends(q)
    BY Zenon, <2>4, <2>5, <2>7, <2>8 DEF Gathers, Sends
  <2>10. JobInv(q)
    BY Zenon, <2>4, <2>5, <2>8, <2>9 DEF JobInv
  <2> QED
    BY Zenon, <2>2, <2>10
<1>9. CASE ~(count <= reply)
  <2>0. PICK x \in {"read", "single"} : x = IF n = 0 \/ rpm THEN "read" ELSE "single"
    BY Zenon
  <2>1. PICK q : q = [NoJob EXCEPT !.op = x, !.units = list, !.size = n, !.fits = n, !.reply = reply,
                                   !.out = <<<<>>>>]
    OBVIOUS
  <2>2. job' = q
    BY Zenon, <1>1, <1>4, <1>6, <1>9, <2>0, <2>1
  <2>3. <<<<>>>> \in Seq(Seq(Units)) /\ Len(<<<<>>>>) = 1 /\ \A i \in 1 .. 1 : <<<<>>>>[i] = <<>>
    OBVIOUS
  <2>4. /\ q \in Jobs /\ q.i = 0 /\ q.sent = <<>> /\ q.result = None /\ q.op \in {"read", "single"}
        /\ q.units = list /\ q.out = <<<<>>>>
    BY Zenon, <1>2, <1>5, <1>7, <2>0, <2>1, <2>3, NoJobFacts DEF Jobs
  <2>5. Proper(q.units, Len(q.out)) /\ \A i \in 1 .. Len(q.out) : q.out[i] = <<>>
    BY Zenon, <1>7, <2>3, <2>4
  <2> QED
    BY Zenon, <2>2, <2>4, <2>5, StartKept
<1> QED
  BY Zenon, <1>8, <1>9

\* WritePropertyMultipleBatched.
LEMMA BatchedWriteKept ==
  ASSUME JobInv(job), WritePropertyMultipleBatched
  PROVE  JobInv(job')
<1>1. PICK spec \in Specs, size \in BatchSizes :
        job' = [NoJob EXCEPT !.op = "write", !.size = size,
                             !.units = [i \in 1 .. Len(spec) |-> <<i, 0>>]]
  BY Zenon DEF WritePropertyMultipleBatched
<1>2. spec \in Seq(Nat) /\ size \in Nat
  BY BatchAssumption
<1>3. PICK u : u = [i \in 1 .. Len(spec) |-> <<i, 0>>]
  BY Zenon
<1>4. u \in Seq(Units) /\ \A k \in 1 .. Len(u) : u[k] = <<k, 0>>
  BY <1>2, <1>3, SMTT(30) DEF Units
<1>5. PICK q : q = [NoJob EXCEPT !.op = "write", !.size = size, !.units = u]
  OBVIOUS
<1>6. job' = q
  BY Zenon, <1>1, <1>3, <1>5
<1>7. q \in Jobs /\ q.i = 0 /\ q.sent = <<>> /\ q.result = None /\ q.op = "write" /\ q.units = u /\ q.out = <<>>
  BY Zenon, <1>2, <1>4, <1>5, NoJobFacts DEF Jobs
<1> QED
  BY Zenon, <1>4, <1>6, <1>7, StartKept
\* The fields of a call, with their types.
LEMMA JobTypes ==
  ASSUME NEW j, JobInv(j)
  PROVE  /\ j.i \in Nat /\ j.size \in Nat /\ j.fits \in Nat /\ j.reply \in Nat /\ j.batches \in Nat
         /\ j.units \in Seq(Units) /\ Len(j.units) \in Nat /\ j.i <= Len(j.units)
         /\ j.sent \in Seq(Units) /\ j \in Jobs
<1>1. j \in Jobs /\ j.i <= Len(j.units)
  BY Zenon DEF JobInv
<1> QED
  BY <1>1 DEF Jobs

\* The next batch is not empty and does not pass the last unit.
LEMMA BatchEndFacts ==
  ASSUME NEW j, JobInv(j), j.i # Len(j.units)
  PROVE  batchEnd(j) \in (j.i + 1) .. Len(j.units)
<1>1. /\ j.i \in Nat /\ j.size \in Nat /\ j.fits \in Nat /\ Len(j.units) \in Nat
      /\ j.i <= Len(j.units)
  BY Zenon, JobTypes
<1>2. PICK a : a = Min({j.size, j.fits})
  OBVIOUS
<1>3. a \in Nat
  <2>1. j.size \in Int /\ j.fits \in Int
    BY <1>1
  <2> QED
    <3>1. a = IF j.size <= j.fits THEN j.size ELSE j.fits
      BY Zenon, <1>2, <2>1, MaxMin
    <3> QED
      BY Zenon, <1>1, <3>1
<1>4. PICK b : b = Max({1, a})
  OBVIOUS
<1>5. b \in Nat /\ b >= 1
  <2>1. 1 \in Int /\ a \in Int
    BY <1>3
  <2>2. b = IF 1 >= a THEN 1 ELSE a
    BY Zenon, <1>4, <2>1, MaxMin
  <2> QED
    BY <1>3, <2>2
<1>6. batchEnd(j) = IF Len(j.units) <= j.i + b THEN Len(j.units) ELSE j.i + b
  <2>1. Len(j.units) \in Int /\ j.i + b \in Int
    BY <1>1, <1>5
  <2>2. batchEnd(j) = Min({Len(j.units), j.i + b})
    BY Zenon, <1>2, <1>4 DEF batchEnd
  <2> QED
    BY Zenon, <2>1, <2>2, MaxMin
<1>7. \A i, n \in Nat : \A c \in Nat : c >= 1 /\ i <= n /\ i # n =>
        /\ n \in (i + 1) .. n
        /\ ~(n <= i + c) => i + c \in (i + 1) .. n
  OBVIOUS
<1> QED
  BY Zenon, <1>1, <1>5, <1>6, <1>7

\* One transaction of a batched read.
LEMMA BatchStepKept ==
  ASSUME NEW j, JobInv(j), j.op = "read", j.i # Len(j.units)
  PROVE  JobInv(batchStep(j))
<1>1. PICK e : e = batchEnd(j)
  OBVIOUS
<1>2. PICK us : us = SubSeq(j.units, j.i + 1, e)
  BY Zenon
<1>3. PICK q : q = [j EXCEPT !.batches = @ + 1]
  BY Zenon
<1>4. batchStep(j) = IF Len(us) > j.reply
                     THEN IF Len(us) > 1 THEN [q EXCEPT !.size = Max({1, Len(us) \div 2})]
                          ELSE End(q, "abort")
                     ELSE [q EXCEPT !.out = collect(j.out, us), !.i = e]
  BY Zenon, <1>1, <1>2, <1>3 DEF batchStep
<1>5. /\ j.i \in Nat /\ j.reply \in Nat /\ j.units \in Seq(Units) /\ Len(j.units) \in Nat /\ j \in Jobs
  BY Zenon, JobTypes
<1>6. e \in (j.i + 1) .. Len(j.units)
  BY Zenon, <1>1, BatchEndFacts
<1>7. e \in j.i .. Len(j.units)
  BY <1>5, <1>6
<1>8. Len(us) \in Nat /\ Len(us) >= 1
  <2>1. Len(us) = e - j.i
    BY <1>2, <1>5, <1>7, SeqPiece
  <2> QED
    BY <2>1, <1>5, <1>6
<1>9. JobInv(q)
  BY Zenon, <1>3, CountKept
<1>10. q.units = j.units /\ q.i = j.i /\ q.op = "read" /\ q.reply = j.reply /\ q.out = j.out
  BY <1>3, <1>5 DEF Jobs
<1>11. q.op \in {"read", "single"} /\ q.op \in {"read", "single", "write"}
  BY <1>10
<1>12. CASE Len(us) > j.reply /\ Len(us) > 1
  <2>1. PICK h : h = Len(us) \div 2
    OBVIOUS
  <2>2. h \in Nat
    <3>1. \A a \in Nat : a \div 2 \in Nat
      OBVIOUS
    <3> QED
      BY Zenon, <1>8, <2>1, <3>1
  <2>3. Max({1, h}) \in Nat
    <3>1. 1 \in Int /\ h \in Int /\ 1 \in Nat
      BY <2>2
    <3> QED
      BY Zenon, <2>2, <3>1, MaxMin
  <2>4. JobInv([q EXCEPT !.size = Max({1, h})])
    BY Zenon, <2>3, <1>9, HalveKept
  <2> QED
    BY Zenon, <1>4, <1>12, <2>1, <2>4
<1>13. CASE Len(us) > j.reply /\ ~(Len(us) > 1)
  <2>1. j.reply = 0
    BY <1>5, <1>8, <1>13
  <2>2. "abort" \in Results /\ "abort" # "ok"
    BY DEF Results
  <2>3. JobInv(End(q, "abort"))
    BY Zenon, <1>9, <1>10, <1>11, <2>1, <2>2, EndKept
  <2> QED
    BY Zenon, <1>4, <1>13, <2>3
<1>14. CASE ~(Len(us) > j.reply)
  <2>1. e \in q.i .. Len(q.units) /\ us = SubSeq(q.units, q.i + 1, e)
    BY Zenon, <1>2, <1>7, <1>10
  <2>2. JobInv([q EXCEPT !.out = collect(q.out, us), !.i = e])
    BY Zenon, <1>9, <1>11, <2>1, CollectKept
  <2> QED
    BY Zenon, <1>4, <1>10, <1>14, <2>2
<1> QED
  BY Zenon, <1>12, <1>13, <1>14

\* A step of a batched read: a transaction, or the end of the read.
LEMMA ReadKept ==
  ASSUME JobInv(job), ReadBatch \/ ReadFails
  PROVE  JobInv(job')
<1>1. job.op = "read" /\ job.op \in {"read", "single", "write"}
  <2>1. job.op = "read"
    BY Zenon DEF ReadBatch, ReadFails
  <2> QED
    BY <2>1
<1>2. /\ "ok" \in Results /\ "limit" \in Results /\ "error" \in Results
      /\ "ok" # "abort" /\ "limit" # "ok" /\ "limit" # "abort" /\ "error" # "ok" /\ "error" # "abort"
  BY DEF Results
<1>3. CASE ReadBatch
  <2>1. CASE job.i = Len(job.units)
    <3>1. JobInv(End(job, "ok"))
      BY Zenon, <1>1, <1>2, <2>1, EndKept
    <3> QED
      BY Zenon, <1>3, <2>1, <3>1 DEF ReadBatch
  <2>2. CASE job.i # Len(job.units) /\ job.batches >= MaxBatches
    <3>1. JobInv(End(job, "limit"))
      BY Zenon, <1>1, <1>2, EndKept
    <3> QED
      BY Zenon, <1>3, <2>2, <3>1 DEF ReadBatch
  <2>3. CASE job.i # Len(job.units) /\ ~(job.batches >= MaxBatches)
    <3>1. JobInv(batchStep(job))
      BY Zenon, <1>1, <2>3, BatchStepKept
    <3> QED
      BY Zenon, <1>3, <2>3, <3>1 DEF ReadBatch
  <2> QED
    BY Zenon, <2>1, <2>2, <2>3
<1>4. CASE ReadFails
  <2>1. PICK q : q = [job EXCEPT !.batches = @ + 1]
    BY Zenon
  <2>2. JobInv(q)
    BY Zenon, <2>1, CountKept
  <2>3. q.op = job.op
    <3>1. job \in Jobs
      BY Zenon, JobTypes
    <3> QED
      BY <2>1, <3>1 DEF Jobs
  <2>4. JobInv(End(q, "error"))
    BY Zenon, <1>1, <1>2, <2>2, <2>3, EndKept
  <2> QED
    BY Zenon, <1>4, <2>1, <2>4 DEF ReadFails
<1> QED
  BY Zenon, <1>3, <1>4

\* ReadObjectList: one element read by itself.
LEMMA SingleKept ==
  ASSUME JobInv(job), ReadSingle
  PROVE  JobInv(job')
<1>1. job.op = "single"
  BY Zenon DEF ReadSingle
<1>2. job.op \in {"read", "single"} /\ job.op \in {"read", "single", "write"}
  BY <1>1
<1>3. "ok" \in Results /\ "abort" \in Results /\ "ok" # "abort"
  BY DEF Results
<1>4. /\ job.i \in Nat /\ job.units \in Seq(Units) /\ Len(job.units) \in Nat /\ job.i <= Len(job.units)
  BY Zenon, JobTypes
<1>5. CASE job.i = Len(job.units)
  <2>1. JobInv(End(job, "ok"))
    BY Zenon, <1>2, <1>3, <1>5, EndKept
  <2> QED
    BY Zenon, <1>5, <2>1 DEF ReadSingle
<1>6. CASE job.i # Len(job.units) /\ job.reply = 0
  <2>1. JobInv(End(job, "abort"))
    BY Zenon, <1>2, <1>3, <1>6, EndKept
  <2> QED
    BY Zenon, <1>6, <2>1 DEF ReadSingle
<1>7. CASE job.i # Len(job.units) /\ job.reply # 0
  <2>1. PICK e : e = job.i + 1
    OBVIOUS
  <2>2. e \in job.i .. Len(job.units)
    BY <1>4, <1>7, <2>1
  <2>3. SubSeq(job.units, job.i + 1, e) = <<job.units[job.i + 1]>>
    <3>1. PICK u \in Seq(Units) : u = job.units
      BY Zenon, <1>4
    <3>2. PICK m \in Nat : m = job.i
      BY Zenon, <1>4
    <3>3. m + 1 \in 1 .. Len(u) /\ e = m + 1
      BY <1>4, <1>7, <2>1, <3>1, <3>2
    <3>4. SubSeq(u, m + 1, m + 1) = <<u[m + 1]>>
      <4>1. m + 1 \in m .. Len(u) /\ (m + 1) - m = 1 /\ 1 \in 1 .. 1
        BY <3>3
      <4>2. /\ SubSeq(u, m + 1, m + 1) \in Seq(Units) /\ Len(SubSeq(u, m + 1, m + 1)) = 1
            /\ SubSeq(u, m + 1, m + 1)[1] = u[m + 1]
        BY <4>1, SeqPiece
      <4>3. \A w \in Seq(Units) : Len(w) = 1 => w = <<w[1]>>
        BY SMTT(30)
      <4> QED
        BY Zenon, <4>2, <4>3
    <3> QED
      BY Zenon, <3>1, <3>2, <3>3, <3>4
  <2>4. PICK us : us = <<job.units[job.i + 1]>>
    BY Zenon
  <2>5. us = SubSeq(job.units, job.i + 1, e)
    BY Zenon, <2>3, <2>4
  <2>6. JobInv([job EXCEPT !.out = collect(job.out, us), !.i = e])
    BY Zenon, <1>2, <2>2, <2>5, CollectKept
  <2>7. job' = [job EXCEPT !.out = collect(job.out, <<job.units[job.i + 1]>>), !.i = @ + 1]
    BY Zenon, <1>7 DEF ReadSingle
  <2> QED
    BY Zenon, <2>1, <2>4, <2>6, <2>7
<1> QED
  BY Zenon, <1>5, <1>6, <1>7

\* The units of a write, each named by its place.
InOrder(s) == \A k \in 1 .. Len(s) : s[k] = <<k, 0>>

\* The next batch of a write.
IsNext(units, sent, e, us) ==
  /\ units \in Seq(Units) /\ sent \in Seq(Units) /\ e \in Len(sent) .. Len(units)
  /\ InOrder(units) /\ InOrder(sent) /\ us = SubSeq(units, Len(sent) + 1, e)

\* The units of a batch are sent after those before them.
LEMMA SentFacts ==
  ASSUME NEW units, NEW sent, NEW e, NEW us, IsNext(units, sent, e, us)
  PROVE  /\ sent \o us \in Seq(Units) /\ Len(sent \o us) = e
         /\ InOrder(sent \o us)
<1>0. /\ units \in Seq(Units) /\ sent \in Seq(Units) /\ e \in Len(sent) .. Len(units)
      /\ InOrder(units) /\ InOrder(sent) /\ us = SubSeq(units, Len(sent) + 1, e)
  BY Zenon DEF IsNext
<1>1. Len(sent) \in Nat /\ Len(units) \in Nat
  BY <1>0
<1>2. /\ us \in Seq(Units) /\ Len(us) = e - Len(sent)
      /\ \A i \in 1 .. e - Len(sent) : us[i] = units[Len(sent) + i]
  BY <1>0, <1>1, SeqPiece
<1>3. /\ sent \o us \in Seq(Units) /\ Len(sent \o us) = Len(sent) + Len(us)
      /\ \A i \in 1 .. Len(sent) + Len(us) :
           (sent \o us)[i] = IF i <= Len(sent) THEN sent[i] ELSE us[i - Len(sent)]
  BY Zenon, <1>0, <1>2, SeqConcat
<1>4. Len(sent) + Len(us) = e
  BY <1>0, <1>1, <1>2
<1>5. ASSUME NEW k \in 1 .. e PROVE (sent \o us)[k] = <<k, 0>>
  <2>1. CASE k <= Len(sent)
    <3>1. k \in 1 .. Len(sent)
      BY <1>1, <2>1
    <3> QED
      BY Zenon, <1>0, <1>3, <1>4, <2>1, <3>1 DEF InOrder
  <2>2. CASE ~(k <= Len(sent))
    <3>1. k - Len(sent) \in 1 .. e - Len(sent) /\ Len(sent) + (k - Len(sent)) = k /\ k \in 1 .. Len(units)
      BY <1>0, <1>1, <2>2
    <3>2. us[k - Len(sent)] = units[k]
      BY Zenon, <1>2, <3>1
    <3> QED
      BY Zenon, <1>0, <1>3, <1>4, <2>2, <3>1, <3>2 DEF InOrder
  <2> QED
    BY Zenon, <2>1, <2>2
<1> QED
  BY Zenon, <1>3, <1>4, <1>5 DEF InOrder

\* WritePropertyMultipleBatched: one batch, or the end of the write.
LEMMA WriteKept ==
  ASSUME JobInv(job), WriteBatch
  PROVE  JobInv(job')
<1>1. job.op = "write"
  BY Zenon DEF WriteBatch
<1>2. /\ job.i \in Nat /\ job.size \in Nat /\ job.units \in Seq(Units) /\ Len(job.units) \in Nat
      /\ job.i <= Len(job.units) /\ job.sent \in Seq(Units) /\ job \in Jobs /\ job.batches \in Nat
  BY Zenon, JobTypes
<1>3. /\ job.out = <<>> /\ Len(job.sent) = job.i /\ \A k \in 1 .. Len(job.units) : job.units[k] = <<k, 0>>
      /\ \A k \in 1 .. Len(job.sent) : job.sent[k] = <<k, 0>>
  BY Zenon, <1>1 DEF JobInv, Sends
<1>4. CASE job.i = Len(job.units)
  <2>1. "ok" \in Results /\ "ok" # "abort" /\ job.op \in {"read", "single", "write"}
    BY <1>1 DEF Results
  <2>2. JobInv(End(job, "ok"))
    BY Zenon, <1>4, <2>1, EndKept
  <2>3. job' = End(job, "ok")
    BY Zenon, <1>4 DEF WriteBatch
  <2> QED
    BY Zenon, <2>2, <2>3
<1>5. CASE job.i # Len(job.units)
  <2>1. PICK e : e = Min({Len(job.units), job.i + job.size})
    OBVIOUS
  <2>2. e \in job.i .. Len(job.units)
    <3>1. Len(job.units) \in Int /\ job.i + job.size \in Int
      BY <1>2
    <3>2. e = IF Len(job.units) <= job.i + job.size THEN Len(job.units) ELSE job.i + job.size
      BY Zenon, <2>1, <3>1, MaxMin
    <3> QED
      BY <1>2, <3>2
  <2>3. PICK us : us = SubSeq(job.units, job.i + 1, e)
    BY Zenon
  <2>4. PICK s : s = job.sent \o us
    BY Zenon
  <2>5. PICK q : q = [job EXCEPT !.sent = @ \o us, !.batches = @ + 1]
    OBVIOUS
  <2>6. s \in Seq(Units) /\ Len(s) = e /\ \A k \in 1 .. e : s[k] = <<k, 0>>
    <3>1. PICK u \in Seq(Units) : u = job.units
      BY Zenon, <1>2
    <3>2. PICK t \in Seq(Units) : t = job.sent
      BY Zenon, <1>2
    <3>3. IsNext(u, t, e, us)
      BY Zenon, <1>3, <2>2, <2>3, <3>1, <3>2 DEF InOrder, IsNext
    <3>4. t \o us \in Seq(Units) /\ Len(t \o us) = e /\ InOrder(t \o us)
      BY Zenon, <3>3, SentFacts
    <3> QED
      BY Zenon, <2>4, <3>2, <3>4 DEF InOrder
  <2>7. PICK b \in Nat : b = job.batches + 1
    BY <1>2
  <2>8. q = [job EXCEPT !.sent = s, !.batches = b]
    BY Zenon, <2>4, <2>5, <2>7
  <2>9. e \in Nat /\ e <= Len(job.units)
    BY <1>2, <2>2
  <2>10. \/ job' = [q EXCEPT !.i = e]
         \/ \E state \in {"failed", "unknown"} : job' = End(q, state)
    BY Zenon, <1>5, <2>1, <2>3, <2>5 DEF WriteBatch
  <2>11. q \in Jobs /\ q.sent = s /\ q.op = "write" /\ q.out = <<>> /\ q.units = job.units /\ q.result = job.result /\ q.i = job.i
    BY Zenon, <1>1, <1>2, <1>3, <2>6, <2>7, <2>8 DEF Jobs
  <2>12. CASE job' = [q EXCEPT !.i = e]
    <3>1. PICK p : p = [q EXCEPT !.i = e]
      BY Zenon
    <3>2. /\ p \in Jobs /\ p.sent = s /\ p.op = "write" /\ p.out = <<>> /\ p.units = job.units
          /\ p.result = job.result /\ p.i = e
      BY Zenon, <2>9, <2>11, <3>1 DEF Jobs
    <3>3. p.op \notin {"none", "read", "single", "done"} /\ job.op # "done"
      BY <1>1, <3>2
    <3>4. Gathers(p) /\ Sends(p)
      BY Zenon, <1>3, <2>6, <3>2, <3>3 DEF Gathers, Sends
    <3>5. JobInv(p)
      BY Zenon, <2>9, <3>2, <3>3, <3>4 DEF JobInv
    <3> QED
      BY Zenon, <2>12, <3>1, <3>5
  <2>13. ASSUME NEW state \in {"failed", "unknown"}, job' = End(q, state) PROVE JobInv(job')
    <3>1. PICK p : p = End(q, state)
      OBVIOUS
    <3>2. /\ p \in Jobs /\ p.sent = s /\ p.op = "done" /\ p.out = <<>> /\ p.units = job.units
          /\ p.result = state /\ p.i = job.i
      BY Zenon, <2>11, <3>1 DEF Jobs, End, Results
    <3>3. p.op \notin {"none", "read", "single", "write"} /\ state # "abort"
      BY <3>2
    <3>4. Gathers(p) /\ Sends(p)
      BY Zenon, <2>6, <3>2, <3>3 DEF Gathers, Sends
    <3>5. JobInv(p)
      BY Zenon, <1>2, <3>2, <3>3, <3>4 DEF JobInv
    <3> QED
      BY Zenon, <2>13, <3>1, <3>5
  <2> QED
    BY Zenon, <2>10, <2>12, <2>13
<1> QED
  BY Zenon, <1>4, <1>5

\* In every reachable state a batched read holds the results of a prefix of
\* its units, each once, under its own specification and at its own place,
\* and of all of them when it succeeded, and no batched write has sent a unit
\* twice: for every batch size, every limit on requests and replies and every
\* length of the input (ReadPropertyMultipleBatched, ReadObjectList,
\* WritePropertyMultipleBatched).
THEOREM BatchesAreCovered == Spec => []BatchesCover
<1>1. Init => JobInv(job)
  <2> SUFFICES ASSUME Init PROVE JobInv(job)
    OBVIOUS
  <2>1. job = NoJob
    BY Zenon DEF Init, BatchInit
  <2>2. JobInv(NoJob)
    BY Zenon, NoJobFacts, StartKept
  <2> QED
    BY Zenon, <2>1, <2>2
<1>2. JobInv(job) /\ [Next]_vars => JobInv(job)'
  <2> SUFFICES ASSUME JobInv(job), [Next]_vars PROVE JobInv(job')
    OBVIOUS
  <2>1. CASE BatchNext
    BY Zenon, <2>1, BatchedReadKept, ReadKept, ObjectListKept, SingleKept, BatchedWriteKept, WriteKept DEF BatchNext
  <2>2. CASE UNCHANGED batchVars
    <3>1. job' = job
      BY Zenon, <2>2 DEF batchVars
    <3> QED
      BY Zenon, <3>1
  <2> QED
    BY Zenon, <2>1, <2>2 DEF Next, TableStep, PointStep, ScheduleStep, LogStep, FileStep,
         BatchStep, vars
<1> QED
  BY <1>1, <1>2, JobInvCovers, PTL DEF Spec
==============================================================================
