----------------------------- MODULE ObjectModel -----------------------------
(***************************************************************************)
(* The objects of a served device and the client helpers that read them in *)
(* pages, one subject at a time: the subject is chosen at the start and    *)
(* the rest of the device stays as it was built, because the subjects      *)
(* share no lock and no state (every object has its own lock, and a helper *)
(* call its own locals).                                                   *)
(***************************************************************************)
EXTENDS ObjectTable, Points, Schedules, TrendLog, FileTransfer, Batches

CONSTANTS Asked,     \* what each request on the table asks
          ShortLists \* the Exception_Schedule a schedule starts with

ASSUME ModelAssumption == ShortLists \subseteq Exceptions

VARIABLE subject

Subjects == {"table", "point", "schedule", "log", "file", "batch"}

vars == <<tableVars, pointVars, schedVars, logVars, fileVars, batchVars, subject>>

AnyOf(s, S) == IF subject = s THEN S ELSE {CHOOSE x \in S : TRUE}

Init ==
    /\ subject \in Subjects
    /\ \E asked \in AnyOf("table", Asked) : TableInit(asked)
    /\ PointInit(AnyOf("point", Kinds), AnyOf("point", BOOLEAN))
    /\ SchedInit(AnyOf("schedule", Weeklies), AnyOf("schedule", ShortLists),
                 AnyOf("schedule", SUBSET Targets), AnyOf("schedule", DateLists))
    /\ LogInit(AnyOf("log", BOOLEAN))
    /\ FileInit(AnyOf("file", BOOLEAN), AnyOf("file", BOOLEAN), AnyOf("file", Contents))
    /\ BatchInit

TableStep ==
    /\ subject = "table"
    /\ \E w \in Requests : Work(w)
    /\ UNCHANGED <<pointVars, schedVars, logVars, fileVars, batchVars, subject>>

PointStep ==
    /\ subject = "point"
    /\ PointNext
    /\ UNCHANGED <<tableVars, schedVars, logVars, fileVars, batchVars, subject>>

ScheduleStep ==
    /\ subject = "schedule"
    /\ SchedNext
    /\ UNCHANGED <<tableVars, pointVars, logVars, fileVars, batchVars, subject>>

LogStep ==
    /\ subject = "log"
    /\ LogNext
    /\ UNCHANGED <<tableVars, pointVars, schedVars, fileVars, batchVars, subject>>

FileStep ==
    /\ subject = "file"
    /\ FileNext
    /\ UNCHANGED <<tableVars, pointVars, schedVars, logVars, batchVars, subject>>

BatchStep ==
    /\ subject = "batch"
    /\ BatchNext
    /\ UNCHANGED <<tableVars, pointVars, schedVars, logVars, fileVars, subject>>

Next == TableStep \/ PointStep \/ ScheduleStep \/ LogStep \/ FileStep \/ BatchStep

Spec == Init /\ [][Next]_vars

\* The same, with a log as the only subject.
SpecLog == Init /\ subject = "log" /\ [][Next]_vars
=============================================================================
