------------------------------- MODULE Batches -------------------------------
(***************************************************************************)
(* The client's batched property services: ReadPropertyMultipleBatched     *)
(* (client/rpm_batched.go), which cuts a long read into requests and       *)
(* halves the batch when the peer cannot return that much,                 *)
(* ReadObjectList by index (client/list_helpers.go), which falls back from *)
(* the whole array to batches to single reads, and                         *)
(* WritePropertyMultipleBatched (client/wpm_batch.go), which never sends a *)
(* batch twice.  A unit is one property reference, named by the            *)
(* specification it belongs to and its place there.                        *)
(***************************************************************************)
EXTENDS Absent, Integers, Sequences, FiniteSetsExt

CONSTANTS Specs,        \* sequences of property counts, one per specification
          BatchSizes,   \* MaxPropertiesPerBatch or MaxSpecsPerBatch
          RequestFits,  \* references that fit in one unsegmented request
          ReplyFits,    \* results that fit in one reply of the peer
          MaxBatches

\* A batch size of 0 is replaced by a default.
ASSUME BatchAssumption ==
    /\ Specs \subseteq Seq(Nat) /\ BatchSizes \subseteq Nat \ {0}
    /\ RequestFits \subseteq Nat /\ ReplyFits \subseteq Nat /\ MaxBatches \in Nat

VARIABLES job

batchVars == <<job>>

\* The units of a read, in input order.
unitsOf(spec) ==
    LET units[i \in 0 .. Len(spec)] ==
          IF i = 0 THEN <<>> ELSE units[i - 1] \o [k \in 1 .. spec[i] |-> <<i, k>>]
    IN units[Len(spec)]

NoJob == [op |-> "none", units |-> <<>>, i |-> 0, size |-> 0, fits |-> 0, reply |-> 0, batches |-> 0,
         out |-> <<>>, result |-> None, sent |-> <<>>]

BatchInit == job = NoJob

End(j, result) == [j EXCEPT !.op = "done", !.result = result]

ReadPropertyMultipleBatched ==
    \E spec \in Specs, size \in BatchSizes, fits \in RequestFits, reply \in ReplyFits :
       /\ job.op = "none"
       /\ job' = [NoJob EXCEPT !.op = "read", !.units = unitsOf(spec), !.size = size,
                              !.fits = fits, !.reply = reply, !.out = [i \in 1 .. Len(spec) |-> <<>>]]

\* The end of the next batch: at least one unit, as many as fit the request
\* and the batch size.
batchEnd(j) == Min({Len(j.units), j.i + Max({1, Min({j.size, j.fits})})})

\* The results of a batch are appended one by one, each under the
\* specification its unit came from.
addResult(out, u) == [out EXCEPT ![u[1]] = Append(@, u)]

collect(out, us) ==
    LET gathered[n \in 0 .. Len(us)] ==
          IF n = 0 THEN out ELSE addResult(gathered[n - 1], us[n])
    IN gathered[Len(us)]

\* A slip: after an abort the halved batch starts behind the one aborted.
batchStepSkips(j) ==
    LET end == batchEnd(j)
        us == SubSeq(j.units, j.i + 1, end)
        q == [j EXCEPT !.batches = @ + 1]
    IN IF Len(us) > j.reply
       THEN IF Len(us) > 1 THEN [q EXCEPT !.size = Max({1, Len(us) \div 2}), !.i = j.i + 1]
            ELSE End(q, "abort")
       ELSE [q EXCEPT !.out = collect(j.out, us), !.i = end]

\* One transaction: the peer aborts when its reply cannot hold the results,
\* and the batch is halved and sent again.
batchStep(j) ==
    LET end == batchEnd(j)
        us == SubSeq(j.units, j.i + 1, end)
        q == [j EXCEPT !.batches = @ + 1]
    IN IF Len(us) > j.reply
       THEN IF Len(us) > 1 THEN [q EXCEPT !.size = Max({1, Len(us) \div 2})]
            ELSE End(q, "abort")
       ELSE [q EXCEPT !.out = collect(j.out, us), !.i = end]

ReadBatch ==
    /\ job.op = "read"
    /\ job' = IF job.i = Len(job.units) THEN End(job, "ok")
              ELSE IF job.batches >= MaxBatches THEN End(job, "limit")
              ELSE batchStep(job)

\* Any other failure of a transaction ends the read with what it has.
ReadFails ==
    /\ job.op = "read" /\ job.i < Len(job.units) /\ job.batches < MaxBatches
    /\ job' = End([job EXCEPT !.batches = @ + 1], "error")

-----------------------------------------------------------------------------
\* ReadObjectList: the whole array when one reply holds it; else its length
\* and its elements in batches of their own count, or one by one from a peer
\* without ReadPropertyMultiple.
objectListLength(count, maxItems) == Min({count, maxItems})

ReadObjectList ==
    \E count \in {Len(unitsOf(s)) : s \in Specs}, maxItems \in BatchSizes, reply \in ReplyFits,
       rpm \in BOOLEAN :
       LET n == objectListLength(count, maxItems)
           list == [k \in 1 .. n |-> <<1, k>>]
       IN /\ job.op = "none"
          /\ job' = IF count <= reply
                    THEN End([NoJob EXCEPT !.units = list, !.out = <<list>>], "ok")
                    ELSE [NoJob EXCEPT !.op = IF n = 0 \/ rpm THEN "read" ELSE "single",
                                      !.units = list, !.size = n, !.fits = n, !.reply = reply,
                                      !.out = <<<<>>>>]

ReadSingle ==
    /\ job.op = "single"
    /\ job' = IF job.i = Len(job.units) THEN End(job, "ok")
              ELSE IF job.reply = 0 THEN End(job, "abort")
              ELSE [job EXCEPT !.out = collect(job.out, <<job.units[job.i + 1]>>), !.i = @ + 1]

-----------------------------------------------------------------------------
WritePropertyMultipleBatched ==
    \E spec \in Specs, size \in BatchSizes :
       /\ job.op = "none"
       /\ job' = [NoJob EXCEPT !.op = "write", !.size = size,
                              !.units = [i \in 1 .. Len(spec) |-> <<i, 0>>]]

\* A batch is acknowledged, refused, or its outcome stays unknown; after
\* anything but an acknowledgement nothing more is sent.
WriteBatch ==
    /\ job.op = "write"
    /\ LET end == Min({Len(job.units), job.i + job.size})
           us == SubSeq(job.units, job.i + 1, end)
           q == [job EXCEPT !.sent = @ \o us, !.batches = @ + 1]
       IN IF job.i = Len(job.units) THEN job' = End(job, "ok")
          ELSE \/ job' = [q EXCEPT !.i = end]
               \/ \E state \in {"failed", "unknown"} : job' = End(q, state)

BatchNext ==
    \/ ReadPropertyMultipleBatched \/ ReadBatch \/ ReadFails
    \/ ReadObjectList \/ ReadSingle
    \/ WritePropertyMultipleBatched \/ WriteBatch

-----------------------------------------------------------------------------
\* The results a batched read has gathered are those of a prefix of its
\* units, each once, under its own specification and at its own place there,
\* and of all of them when it succeeds, however often the batch was halved; a
\* unit is given up for its size only when it alone does not fit the peer's
\* reply; and a batched write sends no unit twice
\* (ReadPropertyMultipleBatched, ReadObjectList,
\* WritePropertyMultipleBatched).
BatchesCover ==
    /\ job.out # <<>> /\ (job.op \in {"read", "single"} \/ job.result # None) =>
         LET done == IF job.op = "done" /\ job.result = "ok" THEN Len(job.units) ELSE job.i IN
         /\ \A i \in 1 .. Len(job.out) : \A k \in 1 .. Len(job.out[i]) :
              job.out[i][k] = <<i, k>> /\ \E j \in 1 .. done : job.units[j] = <<i, k>>
         /\ \A j \in 1 .. done :
              LET u == job.units[j] IN
              u[1] \in 1 .. Len(job.out) /\ u[2] \in 1 .. Len(job.out[u[1]])
    /\ job.op = "done" /\ job.result = "abort" => job.reply = 0
    /\ \A a, b \in 1 .. Len(job.sent) : a # b => job.sent[a] # job.sent[b]
=============================================================================
