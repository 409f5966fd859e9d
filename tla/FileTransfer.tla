---------------------------- MODULE FileTransfer ----------------------------
(***************************************************************************)
(* A File object (server/object/file.go) behind AtomicReadFile and         *)
(* AtomicWriteFile (server/handlers_file.go), and the client helpers that  *)
(* move whole files in chunks (client/file_helpers.go).  Positions are     *)
(* octets of a stream file or records of a record file; an octet or record *)
(* is a small number, 0 the octet that fills a gap.                        *)
(*                                                                         *)
(* since is a history variable: whether anybody else has written the file  *)
(* since the transfer began.                                               *)
(***************************************************************************)
EXTENDS Absent, Integers, Sequences

CONSTANTS Contents,    \* what the file may hold at first
          Payloads,    \* what a client writes
          Starts,      \* start positions a client asks for, -1 the end
          Chunks,      \* ChunkSize values
          MaxSize,     \* FileConfig.MaxSize
          MaxTotals,   \* FileReadOptions.MaxTotal values
          MaxPosition   \* math.MaxInt32

\* A ChunkSize or MaxTotal of 0 is replaced by a default (ReadFileStream,
\* ReadFileRecords, WriteFileStream).
ASSUME FileAssumption ==
    /\ Contents \subseteq Seq(Nat) /\ Contents # {} /\ Payloads \subseteq Seq(Nat)
    /\ MaxSize \in Nat /\ \A c \in Contents : Len(c) <= MaxSize
    /\ Starts \subseteq Int /\ MaxPosition \in Nat
    /\ Chunks \subseteq Nat \ {0} /\ MaxTotals \subseteq Nat \ {0}
    /\ None \notin Int

VARIABLES file, transfer, since

fileVars == <<file, transfer, since>>

\* file: [record, readOnly, data]; transfer: the client helper that runs.
NoTransfer == [op |-> "none", pos |-> 0, data |-> <<>>, out |-> <<>>, chunk |-> 0, max |-> 0,
               base |-> None, size |-> 0, result |-> None]

FileInit(methods, readOnlys, contents) ==
    /\ \E record \in methods, readOnly \in readOnlys, c \in contents :
         file = [record |-> record, readOnly |-> readOnly, data |-> c]
    /\ transfer = NoTransfer
    /\ since = FALSE

-----------------------------------------------------------------------------
\* ReadStream and ReadRecords: the same selection of octets or of records.
ReadFile(f, start, count) ==
    LET n == Len(f.data)
        end == IF count < n - start THEN start + count ELSE n
    IN IF start < 0 \/ start > n THEN [ok |-> FALSE, data |-> <<>>, eof |-> FALSE]
       ELSE [ok |-> TRUE, data |-> SubSeq(f.data, start + 1, end), eof |-> end = n]

\* The content after xs is put at position at, a gap before it filled with 0.
Overlay(data, at, xs) ==
    [i \in 1 .. (IF at + Len(xs) > Len(data) THEN at + Len(xs) ELSE Len(data)) |->
       IF i \in at + 1 .. at + Len(xs) THEN xs[i - at]
       ELSE IF i <= Len(data) THEN data[i] ELSE 0]

\* WriteStream: -1 appends, a start past the end leaves a gap.
WriteStream(f, start, xs) ==
    LET at == IF start = -1 THEN Len(f.data) ELSE start IN
    IF f.readOnly \/ start < -1 \/ at + Len(xs) > MaxSize THEN [ok |-> FALSE, at |-> 0, data |-> f.data]
    ELSE [ok |-> TRUE, at |-> at, data |-> Overlay(f.data, at, xs)]

\* WriteRecords: a start past the end appends as well.
WriteRecords(f, start, xs) ==
    LET at == IF start = -1 \/ start > Len(f.data) THEN Len(f.data) ELSE start IN
    IF f.readOnly \/ start < -1 \/ at + Len(xs) > MaxSize THEN [ok |-> FALSE, at |-> 0, data |-> f.data]
    ELSE [ok |-> TRUE, at |-> at, data |-> Overlay(f.data, at, xs)]

\* fileFor and the handlers: the access method has to be the file's.
atomicReadFile(record, start, count) ==
    IF file.record # record THEN [ok |-> FALSE, data |-> <<>>, eof |-> FALSE]
    ELSE ReadFile(file, start, count)

atomicWriteFile(record, start, xs) ==
    IF file.record # record THEN [ok |-> FALSE, at |-> 0, data |-> file.data]
    ELSE IF record THEN WriteRecords(file, start, xs) ELSE WriteStream(file, start, xs)

-----------------------------------------------------------------------------
Finish(t, result) == [t EXCEPT !.op = "done", !.result = result]

nextFilePosition(start, n) == IF start + n \in 0 .. MaxPosition THEN start + n ELSE None

\* chunkCount: the chunk size, capped by what MaxTotal still allows.
chunkCount(chunk, remain) == IF remain < chunk THEN remain ELSE chunk

BeginRead ==
    \E record \in BOOLEAN, chunk \in Chunks, max \in MaxTotals :
       /\ transfer.op = "none"
       /\ transfer' = [NoTransfer EXCEPT !.op = IF record THEN "readRecords" ELSE "readStream",
                                         !.chunk = chunk, !.max = max]
       /\ since' = FALSE
       /\ UNCHANGED file

\* A slip: the end of the file is not recognised by its flag but by a short
\* chunk, so the last full chunk is followed by one more position.
readStepShort(t, ack) ==
    LET q == [t EXCEPT !.out = @ \o ack.data]
        pos == nextFilePosition(t.pos, Len(ack.data))
    IN CASE ~ack.ok -> Finish(t, "error")
         [] ack.ok /\ pos = None -> Finish(q, "error")
         [] ack.ok /\ pos # None /\ Len(ack.data) <= t.chunk -> Finish(q, "ok")
         [] OTHER -> [q EXCEPT !.pos = pos]

\* What ReadFileStream and ReadFileRecords do with an answer.
readStep(t, ack) ==
    LET q == [t EXCEPT !.out = @ \o ack.data]
        pos == nextFilePosition(t.pos, Len(ack.data))
    IN CASE ~ack.ok -> Finish(t, "error")
         [] ack.ok /\ pos = None -> Finish(q, "error")
         [] ack.ok /\ pos # None /\ (ack.eof \/ ack.data = <<>>) -> Finish(q, "ok")
         [] OTHER -> [q EXCEPT !.pos = pos]

ReadChunk ==
    /\ transfer.op \in {"readStream", "readRecords"}
    /\ LET t == transfer IN
       transfer' = IF Len(t.out) >= t.max THEN Finish(t, "limit")
                   ELSE readStep(t, atomicReadFile(t.op = "readRecords", t.pos,
                                                   chunkCount(t.chunk, t.max - Len(t.out))))
    /\ UNCHANGED <<file, since>>

BeginWrite ==
    \E start \in Starts, chunk \in Chunks, xs \in Payloads :
       /\ transfer.op = "none"
       /\ transfer' = IF start >= 0 /\ start + Len(xs) > MaxPosition
                      THEN Finish(NoTransfer, "error")
                      ELSE [NoTransfer EXCEPT !.op = "writeStream", !.pos = start, !.data = xs,
                                              !.out = xs, !.chunk = chunk]
       /\ since' = FALSE
       /\ UNCHANGED file

\* WriteFileStream after one chunk: a negative start leaves the position to
\* the device, whose acknowledgement says where the chunk went.
writeStep(t, xs, ack) ==
    LET pos == nextFilePosition(IF t.pos < 0 THEN ack.at ELSE t.pos, Len(xs))
        q == [t EXCEPT !.data = SubSeq(t.data, Len(xs) + 1, Len(t.data)),
                       !.base = IF t.base = None THEN ack.at ELSE t.base,
                       !.size = t.size + Len(xs)]
    IN CASE ~ack.ok -> Finish(t, "error")
         [] ack.ok /\ pos = None -> Finish(q, "error")
         [] OTHER -> [q EXCEPT !.pos = pos]

WriteChunk ==
    /\ transfer.op = "writeStream"
    /\ LET t == transfer
           xs == SubSeq(t.data, 1, IF t.chunk < Len(t.data) THEN t.chunk ELSE Len(t.data))
           ack == atomicWriteFile(FALSE, t.pos, xs)
       IN IF t.data = <<>> THEN transfer' = Finish(t, "ok") /\ UNCHANGED file
          ELSE /\ file' = [file EXCEPT !.data = ack.data]
               /\ transfer' = writeStep(t, xs, ack)
    /\ UNCHANGED since

\* Another client writes the file between two chunks.
OtherWrite ==
    \E start \in Starts, xs \in Payloads :
       /\ transfer.op \notin {"none", "done"} /\ ~since
       /\ LET ack == atomicWriteFile(file.record, start, xs) IN
          /\ ack.ok
          /\ file' = [file EXCEPT !.data = ack.data]
       /\ since' = TRUE
       /\ UNCHANGED transfer

FileNext == BeginRead \/ ReadChunk \/ BeginWrite \/ WriteChunk \/ OtherWrite

-----------------------------------------------------------------------------
\* When nobody else wrote the file meanwhile: a read that ends without an
\* error returned the whole file, and a limited one a prefix of it as long as
\* the limit; the chunks of a write that were acknowledged lie one after the
\* other in the file from where the first went, all of them when it succeeds;
\* and the file never outgrows its size, whoever writes (ReadFileStream,
\* ReadFileRecords, WriteFileStream).
FileIsCopied ==
    /\ ~since /\ transfer.op = "done" /\ transfer.max > 0 =>
         /\ transfer.result = "ok" => transfer.out = file.data
         /\ transfer.result = "limit" => transfer.out = SubSeq(file.data, 1, transfer.max)
    /\ ~since /\ transfer.base # None =>
         SubSeq(file.data, transfer.base + 1, transfer.base + transfer.size)
           = SubSeq(transfer.out, 1, transfer.size)
    /\ transfer.op = "done" /\ transfer.result = "ok" /\ transfer.max = 0
         => transfer.size = Len(transfer.out)
    /\ Len(file.data) <= MaxSize
=============================================================================
