------------------------------ MODULE Segment ------------------------------
(***************************************************************************)
(* Package internal/segment: the arithmetic both sides of a segmented      *)
(* transfer share.  SeqMod stands for 256, the number of sequence numbers, *)
(* MaxWindow for 127.  The payload of a segment is its index in the        *)
(* message, and every segment has unit length.                             *)
(***************************************************************************)
EXTENDS Integers, Sequences

CONSTANTS
  SeqMod,      \* number of distinct sequence numbers (MaxSegments, 256)
  MaxWindow    \* largest window size (127)

ASSUME SegmentAssumption ==
  /\ SeqMod \in Nat \ {0, 1}
  /\ MaxWindow \in Nat \ {0}

ValidWindow(w) == w >= 1 /\ w <= MaxWindow

\* The actual window of a message the local side receives.
Window(local, proposed) ==
  LET w == IF proposed > 0 /\ proposed < local THEN proposed ELSE local
  IN IF w = 0 THEN 1 ELSE w

(***************************************************************************)
(* A Reassembly: the sequence number expected next, the segments stored    *)
(* since the last SegmentACK and the payload so far.  Its limits never     *)
(* change and are a record limits == [segments, octets] beside it.         *)
(***************************************************************************)
NewReassembly == [expected |-> 0, inWindow |-> 0, buf |-> <<>>]

\* Last: the sequence number a SegmentACK names (uint8 arithmetic).
Last(asm) == (asm.expected + SeqMod - 1) % SeqMod

\* Mutant: a repeated segment is stored again.
AddOutcomeRepeated(asm, seq, more, window, limits) ==
  CASE seq > asm.expected -> "OutOfOrder"
    [] seq <= asm.expected /\ Len(asm.buf) + 1 > limits.segments -> "TooManySegments"
    [] OTHER -> IF ~more THEN "Complete" ELSE "StoredAck"

\* Mutant: the first segment is not acknowledged at once.
AddOutcomeLazy(asm, seq, more, window, limits) ==
  CASE seq # asm.expected -> "OutOfOrder"
    [] seq = asm.expected /\ Len(asm.buf) + 1 > limits.segments -> "TooManySegments"
    [] OTHER -> IF ~more THEN "Complete"
                ELSE IF asm.inWindow + 1 >= window THEN "StoredAck" ELSE "Stored"

\* What Add answers for sequence number seq, without storing the segment.
AddOutcome(asm, seq, more, window, limits) ==
  CASE seq # asm.expected -> "OutOfOrder"
    [] seq = asm.expected /\ Len(asm.buf) + 1 > limits.segments -> "TooManySegments"
    [] seq = asm.expected /\ Len(asm.buf) + 1 <= limits.segments
         /\ Len(asm.buf) + 1 > limits.octets -> "TooLong"
    [] OTHER -> IF ~more THEN "Complete"
                ELSE IF Len(asm.buf) = 0 \/ asm.inWindow + 1 >= window
                THEN "StoredAck" ELSE "Stored"

FullOutcomes == {"TooManySegments", "TooLong"}

\* The reassembly after Add stored the segment with this payload.
AddStored(asm, outcome, payload) ==
  [expected |-> (asm.expected + 1) % SeqMod,
   inWindow |-> IF outcome = "Stored" THEN asm.inWindow + 1 ELSE 0,
   buf |-> Append(asm.buf, payload)]

Least(a, b) == IF a < b THEN a ELSE b
=============================================================================
