----------------------------- MODULE MCSegReply -----------------------------
(***************************************************************************)
(* Instances of SegReply with few sequence numbers: sizes within every     *)
(* limit, beyond the client's, and beyond the server's.                    *)
(***************************************************************************)
EXTENDS SegReply

MCSizes == {2, 3, 4, 5}
MCLimits == {[segments |-> 2, octets |-> 4], [segments |-> 4, octets |-> 3],
             [segments |-> 4, octets |-> 4]}
=============================================================================
