---------------------------- MODULE MCSegRequest ----------------------------
(***************************************************************************)
(* Instances of SegRequest with few sequence numbers, so that messages of  *)
(* SeqMod and of more segments are among the sizes; limits below and at    *)
(* the longest message.                                                    *)
(***************************************************************************)
EXTENDS SegRequest

MCSizes == {2, 3, 4, 5}
MCLimits == {[segments |-> 2, octets |-> 4], [segments |-> 4, octets |-> 3],
             [segments |-> 4, octets |-> 4]}
=============================================================================
