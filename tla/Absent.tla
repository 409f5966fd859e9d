------------------------------- MODULE Absent -------------------------------
(***************************************************************************)
(* The value that stands for nothing: a nil pointer, an empty slot, a NULL *)
(* of the protocol, a result that is not there yet.                        *)
(***************************************************************************)
CONSTANT None
=============================================================================
