----------------------------- MODULE MCClientTx -----------------------------
(* Small instances of ClientTx. *)
EXTENDS ClientTx, TLC

CONSTANTS r1, r2
MCTarget == [r \in Requests |-> "device"]
MCService == [r \in Requests |-> "readProperty"]
MCServices == [r \in Requests |-> IF r = r1 THEN "readProperty" ELSE "writeProperty"]
=============================================================================
