------------------------------ MODULE Transfer ------------------------------
(***************************************************************************)
(* What a segmented transfer promises, whatever windows, acknowledgements, *)
(* retransmissions and timers it is made of: the receiver hands over only  *)
(* the message that was sent, whole, and the sender reports success only   *)
(* of a message that was handed over.                                      *)
(***************************************************************************)
EXTENDS Naturals, Sequences

CONSTANT MaxAccepts   \* how often the receiver may hand over the message

VARIABLES
  message,     \* the payload of the sender, which never changes
  accepted,    \* messages the receiver handed over
  verdict      \* what the sender reports: "none" so far, "sent", "failed"

Init == accepted = <<>> /\ verdict = "none"

Accept ==
  /\ Len(accepted) < MaxAccepts
  /\ accepted' = Append(accepted, message)
  /\ UNCHANGED <<message, verdict>>

Succeed ==
  /\ verdict = "none" /\ accepted # <<>>
  /\ verdict' = "sent"
  /\ UNCHANGED <<message, accepted>>

Fail ==
  /\ verdict = "none"
  /\ verdict' = "failed"
  /\ UNCHANGED <<message, accepted>>

Next == Accept \/ Succeed \/ Fail

Spec == Init /\ [][Next]_<<message, accepted, verdict>>
=============================================================================
