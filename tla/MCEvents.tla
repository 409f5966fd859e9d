------------------------------ MODULE MCEvents ------------------------------
(* An analog and a multi-state point with one writer.                      *)
EXTENDS Events

PointKind == [p \in Points |-> IF p = "analog" THEN "analog" ELSE "multistate"]
PointValues == [p \in Points |-> IF p = "analog" THEN {2, 4, 6} ELSE {1, 2, 3}]
PointInitial == [p \in Points |-> IF p = "analog" THEN 4 ELSE 1]
PointConfig ==
  [p \in Points |->
    [detect |-> TRUE, class |-> TRUE, delay |-> IF p = "analog" THEN 1 ELSE 0,
     enable |-> Transitions, limits |-> {"high", "low"},
     high |-> 5, low |-> 3, deadband |-> 0, alarm |-> {2}, fault |-> {3}]]
PointSettings ==
  [detect |-> BOOLEAN, class |-> BOOLEAN, limits |-> {{"high", "low"}, {"low"}}]
AllSelected == [r \in Recipients |-> Transitions]
=============================================================================
