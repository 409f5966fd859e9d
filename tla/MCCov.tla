------------------------------- MODULE MCCov -------------------------------
(***************************************************************************)
(* Instances of Cov: requests under a key of object "a", where any change  *)
(* counts, and under a key of objects "a" and "b" with an increment of 2;  *)
(* "a" changes.                                                            *)
(***************************************************************************)
EXTENDS Cov, TLC

CONSTANTS single, multiple

MCMonitored == [k \in Keys |-> IF k = single THEN {"a"} ELSE {"a", "b"}]
MCIncrement == [k \in Keys |-> IF k = single THEN 0 ELSE 2]
MCInitial == [o \in Objects |-> 0]
MCValues == [o \in Objects |-> IF o = "a" THEN {0, 1, 2} ELSE {0}]
Symmetry == Permutations(Subs)
=============================================================================
