---------------------------- MODULE MCFifoBroker ----------------------------
(* Instances of FifoBroker for TLC: two groups; m1 and m2 belong to g1, m3  *)
(* to g2.                                                                  *)
EXTENDS FifoBroker

CONSTANTS m1, m2, m3, g1, g2

MCGroupOf == [m \in Message |-> IF m = m3 THEN g2 ELSE g1]

=============================================================================
