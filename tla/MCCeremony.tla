----------------------------- MODULE MCCeremony -----------------------------
(* Two instances whose clocks differ by a whole window, and one rotation.  *)
EXTENDS Ceremony, TLC

CONSTANTS i1, i2, k1, k2

TwoInstances == {i1, i2}
TwoKeys      == {k1, k2}
MCSkew       == [i \in TwoInstances |-> IF i = i2 THEN 1 ELSE 0]
=============================================================================
