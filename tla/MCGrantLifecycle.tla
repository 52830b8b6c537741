-------------------------- MODULE MCGrantLifecycle --------------------------
(* Small instances of GrantLifecycle for TLC.                              *)
EXTENDS GrantLifecycle, TLC

CONSTANTS c1, c2, c3, r1, r2

TwoCalls   == {c1, c2}
ThreeCalls == {c1, c2, c3}
OneReg     == {r1}
TwoRegs    == {r1, r2}

Symmetry == Permutations({c1, c2, c3}) \union Permutations({r1, r2})
=============================================================================
