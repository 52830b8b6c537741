------------------------------ MODULE MCCaches ------------------------------
(* Two usable values, and time for a success window to follow two changes. *)
EXTENDS Caches

CONSTANTS v1, v2

TwoValues == {v1, v2}
=============================================================================
