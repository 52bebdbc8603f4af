------------------------------ MODULE MCHand ------------------------------
(***************************************************************************)
(* Instances of Hand for TLC: a driver manages interfaces, and an          *)
(* application wants them for itself.                                      *)
(***************************************************************************)
EXTENDS Hand, TLC

CONSTANTS d, a

DriverAndApplication == {<<d, {BY_DRIVER}>>, <<a, {EXCLUSIVE}>>}

Symmetry == Permutations(Handles)
=============================================================================
