----------------------------- MODULE MCDxeTimer -----------------------------
(***************************************************************************)
(* Instances of DxeTimer for TLC: one or two timers, a clock of a few      *)
(* units.                                                                  *)
(***************************************************************************)
EXTENDS DxeTimer

CONSTANTS e1, e2   \* two timer events
=============================================================================
