---------------------------- MODULE MCVariable ----------------------------
(***************************************************************************)
(* Instances of Variable for TLC.  The store only ever holds Space cells,  *)
(* so the state space is finite without a bound on calls or power losses.  *)
(***************************************************************************)
EXTENDS Variable, TLC

Symmetry == Permutations(Values) \cup Permutations(Names)

\* Bound: behaviours are followed until a name has two copies in transition, or
\* nothing is promised of any name, or the boot after an unsafe update has begun.
Followed == doubled = {} /\ Sound # {} /\ (unsafe # {} => phase # "read")
=============================================================================
