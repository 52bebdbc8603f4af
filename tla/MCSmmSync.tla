----------------------------- MODULE MCSmmSync -----------------------------
(* Instances of SmmSync for TLC. *)
EXTENDS SmmSync, TLC

CONSTANTS c1, c2, c3

\* Traditional with and without MTRRs to configure, and relaxed without (with
\* MTRRs it takes the traditional path).  With two processors every election
\* occurs, and both kinds of PlatformValidSmi; with three, traditional with
\* MTRRs and relaxed, where each barrier of BSPHandler is taken in one of them.
Paths == {m \in ModeType : m.mtrr => m.tradition}

TwoModes == {m \in Paths : m.alwaysValid <=> (m.election # "first")}

ThreeModes ==
  {m \in Paths : /\ m.election = "first" /\ m.mtrr = m.tradition
                 /\ m.alwaysValid = m.tradition}

\* The build of BeniPkg and OvmfPkg: PcdCpuSmmSyncMode is 1.
RelaxedMode ==
  {m \in ModeType : ~m.tradition /\ ~m.mtrr /\ m.alwaysValid /\ m.election = "first"}

OneOrAll  == {CPU} \cup {{c} : c \in CPU}
BootOrAll == {CPU, {BootCpu}}

\* The boot processor is named by the platform hook; the others are alike.
Symmetry == Permutations(CPU \ {BootCpu})
=============================================================================
