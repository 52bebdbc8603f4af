------------------------------- MODULE MCFtw -------------------------------
(***************************************************************************)
(* Instances of Ftw: one or two target blocks, two values, a work space of *)
(* a few cells so that it is reclaimed after every second or third write.  *)
(***************************************************************************)
EXTENDS Ftw

CONSTANTS b1, b2, v1, v2

AllServices == {"Allocate", "Write", "Restart", "Abort", "GetLastWrite"}
NoAbort == AllServices \ {"Abort"}
=============================================================================
