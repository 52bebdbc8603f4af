---------------------------- MODULE AtomicBlock ----------------------------
(***************************************************************************)
(* What EFI_FAULT_TOLERANT_WRITE_PROTOCOL.Write promises, whatever happens *)
(* to the power: "ensuring at all times that either the original contents  *)
(* or the modified contents are available"                                 *)
(* (MdeModulePkg/Include/Protocol/FaultTolerantWrite.h).                   *)
(*                                                                         *)
(* A block's contents change in one indivisible step, only to the value of *)
(* the write under way; a write that returns success has taken that step;  *)
(* one that fails, or is cut short by a loss of power, may have taken it   *)
(* or not, and never takes it later.                                       *)
(***************************************************************************)
CONSTANTS Blocks, Values, NoRequest

VARIABLES
  content,   \* [Blocks -> Values]: what a reader would get after recovery
  request,   \* the write under way: [blk, val], or NoRequest
  result     \* how the last write ended

vars == <<content, request, result>>

Request == [blk : Blocks, val : Values]

Init ==
  /\ content \in [Blocks -> Values]
  /\ request = NoRequest
  /\ result = "none"

Start(r) ==
  /\ request = NoRequest
  /\ request' = r
  /\ result' = "none"
  /\ UNCHANGED content

Commit ==
  /\ request # NoRequest
  /\ content' = [content EXCEPT ![request.blk] = request.val]
  /\ UNCHANGED <<request, result>>

Succeed ==
  /\ request # NoRequest
  /\ content[request.blk] = request.val
  /\ request' = NoRequest
  /\ result' = "success"
  /\ UNCHANGED content

Fail ==
  /\ request # NoRequest
  /\ request' = NoRequest
  /\ result' = "failed"
  /\ UNCHANGED content

Next == (\E r \in Request : Start(r)) \/ Commit \/ Succeed \/ Fail

Spec == Init /\ [][Next]_vars
=============================================================================
