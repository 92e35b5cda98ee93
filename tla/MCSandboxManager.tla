-------------------------- MODULE MCSandboxManager --------------------------
(* Instances of SandboxManager for TLC. *)
EXTENDS SandboxManager

CONSTANTS r1, r2, b1, b2, e1

TwoRequests == {r1, r2}
TwoBoxes == {b1, b2}
OneExecution == {e1}
=============================================================================
