------------------------- MODULE MCDistributedLock -------------------------
(* Instances of DistributedLock for TLC. *)
EXTENDS DistributedLock

CONSTANTS i1, i2, i3

ThreeInstances == {i1, i2, i3}
=============================================================================
