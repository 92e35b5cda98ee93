---------------------- MODULE MCSubscriptionScheduler ----------------------
(* Instances of SubscriptionScheduler for TLC. *)
EXTENDS SubscriptionScheduler

CONSTANTS i1, i2, w1, w2, a, b

TwoInstances == {i1, i2}
OneInstance == {i1}
OneSub == {a}
TwoSubs == {a, b}
None == {}
TwoWriters == {w1, w2}

AllOps == Operations
=============================================================================
