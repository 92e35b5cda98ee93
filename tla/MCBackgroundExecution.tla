----------------------- MODULE MCBackgroundExecution -----------------------
(* Instances of BackgroundExecution for TLC. *)
EXTENDS BackgroundExecution

CONSTANTS w1, w2, h1, h2, s1, s2

NoExec == {}
OneExec == {1}
TwoExecs == {1, 2}
OneWorker == {w1}
OneHandler == {h1}
TwoHandlers == {h1, h2}
OneScheduler == {s1}
=============================================================================
