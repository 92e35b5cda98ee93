------------------------- MODULE MCTaskStateMachine -------------------------
\* The instances of TaskStateMachine that TLC checks.
EXTENDS TaskStateMachine
=============================================================================
