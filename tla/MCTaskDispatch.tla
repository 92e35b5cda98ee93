-------------------------- MODULE MCTaskDispatch ---------------------------
(* Bounds for checking TaskDispatch. *)
EXTENDS TaskDispatch

CONSTANTS c1, c2, k1

OneConsumer == {c1}
TwoConsumers == {c1, c2}
OneChecker == {k1}
AllKinds == Kinds
SecondTurn == {2}
SubmitOnly == {"submit"}
=============================================================================
