-------------------------- MODULE MCExecutionRouter --------------------------
(* Instances of ExecutionRouter for TLC. *)
EXTENDS ExecutionRouter

CONSTANTS f1, f2, c1
OneFast == {f1}
TwoFast == {f1, f2}
OneCancel == {c1}
OneFastOrder == <<f1, c1>>
TwoFastOrder == <<f1, f2, c1>>
=============================================================================
