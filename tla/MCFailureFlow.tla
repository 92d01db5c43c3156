---------------------------- MODULE MCFailureFlow ----------------------------
(* TLC instances of FailureFlow. *)
EXTENDS FailureFlow, TLC

CONSTANTS e1, w
==============================================================================
