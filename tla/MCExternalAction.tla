--------------------------- MODULE MCExternalAction ---------------------------
(* TLC instances of ExternalAction. *)
EXTENDS ExternalAction

CONSTANTS c1, c2, o1, o2
==============================================================================
