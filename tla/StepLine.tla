------------------------------- MODULE StepLine -------------------------------
(***************************************************************************)
(* What the steps of a pipeline are promised: they are done one after the  *)
(* other. Each is offered once, a delivery of the current one hands on to  *)
(* the next in the same step, and a line that has ended stays as it is.    *)
(* A delivery may be taken back; that changes nothing of the line.         *)
(***************************************************************************)
EXTENDS Naturals

CONSTANT N  \* steps

VARIABLES
  status, at,  \* of the line; the current step, 0 for none
  offered,     \* the steps that have been given out
  handed,      \* those that have handed on
  delivered    \* those whose delivery stands

vars == <<status, at, offered, handed, delivered>>

Init ==
  /\ status = "none" /\ at = 0
  /\ offered = {} /\ handed = {} /\ delivered = {}

Start ==
  /\ status = "none" /\ status' = "active"
  /\ at' = 1 /\ offered' = {1} /\ UNCHANGED handed

HandOn ==
  /\ status = "active"
  /\ handed' = handed \cup {at} /\ delivered' = delivered \cup {at}
  /\ \/ at = N /\ status' = "complete" /\ at' = 0 /\ UNCHANGED offered
     \/ /\ at # N /\ at + 1 \notin offered
        /\ at' = at + 1 /\ offered' = offered \cup {at + 1} /\ UNCHANGED status

Fail == status = "active" /\ status' = "failed" /\ UNCHANGED <<at, offered, handed>>

Stand == UNCHANGED <<status, at, offered, handed>>

Next == HandOn \/ ((Start \/ Fail \/ Stand) /\ delivered' \subseteq delivered)

Spec == Init /\ [][Next]_vars
===============================================================================
