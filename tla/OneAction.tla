------------------------------ MODULE OneAction ------------------------------
(***************************************************************************)
(* What is promised of an external action that is asked for under one key: *)
(* it gets one answer; it acts once at most, after a yes that was not      *)
(* taken back; it succeeds only if it has acted; and how it ended stays.   *)
(* When those who answer contradict each other, nothing is promised any    *)
(* more.                                                                   *)
(***************************************************************************)
EXTENDS Naturals

VARIABLES
  agreed,  \* nobody has contradicted himself
  answer,  \* "none", "yes" or "no"
  stage,   \* "open", "executing", or how it ended
  acted    \* times

vars == <<agreed, answer, stage, acted>>

Init == agreed = TRUE /\ answer = "none" /\ stage = "open" /\ acted = 0

Answer ==
  /\ answer = "none" /\ stage = "open" /\ UNCHANGED acted
  /\ \/ answer' \in {"yes", "no"} /\ UNCHANGED stage
     \/ answer' = "no" /\ stage' = "blocked"

(* A yes can be taken back until it is carried out; a rejection is a no of *)
(* its own where none was given.                                           *)
Reject ==
  /\ stage = "open" /\ stage' = "rejected" /\ UNCHANGED acted
  /\ answer' = IF answer = "none" THEN "no" ELSE answer

Execute ==
  /\ answer = "yes" /\ stage = "open" /\ stage' = "executing" /\ UNCHANGED <<answer, acted>>

Act == stage = "executing" /\ acted = 0 /\ acted' = 1 /\ UNCHANGED <<answer, stage>>

End ==
  /\ stage = "executing" /\ UNCHANGED <<answer, acted>>
  /\ stage' = "failed" \/ (stage' = "succeeded" /\ acted = 1)

Next ==
  \/ ~agreed'
  \/ agreed /\ agreed' /\ (Answer \/ Reject \/ Execute \/ Act \/ End)

Spec == Init /\ [][Next]_vars
==============================================================================
