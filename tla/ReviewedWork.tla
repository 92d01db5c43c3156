----------------------------- MODULE ReviewedWork -----------------------------
(***************************************************************************)
(* What quality review promises of a task, as long as all is calm: one     *)
(* deliverable is made at a time and judged before the next is begun, a    *)
(* task is done when the deliverable it has was accepted, and what is done *)
(* or given up stays so.                                                   *)
(***************************************************************************)
EXTENDS Naturals

VARIABLES
  calm,
  stage,     \* "todo", "making", "judging", "asked", "done" or "dropped"
  made,      \* deliverables
  accepted   \* the one that was accepted, 0 for none

vars == <<calm, stage, made, accepted>>

Init == calm = TRUE /\ stage = "todo" /\ made = 0 /\ accepted = 0

Goes(from, to) == stage \in from /\ stage' \in to /\ UNCHANGED <<made, accepted>>

Begin   == Goes({"todo"}, {"making"})
GiveUp  == Goes({"making"}, {"todo", "dropped"})
Return  == Goes({"judging"}, {"todo", "asked", "dropped"})
Resume  == Goes({"asked"}, {"todo", "dropped"})

Deliver == stage = "making" /\ stage' = "judging" /\ made' = made + 1 /\ UNCHANGED accepted
Accept  == stage = "judging" /\ stage' = "done" /\ accepted' = made /\ UNCHANGED made

Next ==
  \/ ~calm'
  \/ calm /\ calm' /\ (Begin \/ GiveUp \/ Return \/ Resume \/ Deliver \/ Accept)

Spec == Init /\ [][Next]_vars
===============================================================================
