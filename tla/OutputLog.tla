------------------------------ MODULE OutputLog ------------------------------
(***************************************************************************)
(* What a reader of an agent's output is promised: lines are written in    *)
(* the order of their numbers and each is shown at most once. As long as   *)
(* the stream is calm they are shown in order, none is passed over, and    *)
(* each is shown in the end.                                               *)
(***************************************************************************)
EXTENDS Naturals, Sequences

CONSTANT Lines

VARIABLES written, shown, calm

vars == <<written, shown, calm>>

Shown == {shown[i] : i \in 1..Len(shown)}

Init == written = {} /\ shown = <<>> /\ calm = TRUE

Write ==
  /\ \E S \in SUBSET (Lines \ written) :
       /\ written' = written \cup S
       /\ calm => \A r \in S, w \in written : w < r
  /\ calm' \in {calm, FALSE}
  /\ UNCHANGED shown

Show ==
  \E r \in written \ Shown :
    /\ calm => \A w \in written \ Shown : r <= w
    /\ shown' = Append(shown, r)
    /\ UNCHANGED <<written, calm>>

Next == Write \/ Show

Spec == Init /\ [][Next]_vars
FairSpec == Spec /\ WF_vars(calm /\ Show)
=============================================================================
