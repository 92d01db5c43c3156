------------------------------ MODULE TaskQueue ------------------------------
(***************************************************************************)
(* What the claim path promises to the rest of the system: a queue that    *)
(* leases its tasks one at a time, in one atomic step each, and never more *)
(* of a role than its limit. There are no dispatchers, locks, snapshots or *)
(* transactions here.                                                      *)
(***************************************************************************)
EXTENDS Naturals, FiniteSets

CONSTANTS Tasks, Roles, RoleOf, Limit

VARIABLES
  waiting,  \* tasks that may be leased
  leased    \* tasks somebody works on; the others are set aside

vars == <<waiting, leased>>

Init == waiting = Tasks /\ leased = {}

(* A waiting task is leased, while its role has room. *)
Lease(t) ==
  /\ t \in waiting
  /\ Cardinality({u \in leased : RoleOf[u] = RoleOf[t]}) < Limit[RoleOf[t]]
  /\ leased' = leased \cup {t}
  /\ waiting' = waiting \ {t}

(* A leased task is given back, to wait again or to be set aside. *)
GiveBack(t) ==
  /\ t \in leased
  /\ leased' = leased \ {t}
  /\ waiting' \in {waiting, waiting \cup {t}}

(* Tasks that were set aside wait again. *)
Queue(S) ==
  /\ S \cap (waiting \cup leased) = {}
  /\ waiting' = waiting \cup S
  /\ UNCHANGED leased

(* A waiting task is set aside. *)
SetAside(t) ==
  /\ t \in waiting
  /\ waiting' = waiting \ {t}
  /\ UNCHANGED leased

Next ==
  \/ \E t \in Tasks : Lease(t) \/ GiveBack(t) \/ SetAside(t)
  \/ \E S \in SUBSET Tasks : Queue(S)

Spec == Init /\ [][Next]_vars
==============================================================================
