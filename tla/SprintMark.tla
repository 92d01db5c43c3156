------------------------------ MODULE SprintMark ------------------------------
(***************************************************************************)
(* What the mark of the last woken sprint is for: whoever raises it owns   *)
(* the wake of that sprint until he is done or puts the mark back, and     *)
(* nobody else moves it from under him. A reset by force ends all owning,  *)
(* and from then on only the sprints above count.                          *)
(***************************************************************************)
EXTENDS Integers

CONSTANTS Callers, Sprints

VARIABLES
  mark,    \* the last sprint somebody has woken
  owners,  \* pairs of a caller and the sprint whose wake it owns
  reset    \* the highest sprint the mark stood on at a reset

vars == <<mark, owners, reset>>

Init == mark = 0 /\ owners = {} /\ reset = 0

Raise ==
  /\ \E c \in Callers, s \in Sprints :
       /\ mark < s /\ reset < s /\ \A o \in owners : o[1] # c
       /\ mark' = s /\ owners' = owners \cup {<<c, s>>}
  /\ UNCHANGED reset

Done ==
  /\ \E o \in owners : owners' = owners \ {o}
  /\ UNCHANGED <<mark, reset>>

PutBack ==
  /\ \E o \in owners : o[2] = mark /\ owners' = owners \ {o}
  /\ mark' = mark - 1
  /\ UNCHANGED reset

(* A sweep finds a mark that nobody owns. *)
Sweep ==
  /\ owners = {} /\ mark > reset /\ mark' = mark - 1
  /\ UNCHANGED <<owners, reset>>

(* Up to the last reset the mark is anybody's. *)
Loose == mark <= reset /\ mark' <= reset /\ UNCHANGED <<owners, reset>>

Reset ==
  /\ mark' = 0 /\ owners' = {}
  /\ reset' = IF mark > reset THEN mark ELSE reset

Crash == owners' = {} /\ UNCHANGED <<mark, reset>>

Next == Raise \/ Done \/ PutBack \/ Sweep \/ Loose \/ Reset \/ Crash

Spec == Init /\ [][Next]_vars
===============================================================================
