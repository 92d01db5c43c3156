----------------------------- MODULE MCTaskClaim -----------------------------
(* TLC instances of TaskClaim. *)
EXTENDS TaskClaim, TLC

CONSTANTS dev, qa, d1, d2, k1, k2

(* Tasks 1 and 2 share a role, task 3 has its own. *)
MCRoleOf == [t \in Tasks |-> IF t < 3 THEN dev ELSE qa]
LimitOne == [r \in Roles |-> 1]
LimitTwo == [r \in Roles |-> 2]
==============================================================================
