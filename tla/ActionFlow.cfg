\* Two callers with one key, two clicks of the owner, every answer of the policies; a call dies or a result is lost.
SPECIFICATION FairSpec
CONSTANTS
  c1 = c1
  c2 = c2
  o1 = o1
  o2 = o2
  Callers = {c1, c2}
  Owners = {o1, o2}
  Policies = {"allow", "require_approval", "block"}
  MaxDecisions = 2
  MaxCalls = 5
  MaxFaults = 2
CHECK_DEADLOCK FALSE
INVARIANTS RunsOnce RunsAllowed
PROPERTIES OneActionImplemented ApprovalCarriedOut
