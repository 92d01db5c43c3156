\* Two steps, the second one reviewed; two calls at a time, one upset.
SPECIFICATION FairSpec
CONSTANTS
  c1 = c1
  c2 = c2
  Calls = {c1, c2}
  N = 2
  Reviewed = {2}
  StepRetries = 0
  MaxRetries = 1
  RetryCap = 1
  MaxUpsets = 1
CHECK_DEADLOCK FALSE
INVARIANTS StepsInOrder CompletedHandsOn NoLockCycle
PROPERTIES LineImplemented RunEnds
