\* The panel of a task or of a goal: overlapping writes, two executions, every fault, a broken connection.
SPECIFICATION FairSpec
CONSTANTS
  l1 = l1
  l2 = l2
  Lanes = {l1, l2}
  MaxRows = 3
  MaxRuns = 2
  MaxDrops = 2
  Faults = {"notify", "query", "crash"}
  Endpoints = {"task", "goal"}
  Panel = TRUE
INVARIANTS TypeOK DoneIsComplete NoLineTwice ReplayReaches
PROPERTIES ShowsTheLog
