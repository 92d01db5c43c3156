\* Sprints in sequence, with failed wakes and a crash
SPECIFICATION LiveSpec
CONSTANTS
  p1 = p1
  p2 = p2
  e1 = e1
  r1 = r1
  r2 = r2
  k1 = k1
  None = None
  Pollers = {p1}
  Executors = {}
  Reconcilers = {r1}
  Commenters = {}
  MaxSprint = 2
  MaxStarts = 2
  MaxEdits = 0
  Overlap = FALSE
  CompactAfter = 3
PROPERTY SettledSeen
