\* One dispatcher, two overlapping loops, three tasks of two roles.
SPECIFICATION Spec
CONSTANTS
  dev = dev
  qa = qa
  d1 = d1
  d2 = d2
  k1 = k1
  k2 = k2
  None = None
  Roles = {dev, qa}
  RoleOf <- MCRoleOf
  Tasks = {1, 2, 3}
  Limit <- LimitOne
  Dispatchers = {d1}
  Calls = {k1, k2}
  MaxCap = 1
  Outcomes = {"done"}
  Paused = {}
  Watched = {}
  Touched = {}
  StepTasks = {}
  MaxStarts = 2
INVARIANTS OverrunBound SlotsCounted RoleCapRespected NothingLeftBehind
PROPERTIES QueueImplemented
