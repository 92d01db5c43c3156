\* One dispatcher, one loop, one restart, under fairness.
SPECIFICATION LiveSpec
CONSTANTS
  dev = dev
  qa = qa
  d1 = d1
  d2 = d2
  k1 = k1
  k2 = k2
  None = None
  Roles = {dev, qa}
  RoleOf <- MCRoleOf
  Tasks = {1, 2}
  Limit <- LimitOne
  Dispatchers = {d1}
  Calls = {k1}
  MaxCap = 1
  Outcomes = {"done", "blocked"}
  Paused = {}
  Watched = {1, 2}
  Touched = {1}
  StepTasks = {2}
  MaxStarts = 2
PROPERTIES OrphanRequeued ClaimMakesProgress
