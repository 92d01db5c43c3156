\* Two dispatchers, one restart, a row rewritten and paused under its execution.
SPECIFICATION Spec
CONSTANTS
  dev = dev
  qa = qa
  d1 = d1
  d2 = d2
  k1 = k1
  k2 = k2
  None = None
  Roles = {dev, qa}
  RoleOf <- MCRoleOf
  Tasks = {1}
  Limit <- LimitTwo
  Dispatchers = {d1, d2}
  Calls = {k1}
  MaxCap = 1
  Outcomes = {"done", "pending"}
  Paused = {1}
  Watched = {1}
  Touched = {1}
  StepTasks = {1}
  MaxStarts = 3
INVARIANT RunningIsOwned
