\* An execution and the watchdog handle failures at once; every diagnosis, fallback doctors, repairs; one crash, cancellation, interruption or refused claim.
SPECIFICATION FairSpec
CONSTANTS
  e1 = e1
  w = w
  Executors = {e1}
  Watchdogs = {w}
  Doctors = {1, 2, 3}
  MaxRetries = 1
  LegacyRetries = 1
  MaxAttempts = 1
  DoctorLimit = 2
  DecisionLimit = 1
  SplitSize = 1
  ReplaceLimit = 1
  Categories = {"retry", "agent", "env"}
  Diagnoses = {"rework", "fix", "legacy", "dies", "goal", "malformed", "escalate", "split"}
  MaxUpsets = 1
INVARIANTS TypeOK RetryBound DoctorBound
PROPERTIES Settles BlockedResolved
