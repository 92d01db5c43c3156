\* A direct task past the cap, nothing goes wrong: the watchdog releases it while the owner's decision is open.
SPECIFICATION FairSpec
CONSTANTS
  w1 = w1
  w2 = w2
  Workers = {w1}
  MaxReviews = 2
  RetryCap = 1
  MaxRetries = 2
  ReplanLimit = 1
  DecisionLimit = 1
  Kinds = {"direct"}
  Faults = {}
  MaxFaults = 0
  MaxAnswers = 1
PROPERTIES AwaitsOwner
