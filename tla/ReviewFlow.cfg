\* A goal's task or a direct one, every verdict, an overrun, a revived review, a dispatcher that dies.
SPECIFICATION FairSpec
CONSTANTS
  w1 = w1
  w2 = w2
  Workers = {w1, w2}
  MaxReviews = 3
  RetryCap = 1
  MaxRetries = 1
  ReplanLimit = 1
  DecisionLimit = 1
  Kinds = {"goal", "direct"}
  Faults = {"crash", "overrun", "revive"}
  MaxFaults = 1
  MaxAnswers = 1
INVARIANTS CompletedReviewed DeliveriesPaid
PROPERTIES WorkImplemented ReviewAnswered
