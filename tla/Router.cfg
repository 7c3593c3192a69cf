SPECIFICATION LiveSpec
CONSTANTS
  d1 = d1 d2 = d2 r1 = r1 r2 = r2
  Deployments <- TwoDeployments
  Requests = {r1, r2}
  Tier <- TwoTiers
  MinTiers = {1, 3}
  Serving <- TwoDeployments
  Supporting <- TwoDeployments
  FailureThreshold = 1
  Cooldown = 1
  HalfOpenSuccesses = 2
  MaxAttempts = 2
  IdleBeforeProbing = 1
INVARIANTS ProbingStateIsLocal OutcomeTruthful
PROPERTY ProbeSlotFreed
