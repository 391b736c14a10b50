SPECIFICATION FairSpec
CONSTANTS
  flushAt = 2
  MAX_RETRIES = 3
  STATUS_ZERO_MAX_RETRIES = 2
  maxBatches = 1
  consentDefault = "granted"
  MaxEvents = 2
  MaxDecisions = 1
  MaxCrashes = 1
INVARIANTS
  HeldOnce
  QueuesAwake
  DurableOnlyWhenGranted
  RetryBudget
PROPERTIES
  DecisionsAreFinal
  RetriesDrain
