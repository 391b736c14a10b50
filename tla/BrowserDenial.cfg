SPECIFICATION Spec
CONSTANTS
  flushAt = 2
  MAX_RETRIES = 3
  STATUS_ZERO_MAX_RETRIES = 2
  maxBatches = 2
  consentDefault = "granted"
  MaxEvents = 2
  MaxDecisions = 2
  MaxCrashes = 1
INVARIANT DenialHolds
