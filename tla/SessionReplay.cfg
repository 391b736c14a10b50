SPECIFICATION Spec
CONSTANTS
  MaxSessions = 3
  MaxSnapshots = 2
  MaxStarts = 2
  MaxReloads = 2
INVARIANTS
  OneRecording
  SamplingDecides
  SessionRecordsAgree
