SPECIFICATION Spec
CONSTANTS
  Callers = {c1, c2}
  Daemon = daemon
  FlushAtOption = 2
  MaxBatchSizeOption = 2
  MaxQueueSizeOption = 4
  MaxEvents = 3
INVARIANT DaemonSurvives
