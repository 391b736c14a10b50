SPECIFICATION Spec
CONSTANTS
  Callers = {c1, c2}
  Daemon = daemon
  FlushAtOption = 2
  MaxBatchSizeOption = 1
  MaxQueueSizeOption = 1
  MaxEvents = 4
INVARIANTS
  OneFate
  ShutdownQuiesces
PROPERTIES
  DaemonKeepsDraining
  ImplementsBuffer
