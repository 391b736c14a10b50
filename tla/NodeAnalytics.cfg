SPECIFICATION Spec
CONSTANTS
  FlushAtOption = 3
  MaxBatchSizeOption = 2
  MaxQueueSizeOption = 1
  MaxEvents = 5
  Callers = {f1, f2}
INVARIANTS
  TypeOK
  WakeupArmed
  OneFate
PROPERTIES
  FlushCoversEarlier
  ShutdownQuiesces
  ShutdownDiscardsNothing
  ShutdownSettles
  ImplementsBuffer
CHECK_DEADLOCK FALSE
