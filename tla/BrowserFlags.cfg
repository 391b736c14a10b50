SPECIFICATION Spec
CONSTANTS
  Actors = {"anna", "ben"}
  Callers = {"c1", "c2", "c3"}
  Listeners = {"l1", "l2"}
  None = None
  Contexts = {None, "anna"}
  MaxSwitches = 1
CHECK_DEADLOCK FALSE
PROPERTIES
  ForcedIsFresh
  CommitsInOrder
  EvaluationsSettle
