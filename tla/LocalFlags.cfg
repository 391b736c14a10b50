SPECIFICATION FlagsSpec
CONSTANTS
  MaxVersion = 2
  Asked = Asked
  Failed = Failed
  None = None
  NotSupplied = NotSupplied
  AllFlags = AllFlags
  Callers = {"c1", "c2"}
  Listeners = {"l1", "l2"}
  Configurations <- MCConfigurations
  Contexts <- MCContexts
  Generations <- MCGenerations
INVARIANTS
  DecisionStands
  NotDegradedIsAnswered
  EachListenerOnce
  VariantsGetTheirShare
  RangesKeepCompatible
PROPERTIES
  LocalPollsUnlessTickMissed
CHECK_DEADLOCK FALSE
