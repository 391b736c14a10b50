SPECIFICATION Spec
CONSTANTS
  MaxVersion = 4
  Asked = Asked
  Failed = Failed
PROPERTIES
  PollingNeverStalls
CHECK_DEADLOCK FALSE
