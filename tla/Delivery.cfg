SPECIFICATION DeliverySpec
CONSTANTS
  MaxRecords = 3
  RETRY_COUNT = 1
  MaxFaulty = 1
  MaxLate = 1
  NoRow = NoRow
  NoRequest = NoRequest
INVARIANTS
  EveryRecordDecided
  PostBudget
  AcceptedIsStored
PROPERTIES
  StoredWithoutRefused
  ImplementsEventTable
