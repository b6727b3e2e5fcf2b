SPECIFICATION MCSpec
CONSTANTS
  r1 = r1
  r2 = r2
  k1 = k1
  k2 = k2
  none = none
  Requests <- MCRequests
  Keys <- MCKeys
  NoKey = none
  KindsOf <- MCKindsOf
  Content <- MCRequests
  BufferSeconds = 1
  MaxItems = 2
  Hour = 2
  Retention = 2
  MaxNow = 5
  MaxFaults = 1
  Candidates = 2
INVARIANTS
  CountedOnce
  RecordsTypeOK
  LossHasCause
  SuccessMeansAnswered
  UsageExact
  ErrorsReported
PROPERTIES
  ImplementsRecordLog
  QueueDrains
CHECK_DEADLOCK FALSE
