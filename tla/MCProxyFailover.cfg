SPECIFICATION FairSpec
CONSTANTS
  r1 = r1  r2 = r2  b1 = b1  b2 = b2
  Requests <- Two
  Keyless <- None
  RequireApiKey = TRUE
  ValidationSlots = 1
  Capacity = 1
  Backends <- Both
  Metered <- OnlyB1
  QueueCap = 1
  Nothing = Nothing
INVARIANTS ValidationBounded UpstreamBounded NeverDoubleExecuted UsageRecorded
PROPERTIES EverythingEnds RecordsSettle
