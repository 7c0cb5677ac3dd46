SPECIFICATION FairSpec
CONSTANTS
  r1 = r1  r2 = r2  b1 = b1  b2 = b2
  Requests <- Two
  Keyless <- None
  RequireApiKey = FALSE
  ValidationSlots = 1
  Capacity = 1
  Backends <- OnlyB1
  Metered <- OnlyB1
  QueueCap = 1
  Nothing = Nothing
PROPERTY StalledClientsEnd
