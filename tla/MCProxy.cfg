SPECIFICATION Spec
CONSTANTS
  r1 = r1  r2 = r2  b1 = b1  b2 = b2
  Requests <- Two
  Keyless <- OnlyR2
  RequireApiKey = FALSE
  ValidationSlots = 1
  Capacity = 2
  Backends <- Both
  Metered <- OnlyB1
  QueueCap = 1
  Nothing = Nothing
INVARIANTS LoadCounted EnergyRecorded
