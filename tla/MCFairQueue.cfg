SPECIFICATION FairSpec
CONSTANTS
  r1 = r1  r2 = r2  r3 = r3  alice = alice  bob = bob
  Requests = {r1, r2, r3}
  Users = {alice, bob}
  UserOf <- MCUserOf
  Capacity = 1
  Enabled = TRUE
  Window = 2
  MaxGrants = 3
  Free = Free
INVARIANTS SlotAccounting WorkConserving SendersAlive
PROPERTIES FairSelection ImplementsAdmission
