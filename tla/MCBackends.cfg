\* Two watchdogs, two upstream changes or lost polls; three requests by load.
CONSTANTS
  m1 = m1  m2 = m2  m3 = m3  p = p
  N = 3
  Requests = {r1, r2, r3}
  PrefixHashes = {p}
  NoPrefix = none
  Score <- MCScore
  Factor = 5
  Size = 2
  Models <- MCModels
  Raws = {"static", "old", "new", "override"}
  Listings <- MCListings
  Static <- MCStatic
  Polled = {1, 2}
  Filter <- MCFilter
  Kind <- MCKind
  FlatPassthrough = FALSE
  Wrap = 4
  MaxFaults = 2
SPECIFICATION BackendsSpec
INVARIANTS UpdatesKept EveryCandidateOnce RightBackendFirst
PROPERTIES RotationAdvances CatalogComesToAgree
