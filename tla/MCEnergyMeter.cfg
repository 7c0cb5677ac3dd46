SPECIFICATION MeterSpec
CONSTANTS
  r1 = r1  r2 = r2  r3 = r3
  Proxied <- MCProxied
  Metered = TRUE
  MaxTime = 5
  MaxReports = 3
SYMMETRY Symmetry
INVARIANTS CoversBusyTime NoDoubleCounting
CHECK_DEADLOCK FALSE
