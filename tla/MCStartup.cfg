\* Every theme; permits, days and integers scaled down.
CONSTANTS
  Sources <- MCSources
  NotUnicode = notunicode
  MaxPermits = 40
  SecondsPerDay = 2
  MaxInt = 201
  MaxPairs = 4
SPECIFICATION StartupSpec
CHECK_DEADLOCK FALSE
INVARIANTS AcceptedIsUsable SettingsHonoured FingerprintKept
