\* Requests of every viewer while records arrive, accounts go, rows are pruned
\* and midnight passes.
CONSTANTS
  boss = boss  u1 = u1  k1 = k1  k2 = k2  m1 = m1
  nokey = nokey  nouser = nouser  tok = tok  notok = notok
  Users = {boss, u1}
  Admins = {boss}
  Owner <- MCOwner
  NoKey = nokey
  NoUser = nouser
  Models = {m1}
  Hosts <- MCHosts
  HoursPerDay = 2
  MaxDays = 2
  Windows = {0, 2}
  DaysAgo = {0, 1}
  NoToken = notok
  MaxClock = 4
  MaxRecords = 2
SPECIFICATION LiveSpec
INVARIANTS ReportsCoverTheirDates OnlyOwnUsage
PROPERTY RetentionExact
