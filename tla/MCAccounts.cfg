\* Accounts, keys and passwords come and go while requests hold what they read.
CONSTANTS
  r1 = r1  r2 = r2  s1 = s1  root = root  eve = eve
  pw1 = pw1  pw2 = pw2  weak = weak
  Requests = {r1, r2}
  Names = {root, eve}
  Passwords = {pw1, pw2, weak}
  Short = {weak}
  Sessions = {s1}
  MaxUsers = 3
  MaxKeys = 2
  MaxSalts = 3
SPECIFICATION Spec
SYMMETRY MCSymmetry
INVARIANTS AdminRemains AttributionExact SessionsProvePassword
PROPERTY NoLostReset
CHECK_DEADLOCK FALSE
