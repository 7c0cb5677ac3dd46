CONSTANTS
  a1 = a1  a2 = a2  c1 = c1  c2 = c2  tp = tp  tq = tq  up = up  bad = bad  noaddr = noaddr
  Attempts = {a1, a2}
  Clients = {c1, c2}
  Proxies = {tp, tq, up}
  Trusted = {tp, tq}
  Paths <- MCPaths
  Junk <- MCJunk
  RealIps = {noaddr, c1, up}
  Malformed = bad
  NoAddress = noaddr
  CAP = 2
  FREE_ATTEMPTS = 1
  MAX_BACKOFF = 3
  MaxFailures = 4
SPECIFICATION LiveSpec
INVARIANTS TableBounded KeyIsClient
PROPERTIES EvictionOrder NeverLockedForEver
