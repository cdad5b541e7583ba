\* The error database fails when a usage has failed for the last time.
\* Once all usage is recorded nothing is left to do.
SPECIFICATION Spec
CONSTANTS
  None = None
  u1 = u1
  h1 = h1
  h2 = h2
  m1 = m1
  m2 = m2
  Usages = {u1}
  Attempts <- OneEach
  Meters = {m1, m2}
  Handlers = {h1, h2}
  MeterOf <- TwoMeters
  UsageDay <- Tomorrow
  LastDay = 1
  LastPutFails = TRUE
  MaxFaults = 0
INVARIANTS
  NothingLost
CHECK_DEADLOCK FALSE
