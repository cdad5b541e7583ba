\* Retried events against clean-up, the slack twice the retention like in the defaults.
SPECIFICATION Spec
CONSTANTS
  None = None
  Targets = {org}
  org = org
  s1 = s1
  s2 = s2
  h1 = h1
  h2 = h2
  w1 = w1
  w2 = w2
  a = a
  b = b
  c = c
  d = d
  Horizon = 5
  Boundary = {0, 2, 4, 5}
  Months = {0, 4}
  AbacusSlack = 0
  SpanIds = {s1, s2}
  EventIds = {a, b, c, d}
  Handlers = {h1, h2}
  Workers = {w1}
  SlackPast = 2
  SlackFuture = 2
  SlowRequests = FALSE
  BatchSize = 1
  CleanupBatch = 1
  CleanupAge = 1
  Events <- Update
  Usages = {s1, s2}
SYMMETRY Symmetric
INVARIANTS
  AppliedAgainOnlyLate
  AcknowledgedIsRecorded
