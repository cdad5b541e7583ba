\* A stop with a timestamp in the future, within the slack of the Receiver.
SPECIFICATION Spec
CONSTANTS
  None = None
  Targets = {org}
  org = org
  s1 = s1
  s2 = s2
  h1 = h1
  h2 = h2
  w1 = w1
  w2 = w2
  a = a
  b = b
  c = c
  d = d
  Horizon = 6
  Boundary = {0, 2, 4, 6}
  Months = {0}
  AbacusSlack = 0
  SpanIds = {s1}
  EventIds = {a, b, c, d}
  Handlers = {h1}
  Workers = {w1}
  SlackPast = 6
  SlackFuture = 4
  SlowRequests = TRUE
  BatchSize = 1
  CleanupBatch = 1
  CleanupAge = 1
  Events <- EarlyStop
  Usages = {s1}
SYMMETRY Symmetric
INVARIANTS
  CompleteIsBilled
