\* Two stops of one usage in progress while it is started again.
SPECIFICATION Spec
CONSTANTS
  None = None
  Targets = {org}
  org = org
  s1 = s1
  s2 = s2
  h1 = h1
  h2 = h2
  w1 = w1
  w2 = w2
  a = a
  b = b
  c = c
  d = d
  Horizon = 3
  Boundary = {0, 2, 3}
  Months = {0}
  AbacusSlack = 0
  SpanIds = {s1, s2}
  EventIds = {a, b, c, d}
  Handlers = {h1, h2}
  Workers = {w1}
  SlackPast = 6
  SlackFuture = 0
  SlowRequests = TRUE
  BatchSize = 1
  CleanupBatch = 1
  CleanupAge = 1
  Events <- TwoStops
  Usages = {s1, s2}
SYMMETRY Symmetric
INVARIANTS
  EndNotBeforeStart
