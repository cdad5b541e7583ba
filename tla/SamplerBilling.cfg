\* Two Workers that crash and lose answers, on one span that is sampled beyond its end
\* before its stop arrives.
SPECIFICATION FairSpec
CONSTANTS
  None = None
  Targets = {org}
  org = org
  s1 = s1
  s2 = s2
  h1 = h1
  h2 = h2
  w1 = w1
  w2 = w2
  a = a
  b = b
  c = c
  d = d
  Horizon = 5
  Boundary = {0, 3, 4, 5}
  Months = {0}
  AbacusSlack = 0
  SpanIds = {s1}
  EventIds = {a, b, c, d}
  Handlers = {h1}
  Workers = {w1, w2}
  SlackPast = 6
  SlackFuture = 0
  SlowRequests = TRUE
  BatchSize = 1
  CleanupBatch = 1
  CleanupAge = 1
  Events <- LateStop
  Usages = {s1}
INVARIANTS
  BilledByWindow
  DeletedIsSettled
  OpenNotSampledAhead
  IntervalWithinWindow
  Inv
PROPERTIES
  SettledIsFinal
  StoppedIsSettled
  ImplementsPromise
