\* The queue with two meters, and the components of the platform.
\* A component may have nothing left to do.
SPECIFICATION PlatformSpec
CONSTANTS
  None = None
  u1 = u1
  h1 = h1
  h2 = h2
  m1 = m1
  m2 = m2
  Usages = {u1}
  Attempts <- OneEach
  Meters = {m1, m2}
  Handlers = {h1, h2}
  MeterOf <- TwoMeters
  UsageDay <- Tomorrow
  LastDay = 1
  LastPutFails = FALSE
  MaxFaults = 2
  Calls = {a, b}
  a = a
  b = b
  MaxRunning = 2
  MaxRetries = 1
  Threshold = 1
  ErrorPercent = 50
  ResetTicks = 1
  TimeoutTicks = 2
  Buckets = 2
  d1 = d1
  d2 = d2
  d3 = d3
  c1 = c1
  c2 = c2
  Clients = {c1, c2}
  Docs = {d1, d2, d3}
  PartitionIndex <- TwoPartitions
  DocMonth <- TwoMonths
  Requests <- Asked
  FirstServers = 1
  MaxServers = 2
  MaxDBFaults = 1
  PageSize = 1
  HostServers = {h1, h2}
  Retention = 1
  FirstMonth = 10
  LastMonth = 14
  MaxDropFaults = 1
  i1 = i1
  i2 = i2
  space = space
  lisa = lisa
  bart = bart
  p1 = p1
  p2 = p2
  Instances = {i1, i2}
  SpaceOf <- OneSpace
  ConsumerOf <- TwoConsumers
  PlanOfInstance <- TwoPlans
  Quantities = {1}
  MonthDays = 2
  SlackDays = 1
  LastNoon = 3
  MaxUsages = 3
  broker = broker
  meter = meter
  PlanTypes <- TwoTypes
  LookedUp <- PlanOrMapping
  Editors = {broker}
  Readers = {meter}
  PluginAge = 2
  ConfigAge = 1
  MaxVersion = 2
  MaxCatalogFaults = 1
  w1 = w1
  w2 = w2
  r1 = r1
  WebCalls = {w1, w2}
  Resource <- SameResource
  Cacheable = {w1, w2}
  BatchSize = 2
  Limits = {2, 3}
  LastToken = 2
  MaxStops = 1
INVARIANTS
  PlatformInv
  NothingLost
  MeteredIsAccumulated
  FutureNotAccumulated
  SlotsAreHeld
  CalledBackOnce
  CircuitIsReported
  AcknowledgedIsFound
  ReadsSeeWrites
  MonthsAreReported
  DaysAreReported
  CreatedIsFound
  PlansAreRecent
  AnswersAreOwn
PROPERTIES
  ImplementsDelivery
  TestCallsAreSpaced
  EveryCallBack
  RetainedAreKept
  OldAreDropped
  ClosedMonthIsFinal
CHECK_DEADLOCK FALSE
