\* One service instance, a start, an update and a stop around the turn of a month.
\* The clock and the events end.
SPECIFICATION FairSpec
CONSTANTS
  Resources = {s}
  Plans = {p, q}
  s = s
  p = p
  q = q
  NoDoc = NoDoc
  Horizon = 3
  MonthTicks = 2
  Gap = 8
  MaxEvents = 3
  PageSize = 2
  MinAge = 0
  MaxDelay = 0
  MaxFaults = 1
  PerTick = 2
  Slack = 0
  DocsPerPage = 1
INVARIANTS
  CFBridgeInv
  NothingSkipped
  UsageIsDue
  CarriedIsRunning
PROPERTIES
  EveryEventSettled
CHECK_DEADLOCK FALSE
