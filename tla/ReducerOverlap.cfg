\* A resource instance with usage of this month and of the last, over the slack.
SPECIFICATION Spec
CONSTANTS
  None = None
  c1 = c1
  c2 = c2
  c3 = c3
  u1 = u1
  u2 = u2
  u3 = u3
  g1 = g1
  g2 = g2
  org = org
  consumer1 = consumer1
  consumer2 = consumer2
  Usages = {u1, u2}
  Groups = {g1}
  GroupOf <- AccumulatorGroupOf
  Keys = {consumer1}
  KeysOf <- AccumulatorKeysOf
  LockOf <- AccumulatorLockOf
  Calls = {c1, c2}
  LastPeriod = 1
  MonthOf <- OneMonth
  UsageMonth <- AllCurrent
  HasSink = TRUE
  HasSlack = TRUE
  Slack = 1
  CallsSpanPeriods = TRUE
  MaxFaults = 0
SYMMETRY Symmetric
INVARIANT AcknowledgedIsCounted
