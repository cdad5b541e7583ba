\* Two groups of one organization that share a document and a lock.
SPECIFICATION FairSpec
CONSTANTS
  None = None
  c1 = c1
  c2 = c2
  c3 = c3
  u1 = u1
  u2 = u2
  u3 = u3
  g1 = g1
  g2 = g2
  org = org
  consumer1 = consumer1
  consumer2 = consumer2
  Usages = {u1, u2, u3}
  Groups = {g1, g2}
  GroupOf <- AggregatorGroupOf
  Keys = {org, consumer1, consumer2}
  KeysOf <- AggregatorKeysOf
  LockOf <- AggregatorLockOf
  Calls = {c1, c2}
  LastPeriod = 1
  MonthOf <- OneMonth
  UsageMonth <- AllCurrent
  HasSink = FALSE
  HasSlack = FALSE
  Slack = 0
  CallsSpanPeriods = FALSE
  MaxFaults = 1
INVARIANT AccumulatedExactly
PROPERTY EveryCallAnswered
