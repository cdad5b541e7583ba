\* Usage of one day whose quantities have two digits.
\* All usage may have been submitted.
SPECIFICATION WindowsSpec
CONSTANTS
  i1 = i1
  i2 = i2
  i3 = i3
  s1 = s1
  s2 = s2
  lisa = lisa
  bart = bart
  maggie = maggie
  p1 = p1
  Instances = {i1, i2, i3}
  SpaceOf <- TwoSpaces
  ConsumerOf <- ThreeConsumers
  PlanOfInstance <- OnePlan
  Quantities = {1, 9, 12}
  MonthDays = 2
  SlackDays = 1
  LastNoon = 0
  MaxUsages = 4
INVARIANTS
  MonthsAreReported
CHECK_DEADLOCK FALSE
