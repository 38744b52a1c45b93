SPECIFICATION MCSpec
CONSTANTS
  c1 = c1
  c2 = c2
  g1 = g1
  r1 = r1
  s1 = s1
  Roots = {r1}
  Groups = {g1}
  Calls = {c1, c2}
  Sources = {s1}
  UsageIds = {u1}
  GroupRoot <- MCGroupRoot
  GroupOf <- MCGroupOf
  SourcesOf <- MCSourcesOf
  KindOf <- MCKinds
  CostOf <- MCCost
  TotalLimit <- MCLimit
  PerCallCap <- MCCap
  Amounts = {1}
  MaxInt = 2
  MaxLeases = 3
  JobLeases = {0}
  LeaseTerms = {1}
  MaxTime = 2
  MaxEpoch = 2
  Workers = {"w1", "w2"}
  BoundCalls = {c2}
  MaxCrashes = 1
INVARIANTS
  BrokerSafe
PROPERTIES
  PaidCallOnce
  BrokerFinishes
CHECK_DEADLOCK FALSE
