SPECIFICATION MaterialsSpec
CONSTANTS
  None = None
  w1 = w1
  w2 = w2
  s1 = s1
  s2 = s2
  d1 = d1
  p1 = p1
  p2 = p2
  i1 = i1
  i2 = i2
  f1 = f1
  f2 = f2
  f3 = f3
  o1 = o1
  o2 = o2
  a1 = a1
  a2 = a2
  a3 = a3
  e1 = e1
  c1 = c1
  c2 = c2
  DevWorkers = {w1, w2}
  DevTasks = {1}
  PracticeSets = {s1, s2}
  DirectRequests = {d1}
  PracticeAttempts = 2
  Runners = {"registered", "projection"}
  DevScores <- MCScores
  LeaseSeconds = 1
  DevClockLimit = 2
  DevFaultLimit = 1
  ImportProcs = {p1, p2}
  Imports = {i1, i2}
  SourcesOf <- MCSourcesOf
  ContentOf <- MCContentOf
  SizeOf <- MCSizeOf
  EventsOf <- MCEventsOf
  ReadLimit = 4
  EventLimit = 3
  ImportChanges = 1
  ImportRevocations = 2
  ImportFaults = 1
  Operators = {o1, o2}
  Assets = {a1, a2, a3}
  Exports = {e1}
  Candidates = {c1, c2}
  SeedContents = {"base", "mine", "theirs"}
  Baseline = "base"
  StagedLimit = 2
  PackageRevocations = 1
  PackageFaults = 1
INVARIANTS
  
  
  PackagesSafe
PROPERTIES
  MaterialsStand
  MaterialsEnd
CHECK_DEADLOCK FALSE
