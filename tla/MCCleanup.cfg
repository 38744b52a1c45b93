SPECIFICATION CleanupSpec
CONSTANTS
  None = None
  Nodes <- MCNodes
  Sources <- MCSources
  Class <- MCClass
  Upstream <- MCUpstream
  Historical = {6, 7}
  Ungated = {2, 4, 8, 9}
  Calls = {1, 2}
  Mode <- MCMode
  Named <- MCNamed
  RefOf <- MCRef
  Undeclared = {1}
  Unindexed = {2}
  Damaged = {2}
  ReportOf <- MCReportOf
  Limits = {1, 2}
  run1 = run1
  run2 = run2
  world = world
  pool = pool
  report = report
  evidence = evidence
  ticket = ticket
  native = native
  judgment = judgment
  current = current
  import1 = import1
  import2 = import2
  asset1 = asset1
  export1 = export1
  audit1 = audit1
  bytes = bytes
  package = package
  Records <- MCRecords
  Purgeable <- MCPurgeable
  Blobs <- MCBlobs
  KindOf <- MCKindOf
  DerivedFrom <- MCDerivedFrom
  Companion <- MCCompanion
  Names <- MCNames
  DamagedRecords = {evidence, asset1}
  Late = {import2, export1, audit1}
  PurgeFaults = 1
INVARIANTS
  CleanupSafe
  
PROPERTIES
  CleanupStepsRight
  CleanupEnds
CHECK_DEADLOCK FALSE
