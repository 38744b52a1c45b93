SPECIFICATION LearningSpec
CONSTANTS
  None = None
  e1 = e1
  e2 = e2
  w1 = w1
  w2 = w2
  c1 = c1
  c2 = c2
  Envs = {e1, e2}
  Reports <- MCReports
  Report <- MCReport
  ClaimWorkers = {w1, w2}
  ClaimInputs = {1}
  CandidateIds = {1, 2}
  MAX_GENERATION = 1
  MAX_CRASHES = 1
  Roots <- MCRoots
  SuccessorCost = 1
  Baseline = 2
  Qualities = {1, 8}
  MAX_NODES = 6
  MAX_DEPTH = 3
  FAIRNESS_WAIT_ROUNDS = 2
  MAX_FOCUS_ACTIONS = 2
  STAGNATION_WINDOW = 2
  STAGNATION_ABS_GAIN = 0
  SIGNIFICANT_GAIN = 1
  GAIN_CLAMP = 5
  Budget = 7
  Callers = {c1, c2}
  Copies = {1, 2}
  Workers = {w1, w2}
  Inputs <- MCInputs
  ModelAnswers = {"one", "many", "shape", "rejected", "uncertain"}
  DevReports = {"better", "worse", "mismatch", "invalid"}
  MAX_FINAL_EDITS = 2
  MaxFaults = 1
INVARIANTS
  ConsolidationSafe
  ExplorationSafe
  OptimizationSafe
PROPERTIES
  LearningStands
  LearningEnds
CHECK_DEADLOCK FALSE
