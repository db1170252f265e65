\* What is decided on completed batches, and how it is recorded and read back.
SPECIFICATION EvidenceSpec
CONSTANTS
  a = 1
  b = 2
  d = 3
  utility = utility
  cost = cost
  Batches <- MCBatches
  ObjectiveIds <- MCObjectiveIds
  Blank = Blank
  Vectors <- MCVectors
  Reasons = {limit}
  Baseline = Baseline
  NoValue = NoValue
  ScenarioLists <- MCScenarioLists
  Engines <- MCEngines
  Failure = Failure
  TraceIds = {t1, t2}
  t1 = t1
  t2 = t2
  m1 = m1
  r1 = r1
  r2 = r2
  Runs <- MCRuns
  SourceLists <- MCSourceLists
  Metrics <- MCMetrics
  Edits <- MCEdits
  MaxTraces = 2
  MaxEdits = 1
INVARIANTS
  Comparable
  SelectionIsEarliestBest
  FrontIsExplained
  DecisionIsRecomputed
  TracesAreAligned
  ScoresAreAccountedFor
