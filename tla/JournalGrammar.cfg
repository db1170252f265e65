\* What the inspectors accept is what a run or a child can have written.
SPECIFICATION Spec
CONSTANTS
  a = a
  b = b
  d = d
  Scenarios <- MCScenarios
  MaxScenarios = 3
  Limits <- MCLimits
  Payload = p1
  Baseline = Baseline
  NoValue = NoValue
  Malformed = Malformed
  ParentRun = r1
  ChildRun = r2
  Identity = same
  Parents <- MCParents
INVARIANTS
  AcceptsExactlyRuns
  RecordsAgreeWithJournals
