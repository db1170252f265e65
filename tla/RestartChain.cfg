\* A journaled run, its restart and its continuation, with crashes of both processes.
SPECIFICATION Spec
CONSTANTS
  a = a
  b = b
  s1 = s1
  s2 = s2
  Scenarios <- MCScenarios
  MaxScenarios = 2
  Limits <- MCLimits
  Signatures <- MCSignatures
  EngineErrors = {e1}
  Blocked = Blocked
  Baseline = Baseline
  NoValue = NoValue
  Malformed = Malformed
  ParentRun = r1
  RunIds = {r1, r2}
  Identity = same
  Identities = {same, other}
SYMMETRY MCSymmetry
VIEW MCView
INVARIANTS
  PlanIsTrue
  ChainGoesOn
PROPERTIES
  ImplementsLedger
