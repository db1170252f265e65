\* Safety and termination of the controlled evaluator.
SPECIFICATION FairSpec
CONSTANTS
  a = a
  b = b
  c = c
  Ids <- MCIds
  Inputs <- MCInputs
  Limits <- MCLimits
  Signatures = {s1, s2}
  Errors = {e1}
  Baseline = Baseline
  NoValue = NoValue
INVARIANTS
  ReportIsFaithful
  StopsAreObeyed
  RankableIsComplete
  ReportIsTold
PROPERTIES
  FailureNotMasked
  ImplementsContract
  Termination
