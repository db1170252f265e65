\* Safety and termination of a journaled run and of a continuation, with storage, codec and limit failures and crashes.
SPECIFICATION FairSpec
CONSTANTS
  a = a
  b = b
  d = d
  p0 = p0
  same = same
  s1 = s1
  Scenarios <- MCScenarios
  MaxScenarios = 3
  Limits <- MCLimits
  Signatures = {s1, s2}
  EngineErrors = {e1}
  Blocked = Blocked
  Baseline = Baseline
  NoValue = NoValue
  Malformed = Malformed
  RunIds = {p0, p1}
  Identity = same
  Identities = {same, other}
  Logs <- MCLogs
  Plans <- MCPlans
INVARIANTS
  WriteAhead
  InspectionIsTrue
  ReportAgrees
PROPERTIES
  NothingAfterJournalFailure
  Termination
