CONSTANTS
  Generation = "r2"
  Policies <- MCPolicies
  RetainCounts <- MCRetainCounts
  InputTokens = 3
  PerFile = 2
  Totals = {16, 17}
  Exports <- MCExports
  Rewrites <- MCRewrites
  Damages <- MCDamages
  MaxWord = 4
  Blank = Blank
  Tolerance = 1
  MaxFloat = 50
  Infinite = Infinite
  NotHex = NotHex
SPECIFICATION Spec
INVARIANTS
  AcceptedSuiteIsPreregistered
  BaselineIsShared
  VerdictIsRight
  BudgetBoundsReading
CHECK_DEADLOCK FALSE
