\* A host, its callers and the publishers of its records.
SPECIFICATION Spec
CONSTANTS
  AdapterOffers <- MCAdapterOffers
  MetricOffers <- MCMetricOffers
  PolicyOffers <- MCPolicyOffers
  PolicyScore <- MCPolicyScore
  AdapterLists <- MCAdapterLists
  BundleTexts <- MCBundleTexts
  Engines <- MCEngines
  Failure = Failure
  Limits = {0, 1, 2}
  Alterations <- MCAlterations
  MaxAlterations = 1
  Publishers = {p1, p2}
  Pids = {7, 8}
  Destination = destination
  MaxAttempts = 2
  MaxCrashes = 1
INVARIANTS
  PreflightPredicts
  ExecutionIsBound
  PublishedIsWhole
CHECK_DEADLOCK FALSE
