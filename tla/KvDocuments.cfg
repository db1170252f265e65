\* The KV readers accept what was exported, and compare it fairly.
SPECIFICATION Spec
CONSTANTS
  pol1 = pol1
  pol2 = pol2
  MaxWord = 8
  MaxFloat = 30
  Tolerance = 1
  Blank = Blank
  Infinite = Infinite
  NotHex = NotHex
  Unknown = Unknown
  Inputs <- MCInputs
  BytesPerToken <- MCBytesPerToken
  Policies <- MCPolicies
  Regions <- MCRegions
  Observations <- MCObservations
  Routers <- MCRouters
  Measurements <- MCMeasurements
  FieldEdits <- MCFieldEdits
  Kinds <- MCKinds
  MaxEdits = 2
  MaxHeld = 3
INVARIANTS
  HandoffsAreReplayed
  EffectsAreRecomputed
  SpecAndPackAgree
  ComparisonIsFair
CHECK_DEADLOCK FALSE
