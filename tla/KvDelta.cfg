\* prospect-kv-selection-observed accepts an infinite delta.
SPECIFICATION Spec
CONSTANTS
  pol1 = pol1
  pol2 = pol2
  MaxWord = 8
  MaxFloat = 30
  Tolerance = 1
  Blank = Blank
  Infinite = Infinite
  NotHex = NotHex
  Unknown = Unknown
  Inputs <- MCInputs
  BytesPerToken <- MCBytesPerToken
  Policies <- MCPolicies
  Regions <- MCRegions
  Observations <- MCObservations
  Routers <- MCRouters
  Measurements <- MCMeasurements
  FieldEdits <- MCFieldEdits
  Kinds <- MCSelectionRecordOnly
  MaxEdits = 2
  MaxHeld = 1
INVARIANTS
  DeltaIsTheDifference
CHECK_DEADLOCK FALSE
