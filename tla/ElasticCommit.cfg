\* Every choice, every plan presented to the gate, every end of the cycle.
SPECIFICATION Spec
CONSTANTS
  grow = grow
  shrink = shrink
  undo = undo
  keep = keep
  ProbeInputs <- MCProbeInputs
  Plans <- MCPlans
  Signatures <- MCSignatures
  Policies <- MCPolicies
  NoValue = NoValue
INVARIANTS
  ChoiceBeatsNoOp
  ActsAsSelected
  EvidenceIsTrue
