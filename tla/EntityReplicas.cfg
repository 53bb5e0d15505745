SPECIFICATION Spec
CONSTANTS
  d1 = d1
  d2 = d2
  d3 = d3
  Devices = {d1, d2, d3}
  Fields <- MCHostEnv
  ById <- MCEnv
  Ids <- MCIds
  Deleted = "deleted_at"
  MaxStamp = 3
  Values = {1, 2, 3}
  OldDevices <- MCNone
  NewFields <- MCNone
  SkewedClocks = FALSE
SYMMETRY MCSymmetry
INVARIANTS TypeOK SeenDecidesRow AliveAsHistory
PROPERTY MergeKeepsClocks
CONSTRAINT MCFewWrites
CHECK_DEADLOCK FALSE
