SPECIFICATION Spec
CONSTANTS
  d1 = d1
  d2 = d2
  d3 = d3
  Devices = {d1, d2}
  Fields <- MCHost
  ById <- MCNone
  Ids <- MCIds
  Deleted = "deleted_at"
  MaxStamp = 3
  Values = {1, 2}
  OldDevices <- MCNone
  NewFields <- MCNone
  SkewedClocks = FALSE
PROPERTY RefileDoesNotRevive
CHECK_DEADLOCK FALSE
