SPECIFICATION Spec
CONSTANTS
  d1 = d1
  d2 = d2
  d3 = d3
  Devices = {d1, d2, d3}
  Fields <- MCFields
  ById <- MCNone
  Ids <- MCIds
  Deleted = "deleted_at"
  MaxStamp = 3
  Values = {1, 2}
  OldDevices <- MCOld
  NewFields <- MCNew
  SkewedClocks = FALSE
INVARIANT BothSidesAgree
CHECK_DEADLOCK FALSE
