SPECIFICATION Spec
CONSTANTS
  Merge <- MCMerge
  Differs <- MCDiffers
  Clocked <- MCClocked
  Edits <- MCEdits
  First <- MCFirst
  Missing <- MCMissing
  d1 = d1
  d2 = d2
  d3 = d3
  Devices = {d1, d2}
  Fields <- MCHostEnv
  ById <- MCEnv
  Ids <- MCIds
  Deleted = "deleted_at"
  MaxStamp = 2
  Values = {1}
  Restarts = {d1}
  Flaky = {d2}
  EditsInWindow = FALSE
  Faults = TRUE
INVARIANTS TypeOK SettledMeansMerged SettledDevicesAgree
PROPERTY WritesAreKept
CHECK_DEADLOCK FALSE
