SPECIFICATION Spec
CONSTANTS
  Merge <- MCMerge
  Differs <- MCDiffers
  Clocked <- MCClocked
  Edits <- MCEdits
  First <- MCFirst
  Missing <- MCMissing
  d1 = d1
  d2 = d2
  d3 = d3
  Devices = {d1, d2, d3}
  Fields <- MCHost
  ById <- MCNone
  Ids <- MCIds
  Deleted = "deleted_at"
  MaxStamp = 3
  Values = {1}
  Restarts = {}
  Flaky = {d3}
  EditsInWindow = FALSE
  Faults = FALSE
INVARIANT SettledDevicesConverge
CONSTRAINT MCReader
ACTION_CONSTRAINT MCOneClock
CHECK_DEADLOCK FALSE
