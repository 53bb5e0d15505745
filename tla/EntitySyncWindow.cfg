SPECIFICATION Spec
CONSTANTS
  Merge <- MCMerge
  Differs <- MCDiffers
  Clocked <- MCClocked
  Edits <- MCEdits
  First <- MCFirst
  Missing <- MCMissing
  d1 = d1
  d2 = d2
  d3 = d3
  Devices = {d1, d2}
  Fields <- MCHost
  ById <- MCNone
  Ids <- MCIds
  Deleted = "deleted_at"
  MaxStamp = 2
  Values = {1, 2}
  Restarts = {}
  Flaky = {}
  EditsInWindow = TRUE
  Faults = FALSE
PROPERTY WritesAreKept
CHECK_DEADLOCK FALSE
