SPECIFICATION Spec
CONSTANTS
  Merge <- MCMerge
  Differs <- MCDiffers
  Clocked <- MCClocked
  Edits <- MCEdits
  First <- MCFirst
  Missing <- MCMissing
  d1 = d1
  d2 = d2
  d3 = d3
  Devices = {d1, d2}
  Fields <- MCEnv
  ById <- MCEnv
  Ids <- MCIds
  Deleted = "deleted_at"
  MaxStamp = 2
  Values = {1}
  Restarts = {}
  Flaky = {}
  EditsInWindow = FALSE
  Faults = FALSE
INVARIANT EveryEditSyncs
CHECK_DEADLOCK FALSE
