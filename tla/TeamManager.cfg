SPECIFICATION Spec
CONSTANTS
  o = o
  a = a
  Members = {o, a}
  Owner = o
  Managers = {o, a}
  Objects = {"host"}
  Secrets = {"password"}
  MaxEpoch = 3
  MaxEvents = 2
  InitOverlaps = TRUE
INVARIANT KickedIsKeyless
CHECK_DEADLOCK FALSE
