SPECIFICATION Spec
CONSTANTS
  o = o
  a = a
  Members = {o, a}
  Owner = o
  Managers = {o, a}
  Objects = {"host"}
  Secrets = {"password"}
  MaxEpoch = 2
  MaxEvents = 4
  InitOverlaps = TRUE
INVARIANT KickedHoldsNoKey
CHECK_DEADLOCK FALSE
