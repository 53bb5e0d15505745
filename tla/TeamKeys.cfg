SPECIFICATION FairSpec
CONSTANTS
  o = o
  a = a
  Members = {o, a}
  Owner = o
  Managers = {o, a}
  Objects = {"host"}
  Secrets = {"password"}
  MaxEpoch = 3
  MaxEvents = 2
  InitOverlaps = FALSE
INVARIANTS TypeOK KeysAreTheirEpochs KickedHoldsNoKey
PROPERTIES RotationCompletes NewcomersGetTheKey
CHECK_DEADLOCK FALSE
