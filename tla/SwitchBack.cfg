SPECIFICATION Spec
CONSTANTS
  None = None
  Bin = Bin
  Accounts = {a, b, home}
  Cloud = {a, b}
  Entries = {secrets, hosts}
  Secrets = secrets
  Mishaps = {"move", "undo", "save", "write", "crash", "resign", "drop"}
  MaxMishaps = 2
INVARIANT ParkedComesBack
CHECK_DEADLOCK FALSE
