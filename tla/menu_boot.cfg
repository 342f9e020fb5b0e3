SPECIFICATION FairSpec
CONSTANTS
  Disks = {d1, d2}
  Builtin <- Pc
  Nodes = {n1, n2, n3}
  Media <- KexecMedia
  Requests = {"add"}
  MaxEntries = 2
  MaxTimeout = 2
  None = None
INVARIANTS EditsListedEntry BootsOneEntry
PROPERTY AutobootFires
CHECK_DEADLOCK FALSE
