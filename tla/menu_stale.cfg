SPECIFICATION Spec
CONSTANTS
  Disks = {d1}
  Builtin <- Pc
  Nodes = {n1, n2, n3}
  Media <- MenuMedia
  Requests = {"add", "remove"}
  MaxEntries = 2
  MaxTimeout = 2
  None = None
INVARIANT EditsListedEntry
CHECK_DEADLOCK FALSE
