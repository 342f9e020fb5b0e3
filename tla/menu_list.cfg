SPECIFICATION Spec
CONSTANTS
  Disks = {d1, d2}
  Builtin <- Pc
  Nodes = {n1, n2, n3}
  Media <- MenuMedia
  Requests = {"add", "remove"}
  MaxEntries = 2
  MaxTimeout = 2
  None = None
SYMMETRY Same
INVARIANTS TypeOK TailIsLast BootsHighlighted MountsUndone
PROPERTIES DefaultStands OrderSpec
CHECK_DEADLOCK FALSE
