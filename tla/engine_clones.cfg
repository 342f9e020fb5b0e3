SPECIFICATION Spec
CONSTANTS
  Workdirs = {a, b}
  NRules = 3
  NPatches = 1
  MaxEvents = 2
  None = None
  Stem <- GtkStems
  Copied = {}
  Env = {"fail", "patch", "kill"}
SYMMETRY Clones
INVARIANTS InstalledIsWhole NoHalfTree
