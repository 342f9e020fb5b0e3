SPECIFICATION Spec
CONSTANTS
  Workdirs = {a}
  NRules = 1
  NPatches = 2
  MaxEvents = 1
  None = None
  Stem <- OwnStems
  Copied = {}
  Env = {"patch"}
INVARIANT BuiltPatched
