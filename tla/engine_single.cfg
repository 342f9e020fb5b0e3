SPECIFICATION FairSpec
CONSTANTS
  Workdirs = {a}
  NRules = 3
  NPatches = 2
  MaxEvents = 4
  None = None
  Stem <- OwnStems
  Copied = {2}
  Env = {"fail", "clean", "pipe"}
INVARIANT BuiltPatched
PROPERTY BuildCompletes
