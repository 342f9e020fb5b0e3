SPECIFICATION Spec
CONSTANTS
  Workdirs = {a}
  NRules = 3
  NPatches = 1
  MaxEvents = 4
  None = None
  Stem <- GtkStems
  Copied = {2}
  Env = {"fail", "patch", "kill", "clean"}
PROPERTY ContractSpec
