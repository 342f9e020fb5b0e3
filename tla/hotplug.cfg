SPECIFICATION FairSpec
CONSTANTS
  Fixed = {f}
  Removable = {r}
  Backlog = 1
  MaxHelpers = 6
  TriggerActions = {"add", "change"}
  DriveEvents = 3
  BothEvents = 1
  MaxEvents <- MCMaxEvents
  None = None
INVARIANTS TypeOK QuietIsRight
PROPERTIES Converges UdevGoesOn
CHECK_DEADLOCK FALSE
