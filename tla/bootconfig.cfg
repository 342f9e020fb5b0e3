SPECIFICATION FairSpec
CONSTANTS
  Labels = {a, b}
  Timeouts = {5}
  Lines <- MCLines
  None = None
  MaxLines = 6
INVARIANTS Complete OwnLines DefaultBoots
PROPERTY Ends
CHECK_DEADLOCK FALSE
