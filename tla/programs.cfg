SPECIFICATION ProgSpec
CONSTANTS
  \* dancesplash
  Scripts = {rcS, bg}
  Daemon = Daemon
  Empty = Empty
  MaxStarts = 2
  MaxCalls = 4
  \* netconfig
  eth0 = eth0
  eth1 = eth1
  wlan0 = wlan0
  addr = addr
  mask = mask
  essid = essid
  two = two
  Names = {eth0, wlan0}
  Wireless = {wlan0}
  Values = {addr, mask, essid, two}
  FirstWord <- MCFirstWord
  DefaultMask = mask
  FirstMode = mask
  Typed <- MCTyped
  Files <- Separated
  MaxEdits = 3
  MaxApplies = 2
  Null = Null
  \* pppconfig
  ann = ann
  anna = anna
  Logins = {ann, anna, bob}
  Begins <- MCBegins
  Passwords = {p, q}
  NoLogin = NoLogin
  NoPassword = NoPassword
  MaxDials = 2
  \* sms-pdu
  Numbers <- MCNumbers
  Lengths = {20, 300}
  MaxRuns = 2
  MaxCuts = 3
  \* sn-monitor
  Launched = {x, y}
  MaxSequenceEvents = 5
  \* minimount
  Sticks = {s}
  Drives = {r}
  Labels = {a, b}
  MaxWorkers = 4
  MaxMoves = 4
  Nothing = Nothing
  \* the rules
  Dirs = {v, w}
  Ways <- WaysOfRules
  MaxRetries = 2
  Nobody = Nobody
  \* /init
  NumDisks = 2
  NoImage = NoImage
INVARIANTS
  OneInside OwnMessageGone
  ReadsRow ApplyIsIdle
  Dialable SecretsKept
  SentAsAsked AnswersTrusted
  WatchWhileStarting
  QuietIsMounted
  InstalledAsAsked
  FirstWholeIsRoot DiskAsNeeded
PROPERTIES Returns NetTable
CHECK_DEADLOCK FALSE
