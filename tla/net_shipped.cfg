SPECIFICATION NetSpec
CONSTANTS
  eth0 = eth0
  eth1 = eth1
  wlan0 = wlan0
  addr = addr
  mask = mask
  essid = essid
  two = two
  Names = {eth0, eth1, wlan0}
  Wireless = {wlan0}
  Values = {addr, mask, essid, two}
  FirstWord <- MCFirstWord
  DefaultMask = mask
  FirstMode = mask
  Typed <- MCTyped
  Files <- Shipped
  MaxEdits = 1
  MaxApplies = 1
  Null = Null
PROPERTIES OthersKept
CHECK_DEADLOCK FALSE
