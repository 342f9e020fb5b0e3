SPECIFICATION FairSpec
CONSTANTS
  Controllers = {k1, k2, k3}
  Any = Any
  Closed = Closed
  Device = Device
  MaxClients = 2
  MaxFd = 5
  MaxConnects = 3
INVARIANTS OwnSockets FirstHasDevice
PROPERTY Initialized
CHECK_DEADLOCK FALSE
