SPECIFICATION Spec
CONSTANTS
  Proc <- MCOne
  Fd = {3, 4}
  DeviceOf <- MCShared
  Cpu = {0}
  User = 1
  Path <- MCPath
  FileNameOf <- MCFileNameOf
  PackageOwned <- MCOwned
  NoPolicy = NoPolicy
  PolicyFile <- MCPolicy
  BootErrors = {"none", "tracepoint"}
  Upgradable = {}
  ReaderFaults = FALSE
  MaxTs = 3
  PerfCap = 3
  ChanCap = 1
  BroadcastCap = 4
  MaxConnects = 2
  MaxBoots = 2
INVARIANTS TypeOK NoGhost CapturesShown
PROPERTY ImplementsProtocol
CHECK_DEADLOCK FALSE
