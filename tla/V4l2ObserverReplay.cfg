SPECIFICATION Spec
CONSTANTS
  Proc <- MCOne
  Fd = {3}
  DeviceOf <- MCDevices
  Cpu = {0}
  User = 1
  Path <- MCPath
  FileNameOf <- MCFileNameOf
  PackageOwned <- MCOwned
  NoPolicy = NoPolicy
  PolicyFile <- MCPolicy
  BootErrors = {"none"}
  Upgradable = {}
  ReaderFaults = FALSE
  MaxTs = 2
  PerfCap = 2
  ChanCap = 1
  BroadcastCap = 2
  MaxConnects = 1
  MaxBoots = 1
INVARIANT IdleIsTrue
CHECK_DEADLOCK FALSE
