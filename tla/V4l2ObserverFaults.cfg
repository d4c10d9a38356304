SPECIFICATION Spec
CONSTANTS
  Proc <- MCMixed
  Fd = {3}
  DeviceOf <- MCDevices
  Cpu = {c0, c1}
  User = 1
  Path <- MCPath
  FileNameOf <- MCFileNameOf
  PackageOwned <- MCOwned
  NoPolicy = NoPolicy
  PolicyFile <- MCPolicy
  BootErrors = {"none"}
  Upgradable = {"/usr/bin/pipewire"}
  ReaderFaults = TRUE
  MaxTs = 2
  PerfCap = 1
  ChanCap = 1
  BroadcastCap = 1
  MaxConnects = 2
  MaxBoots = 2
SYMMETRY CpuSymmetry
INVARIANTS RoutedToOwner CountsAgree
CHECK_DEADLOCK FALSE
