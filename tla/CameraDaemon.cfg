SPECIFICATION Spec
CONSTANTS
  Key <- MCKey
  ObservedOp = {"StreamStarted", "ProcessExited"}
  MaxTs = 1
  QueueCap = 1
  ConnectFault = {"NotInstalled"}
  Counts = {0}
  MaxUnread = 1
  MaxFrames = 5
INVARIANTS TypeOK ViewCatchesUp RegistryCatchesUp SignalsAlternate QueuedClear CleanStopDrains
PROPERTIES ClearedBeforeUnavailable ImplementsMonitor
