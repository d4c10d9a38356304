SPECIFICATION FairSpec
CONSTANTS
  Key <- MCOneKey
  ObservedOp = {"StreamStarted", "StreamStopped"}
  MaxTs = 1
  QueueCap = 1
  ConnectFault = {"NotInstalled"}
  Counts = {0}
  MaxUnread = 1
  MaxFrames = 3
PROPERTIES StopReturns LossIsShown
