SPECIFICATION Spec
CONSTANTS
  Policy <- MCPolicy
  Slice = 3
  Poll = 2
  ConnectTime = 2
  MaxAttempt = 4
  MaxNow = 26
INVARIANTS TypeOK WaitIsExponential BackOnTime StopsOnTime
PROPERTY NeverHammers
