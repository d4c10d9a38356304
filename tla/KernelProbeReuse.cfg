SPECIFICATION Spec
CONSTANTS
  Tgid = {100}
  Thread = {1}
  Fd = {3, 4}
  CaptureCap = 4
  TgidCap = 1
  Modulus = 8
  MaxLives = 2
  MaxReused = 1
  MaxCount = 3
INVARIANT ExitsEndSessions
