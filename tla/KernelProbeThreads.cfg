SPECIFICATION Spec
CONSTANTS
  Tgid = {100}
  Thread = {1, 2}
  Fd = {3, 4}
  CaptureCap = 2
  TgidCap = 1
  Modulus = 8
  MaxLives = 1
  MaxReused = 1
  MaxCount = 3
INVARIANT ExitsEndSessions
