SPECIFICATION Spec
CONSTANTS
  Tgid = {p1, p2}
  Thread = {1}
  Fd = {3, 4}
  CaptureCap = 2
  TgidCap = 1
  Modulus = 8
  MaxLives = 2
  MaxReused = 1
  MaxCount = 2
SYMMETRY TgidSymmetry
INVARIANTS TypeOK CountExact FirstExitEndsSessions StreamingReported CloseConfirmed
