CONSTANTS
  w1 = w1
  g1 = g1
  u1 = u1
  u2 = u2
  Nothing = Nothing
  Strangers <- TwoStrangers
  Helpers <- OneHelper
  Goroutines <- OneGoroutine
  CaptchaWorlds <- Worlds
  Says <- Texts
  Settings <- Changed
  Exports <- Files
  MaxMessages = 3
  MaxChallenges = 2
  MaxFloods = 2
  CaptchaFaults = 1
SPECIFICATION CaptchaSpec
CHECK_DEADLOCK FALSE
INVARIANTS EndsOnce TimersCover AccountKept
