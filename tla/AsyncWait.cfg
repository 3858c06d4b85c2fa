CONSTANTS
  d1 = d1
  d2 = d2
  m1 = m1
  m2 = m2
  Devices = {d1, d2}
  Methods = {m1, m2}
  UntimedInside = FALSE
  MaxWaits = 2
  MaxPackets = 2
  MaxTimers = 1
SPECIFICATION FairSpec
INVARIANTS TypeOK QuitForAReason
PROPERTIES TimedWaitReturns AnswerIsHeard
