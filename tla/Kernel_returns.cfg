SPECIFICATION FairSpec
CONSTANTS
  ta = ta
  tb = tb
  tc = tc
  idle = idle
  e1 = e1
  e2 = e2
  q1 = q1
  fg = fg
  m1 = m1
  m2 = m2
  m3 = m3
  Task = {ta, tb, tc, idle}
  Idle = idle
  LowestPrio = 4
  Null = null
  Reserved = reserved
  App <- ReturnApps
  MaxCnt = 1
  Cnt0 = 1
  MaxTotal = 2
  Qcb = {q1}
  Size = 2
  Pip = 0
  Group = {fg}
  Bit = {1, 2}
PROPERTIES TimedPendReturns DelayEnds
