SPECIFICATION FairSpec
CONSTANTS
  Reader = {r1}
  Writer = {w1, w2}
  Char = {"a"}
  BufLen = 2
  RxDepth = 1
  TxDepth = 1
  TxThreshold = 0
  MaxCount = 2
  Timeouts <- TwoTimeouts
  MaxInactive = 1
  None = none
  Host = TRUE
PROPERTIES AllSent ReadersServed CloseReturns
