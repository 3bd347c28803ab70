SPECIFICATION SafeSpec
CONSTANTS
  Reader = {r1}
  Writer = {w1, w2}
  Char = {"a", "b"}
  BufLen = 3
  RxDepth = 1
  TxDepth = 1
  TxThreshold = 0
  MaxCount = 2
  Timeouts <- OneTimeout
  MaxInactive = 1
  None = none
  Host = FALSE
PROPERTIES ReceivesInOrder TransmitsInOrder
SYMMETRY Writers
