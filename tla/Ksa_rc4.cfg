SPECIFICATION KSpec
CONSTANTS
  N = 4
  MsgLen = 3
  Valid = {1}
  ByteXor <- MCXor
  ZNext = {"undriven"}
INVARIANTS Permutation DecryptionExact KeptBytesValid LightsTruthful
PROPERTY ImplementsSearch
