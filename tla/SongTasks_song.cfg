SPECIFICATION MCSpec
CONSTANTS
  Size = 4
  Piece = 2
  Depth = 1
  Clock = 100
  Step = 2
  Nominal = 5
  TicksPerSec = 50
  Buttons <- AllButtons
INVARIANT PanelTruthful
PROPERTIES InOrder WholeSong StopWorks
