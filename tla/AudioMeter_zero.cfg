SPECIFICATION MeterSpec
CONSTANTS
  W = 2
  Loops <- MCLoops
  Powerup = {0}
PROPERTY ZeroAverageShown
