SPECIFICATION MCSpec
CONSTANTS
  Finish = 3
  NoWord = NoWord
  Latencies = {2, 5}
  Longest = 5
  Patience = 1
  Gap = 11
  Width = 64
  Standard = 18
  Press = 5
  Fastest = 6
  Slowest = 28
  W = 2
  Loops <- MCLoops
  Powerup = {0, 3}
INVARIANTS SoundsTheWordRead OnePulsePerEdge
PROPERTIES WordsInOrder StopsCleanly SoundGoesOn MainUndisturbed BarShowsAverage
