SPECIFICATION NewlibSpec
CONSTANTS
  Task = {1, 2}
  HeapNests = 2
  EnvNests = 2
INVARIANT OwnerNeverWaits
