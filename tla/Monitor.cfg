\* Plugins come, go and fail while they are probed; limits change.
CONSTANTS
  p1 = p1
  p2 = p2
  Plugins <- MCPlugins
  Position <- MCPosition
  OperationalInterval <- MCOperational
  MemoryInterval <- MCMemory
  Probeable = {p1}
  Restartable = {p1}
  Limits = {0, 2, 4}
  Windows = {0, 1}
  MaxUint = 7
  MaxTried = 3
  MaxAttempts = 4
  Power <- PowerTo4
SPECIFICATION MCSpec
INVARIANTS JobInOrder
PROPERTIES RestartsInOrder DueIsProbed
