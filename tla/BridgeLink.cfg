SPECIFICATION MCSpec
CONSTANTS
  Callsigns = {"a", "b"}
  Steady = "b"
  Clients = {"c", "d"}
  MaxRetries = 1
  MaxEvents = 4
  MaxChanges = 2
INVARIANTS LivesDuringCall InStep
CHECK_DEADLOCK FALSE
