\* One observer is enough.
CONSTANTS
  Observers = {o1}
  AlwaysUpdateFirst = FALSE
  MaxRefs = 2
SPECIFICATION Spec
INVARIANT RefusalMeansProgress
CHECK_DEADLOCK FALSE
