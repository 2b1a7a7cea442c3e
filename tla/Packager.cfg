\* Two observers, lists updated only when there are none.
CONSTANTS
  Observers = {o1, o2}
  AlwaysUpdateFirst = FALSE
  MaxRefs = 2
SPECIFICATION Spec
INVARIANTS WorkerInOrder
PROPERTIES JobsToTheirEnd ObserversServed ImplementsJobs ServedJobsEnd
\* The object stops for good once it has been destructed.
CHECK_DEADLOCK FALSE
