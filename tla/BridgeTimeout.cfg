\* Two calls; the first one is never answered.
CONSTANTS
  Threads = {t1, t2}
  Channels = {c1, c2}
  Nobody = Nobody
  Seqs = {s1}
  TimeOut = 1
  MaxCalls = 2
  MaxTime = 3
SPECIFICATION Spec
SYMMETRY Symmetry
INVARIANTS
  TimeoutToItsCaller
\* The clients may stop calling and the clock stops at its bound.
CHECK_DEADLOCK FALSE
