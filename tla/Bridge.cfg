\* Two calls by two clients on two threads, time-outs after one tick; a link
\* with one plugin and two changes, breaks or resets of the sink, or with two
\* plugins and none of these.
CONSTANTS
  Threads = {t1, t2}
  Channels = {c1, c2}
  Nobody = Nobody
  Seqs = {s1}
  TimeOut = 1
  MaxCalls = 2
  MaxTime = 2
  Callsigns = {"a", "b"}
  Steady = "b"
  Clients = {"c"}
  MaxRetries = 0
  MaxEvents = 4
  MaxChanges = 2
SPECIFICATION BridgesSpec
INVARIANTS RepliesInOrder
PROPERTIES EventuallyReplied Drained
\* The clients may stop calling and the clock stops at its bound.
CHECK_DEADLOCK FALSE
