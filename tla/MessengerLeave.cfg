\* Two joins are enough: one thread creates a room while another leaves one.
CONSTANTS
  Threads = {t1, t2}
  Rooms = {r1, r2}
  Users = {u1}
  Channels = {c1}
  None = None
  MaxJoins = 2
SPECIFICATION Spec
PROPERTY LeaveEnds
CHECK_DEADLOCK FALSE
