\* Three joins by two users, in two rooms, from two channels.
CONSTANTS
  Threads = {t1, t2}
  Rooms = {r1, r2}
  Users = {u1, u2}
  Channels = {c1, c2}
  None = None
  MaxJoins = 3
SPECIFICATION Spec
SYMMETRY Symmetry
INVARIANTS MembersInOrder NoGhosts
\* The code can deadlock (see MessengerLeave.cfg).
CHECK_DEADLOCK FALSE
