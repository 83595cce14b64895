\* One user with two chats and a cancel request; one pass each, whose second
\* update finds the queue full.
CONSTANTS
  Users = {u1}
  Chats = {q1, q2}
  Cancels = {c1}
  TaskKinds = {}
  QueueSize = 1
  MaxParts = 2
  MaxPasses = 1
SPECIFICATION FairSpec
PROPERTIES ChatEnds LeaseEnds
CHECK_DEADLOCK FALSE
