\* Two chats and one cancel request of two users; replies of up to two passes,
\* with one update each and a queue of one.
CONSTANTS
  Users = {u1, u2}
  Chats = {q1, q2}
  Cancels = {c1}
  TaskKinds = {"job", "download"}
  QueueSize = 1
  MaxParts = 1
  MaxPasses = 2
SPECIFICATION Spec
SYMMETRY Symmetry
INVARIANTS TypeOK OwnerIsWorking TaskOrReservation OneLiveProducer
PROPERTIES FinishKeepsOthers
CHECK_DEADLOCK FALSE
