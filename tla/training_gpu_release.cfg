\* Expected violation: the GPU entry is released under a running worker.
CONSTANTS
  Jobs = {j1}
  Distributed = {}
  Cancels = {c1}
  MaxJobs = 1
  MaxFaults = 0
SPECIFICATION Spec
INVARIANTS WorkerHoldsGpu
CHECK_DEADLOCK FALSE
