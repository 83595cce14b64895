\* Two jobs, one in a worker process, two cancel requests, one database fault or
\* crash; the job table has room for one job, so that a finished record is evicted
\* by the next one.
CONSTANTS
  Jobs = {j1, j2}
  Distributed = {j2}
  Cancels = {c1, c2}
  MaxJobs = 1
  MaxFaults = 1
SPECIFICATION Spec
SYMMETRY Symmetry
INVARIANTS TypeOK GpuRegistry CompletedHasCheckpoint
PROPERTIES ImplementsJobs
CHECK_DEADLOCK FALSE
