\* Fair scheduling; two jobs, one in a worker process, one cancel request, two
\* database faults or crashes; the job table has room for both jobs.
CONSTANTS
  Jobs = {j1, j2}
  Distributed = {j2}
  Cancels = {c1}
  MaxJobs = 2
  MaxFaults = 2
SPECIFICATION FairSpec
INVARIANTS AckedCancelNotCompleted
PROPERTIES EventuallySettled CancelAnswered
CHECK_DEADLOCK FALSE
