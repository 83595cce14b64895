----------------------------- MODULE AbstractJobs -----------------------------
(***************************************************************************)
(* What the jobs of forge/orchestrators/base.py promise to whoever polls   *)
(* them: one run at most, an end that stays, and a cancel that is never    *)
(* answered by a success.  A server that dies forgets its jobs, and a full *)
(* table forgets one that is over; so a step may change several jobs.      *)
(***************************************************************************)
CONSTANT Jobs

VARIABLES
  status,   \* JobStatus, "none" for a job that the table does not have
  wanted    \* somebody asked for a cancel

Over == {"completed", "failed", "cancelled"}

Becomes(j, s) == status'[j] = s /\ wanted'[j] = wanted[j]

Submit(j) == status[j] = "none" /\ status'[j] = "pending" /\ ~wanted'[j]

Start(j) == status[j] = "pending" /\ ~wanted[j] /\ Becomes(j, "running")

Succeed(j) == status[j] = "running" /\ ~wanted[j] /\ Becomes(j, "completed")

Fail(j) == status[j] \in {"pending", "running"} /\ Becomes(j, "failed")

\* A cancel of a job that is over changes nothing but the note.
Ask(j) == status[j] # "none" /\ status'[j] = status[j] /\ wanted'[j]

Stop(j) ==
  /\ status[j] \in {"pending", "running"}
  /\ status'[j] = "cancelled"
  /\ wanted'[j]

\* The database knows a cancel that the table has missed.
Correct(j) == status[j] \in Over /\ Becomes(j, "cancelled")

Forget(j) == status[j] \in Over /\ Becomes(j, "none")

Crash(j) == status'[j] = "none" /\ ~wanted'[j]

JobStep(j) ==
  \/ Submit(j) \/ Start(j) \/ Succeed(j) \/ Fail(j) \/ Ask(j) \/ Stop(j)
  \/ Correct(j) \/ Forget(j) \/ Crash(j)

JInit == status = [j \in Jobs |-> "none"] /\ wanted = [j \in Jobs |-> FALSE]

JNext == \A j \in Jobs : JobStep(j) \/ Becomes(j, status[j])

JSpec == JInit /\ [][JNext]_<<status, wanted>>

=============================================================================
