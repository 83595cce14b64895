---------------------------- MODULE TrainingJobs ----------------------------
(***************************************************************************)
(* Life of Forge training jobs: the HTTP route that creates a job and the  *)
(* background coroutine it spawns (forge/api/routes/training.py), the      *)
(* orchestrator's in-memory record and asyncio task                        *)
(* (forge/orchestrators/base.py, training.py), the GPU worker thread, the  *)
(* worker process of a distributed launch, the cooperative cancel token    *)
(* (seiso/training/cancel.py), the GPU task registry                       *)
(* (forge/services/memory_release.py), the durable row in SQLite, cancel   *)
(* requests, and a crash of the server followed by its restart.            *)
(*                                                                         *)
(* Everything but the workers runs on one asyncio loop, so an action is    *)
(* the code between two awaits that may suspend.                           *)
(***************************************************************************)
EXTENDS Naturals, FiniteSets

CONSTANTS
  Jobs,         \* job identifiers (uuid4 in the code)
  Distributed,  \* jobs whose plan launches a worker process
  Cancels,      \* POST /jobs/{id}/cancel requests
  MaxJobs,      \* capacity of the in-memory job table
  MaxFaults     \* bound: database statements that raise, and crashes

ASSUME ConstantsAssumption ==
  /\ IsFiniteSet(Jobs)
  /\ Distributed \subseteq Jobs
  /\ MaxJobs \in Nat \ {0}
  /\ MaxFaults \in Nat

VARIABLES
  row,        \* status column of the job's training_jobs row
  rec,        \* JobRecord.status, "none" when not in Orchestrator._jobs
  cancelReq,  \* JobRecord.cancel_requested
  task,       \* Orchestrator._tasks[j]: where its coroutine is suspended
  killed,     \* task.cancel() was called and is not yet delivered
  outcome,    \* how _execute_training leaves once its finally has run
  worker,     \* the run_training call on GPU_EXECUTOR, or the worker process
  event,      \* cancel._events[j]
  sticky,     \* cancel._pending_requests
  gpu,        \* training jobs in memory_release._ACTIVE_GPU_TASKS
  otherGpu,   \* a GPU task of another kind is registered
  run,        \* where the route's background _run() is suspended
  final,      \* job.status as _run() holds it
  req,        \* where a cancel request is suspended
  target,     \* the job a cancel request names
  faults      \* database statements that raised, and crashes

memVars  == <<rec, cancelReq>>
taskVars == <<task, killed, outcome>>
tokVars  == <<event, sticky>>
gpuVars  == <<gpu, otherGpu>>
runVars  == <<run, final>>
reqVars  == <<req, target>>
vars == <<row, memVars, taskVars, worker, tokVars, gpuVars, runVars, reqVars,
          faults>>

Terminal == {"completed", "failed", "cancelled"}
Status   == {"none", "pending", "running"} \union Terminal
\* Mutant: a task cancelled before its first step does not count as finished.
FinishedOnlyDone == {"done"}
Finished == {"done", "aborted"}    \* task.done()

Init ==
  /\ row       = [j \in Jobs |-> "none"]
  /\ rec       = [j \in Jobs |-> "none"]
  /\ cancelReq = [j \in Jobs |-> FALSE]
  /\ task      = [j \in Jobs |-> "none"]
  /\ killed    = [j \in Jobs |-> FALSE]
  /\ outcome   = [j \in Jobs |-> "none"]
  /\ worker    = [j \in Jobs |-> "none"]
  /\ event     = [j \in Jobs |-> "none"]
  /\ sticky    = {}
  /\ gpu       = {}
  /\ otherGpu  = FALSE
  /\ run       = [j \in Jobs |-> "none"]
  /\ final     = [j \in Jobs |-> "none"]
  /\ req       = [c \in Cancels |-> "idle"]
  /\ target    = [c \in Cancels |-> {}]
  /\ faults    = 0

-----------------------------------------------------------------------------
(* Cooperative cancel token: seiso/training/cancel.py.                     *)

IsRequested(j) == event[j] = "set" \/ j \in sticky

\* request(): set the event, or remember the request until register().
RequestStop(j) ==
  IF event[j] = "none"
  THEN /\ sticky' = sticky \union {j}
       /\ UNCHANGED event
  ELSE /\ event' = [event EXCEPT ![j] = "set"]
       /\ UNCHANGED sticky

Register(j) ==
  /\ event'  = [event EXCEPT ![j] = IF j \in sticky THEN "set" ELSE "clear"]
  /\ sticky' = sticky \ {j}

Clear(j) ==
  /\ event'  = [event EXCEPT ![j] = "none"]
  /\ sticky' = sticky \ {j}

-----------------------------------------------------------------------------
(* POST /jobs: the durable row, the in-memory record, and _run() spawned in *)
(* the background.  The lock of the database connection is held until the  *)
(* row is committed, and given up in the step that makes the record:       *)
(* nobody reads the row before the record is there.                        *)

\* _evict_oldest_job: a finished record leaves the table with its task.  The
\* code takes the oldest by created_at; here it is any finished one.
Evictable == {j \in Jobs : rec[j] \in Terminal}
TableFull == Cardinality({j \in Jobs : rec[j] # "none"}) >= MaxJobs

CreateJob(j) ==
  /\ row[j] = "none"
  /\ row' = [row EXCEPT ![j] = "pending"]
  /\ \E gone \in SUBSET Evictable :
       /\ IF TableFull /\ Evictable # {} THEN Cardinality(gone) = 1 ELSE gone = {}
       /\ rec'  = [k \in Jobs |-> IF k = j THEN "pending"
                                  ELSE IF k \in gone THEN "none" ELSE rec[k]]
       /\ cancelReq' = [cancelReq EXCEPT ![j] = FALSE]
       /\ run' = [run EXCEPT ![j] = "mark"]
  /\ UNCHANGED <<taskVars, worker, tokVars, gpuVars, final, reqVars, faults>>

-----------------------------------------------------------------------------
(* The background coroutine _run() of the route.                           *)

RunRest == <<cancelReq, taskVars, worker, tokVars, gpuVars, reqVars>>

\* A database statement raises: in the try block that leads to the except
\* block, in the except block _run() is lost.
DbFault(j, pc) ==
  /\ run[j] = pc
  /\ faults < MaxFaults
  /\ faults' = faults + 1
  /\ run' = [run EXCEPT ![j] = IF pc \in {"exRead", "exWrite"} THEN "lost" ELSE "exRead"]
  /\ UNCHANGED <<row, rec, final, RunRest>>

\* update_job_status(job_id, "running"): an unconditional UPDATE.
MarkRunning(j) ==
  \/ /\ run[j] = "mark"
     /\ row' = [row EXCEPT ![j] = "running"]
     /\ run' = [run EXCEPT ![j] = "start"]
     /\ UNCHANGED <<rec, final, faults, RunRest>>
  \/ DbFault(j, "mark")

\* Orchestrator.start, then wait_for: a job that is not pending any more is
\* refused by an exception, otherwise its task is scheduled.
MayStart(j) == rec[j] = "pending" /\ ~cancelReq[j]

StartJob(j) ==
  /\ run[j] = "start"
  /\ IF MayStart(j)
     THEN /\ rec'  = [rec  EXCEPT ![j] = "running"]
          /\ task' = [task EXCEPT ![j] = "scheduled"]
          /\ run'  = [run  EXCEPT ![j] = "wait"]
     ELSE /\ run'  = [run  EXCEPT ![j] = "exRead"]
          /\ UNCHANGED <<rec, task>>
  /\ UNCHANGED <<row, cancelReq, killed, outcome, worker, tokVars, gpuVars,
                 final, reqVars, faults>>

\* wait_for returns get_job(), None for an evicted record: nothing is written
\* then.  A task cancelled before its first step raises CancelledError here,
\* which no handler of _run() catches.
WaitDone(j) ==
  /\ run[j] = "wait"
  /\ task[j] \in Finished
  /\ final' = [final EXCEPT ![j] = rec[j]]
  /\ run' = [run EXCEPT ![j] =
               IF task[j] = "aborted" \/ rec[j] = "none" THEN "done" ELSE "read"]
  /\ UNCHANGED <<row, rec, faults, RunRest>>

\* Re-read the row; a cancelled row turns a completed or failed record into a
\* cancelled one.
ReadExisting(j) ==
  \/ /\ run[j] = "read"
     /\ run' = [run EXCEPT ![j] = "write"]
     /\ IF row[j] = "cancelled" /\ final[j] \in {"completed", "failed"}
        THEN /\ final' = [final EXCEPT ![j] = "cancelled"]
             /\ rec' = [rec EXCEPT ![j] = IF @ = "none" THEN @ ELSE "cancelled"]
        ELSE UNCHANGED <<final, rec>>
     /\ UNCHANGED <<row, faults, RunRest>>
  \/ DbFault(j, "read")

WriteFinal(j) ==
  \/ /\ run[j] = "write"
     /\ row' = [row EXCEPT ![j] = final[j]]
     /\ run' = [run EXCEPT ![j] = "done"]
     /\ UNCHANGED <<rec, final, faults, RunRest>>
  \/ DbFault(j, "write")

\* except block: a cancelled row is left alone; otherwise fail_unstarted_job
\* and, after another await, the row becomes failed.
ExceptRead(j) ==
  \/ /\ run[j] = "exRead"
     /\ IF row[j] = "cancelled"
        THEN /\ run' = [run EXCEPT ![j] = "done"]
             /\ UNCHANGED rec
        ELSE /\ run' = [run EXCEPT ![j] = "exWrite"]
             /\ rec' = [rec EXCEPT ![j] =
                          IF @ = "pending" /\ task[j] = "none" THEN "failed" ELSE @]
     /\ UNCHANGED <<row, final, faults, RunRest>>
  \/ DbFault(j, "exRead")

\* Mutant: the except block logs and leaves the row.
ExceptKeepsRow(j) ==
  /\ run[j] = "exWrite"
  /\ run' = [run EXCEPT ![j] = "done"]
  /\ UNCHANGED <<row, rec, final, faults, RunRest>>

ExceptWrite(j) ==
  \/ /\ run[j] = "exWrite"
     /\ row' = [row EXCEPT ![j] = "failed"]
     /\ run' = [run EXCEPT ![j] = "done"]
     /\ UNCHANGED <<rec, final, faults, RunRest>>
  \/ DbFault(j, "exWrite")

RunStep(j) ==
  \/ MarkRunning(j)
  \/ StartJob(j)
  \/ WaitDone(j)
  \/ ReadExisting(j)
  \/ WriteFinal(j)
  \/ ExceptRead(j)
  \/ ExceptWrite(j)

-----------------------------------------------------------------------------
(* The job's asyncio task: _wrapper -> _run -> execute -> _execute_training. *)

TaskRest == <<row, gpuVars, runVars, reqVars, faults>>

\* _HF_TOKEN_LOCK is held from the entry of _execute_training to its return.
HfFree == \A k \in Jobs : task[k] \notin {"training", "persisting"}

\* Mutant: the outcome itself becomes the status.
FinalStatusRaw(j, how) == how

\* Mutant: a success overwrites a cancel.
FinalStatusIgnoringCancel(j, how) ==
  CASE how = "ok" -> "completed" [] how = "cancel" -> "cancelled" [] how = "fail" -> "failed"

\* End of Orchestrator._run: the outcome of execute() becomes the status, and
\* a cancel that came first is never overwritten by a success.
FinalStatus(j, how) ==
  CASE how = "ok"     -> IF cancelReq[j] \/ rec[j] = "cancelled"
                         THEN "cancelled" ELSE "completed"
    [] how = "cancel" -> "cancelled"
    [] how = "fail"   -> "failed"

FinishTask(j, how) ==
  /\ rec'       = [rec       EXCEPT ![j] = FinalStatus(j, how)]
  /\ cancelReq' = [cancelReq EXCEPT ![j] = @ \/ how = "cancel"]
  /\ task'      = [task      EXCEPT ![j] = "done"]
  /\ killed'    = [killed    EXCEPT ![j] = FALSE]
  /\ outcome'   = [outcome   EXCEPT ![j] = "none"]

\* running_gpu_task_kinds: a registered task of another job, or any other
\* training record whose status is RUNNING.
GpuBusy(j) ==
  \/ otherGpu
  \/ gpu \ {j} # {}
  \/ \E k \in Jobs \ {j} : rec[k] = "running"

\* The synchronous part of _execute_training up to the first await: validate
\* the config, prepare_for_gpu_task, register the cancel token, submit the
\* worker or launch its process.  Both refusals leave before the try whose
\* finally calls clear().
GpuConflict(j) ==
  /\ GpuBusy(j)
  /\ FinishTask(j, "fail")
  /\ UNCHANGED <<gpu, worker, tokVars>>

RefuseTraining(j) ==
  /\ FinishTask(j, "fail")
  /\ UNCHANGED <<gpu, worker, tokVars>>

SubmitTraining(j) ==
  /\ ~GpuBusy(j)
  /\ gpu'    = gpu \union {j}
  /\ Register(j)
  /\ worker' = [worker EXCEPT ![j] = IF j \in Distributed THEN "launch" ELSE "queued"]
  /\ task'   = [task EXCEPT ![j] = "training"]
  /\ UNCHANGED <<memVars, killed, outcome>>

BeginTraining(j) ==
  /\ \/ GpuConflict(j)
     \/ RefuseTraining(j)
     \/ SubmitTraining(j)
  /\ UNCHANGED <<row, otherGpu, runVars, reqVars, faults>>

\* First step of the task.  A task cancelled before it never enters _wrapper:
\* no except or finally of it runs.
FirstStep(j) ==
  /\ task[j] = "scheduled"
  /\ ~killed[j]
  /\ IF HfFree /\ \A k \in Jobs : task[k] # "hfwait"
     THEN BeginTraining(j)
     ELSE /\ task' = [task EXCEPT ![j] = "hfwait"]
          /\ UNCHANGED <<memVars, killed, outcome, worker, tokVars, TaskRest>>

AbortUnstarted(j) ==
  /\ task[j] = "scheduled"
  /\ killed[j]
  /\ task'   = [task   EXCEPT ![j] = "aborted"]
  /\ killed' = [killed EXCEPT ![j] = FALSE]
  /\ UNCHANGED <<memVars, outcome, worker, tokVars, TaskRest>>

\* A waiter gets the lock (asyncio hands it out in FIFO order; here in any).
AcquireHf(j) ==
  /\ task[j] = "hfwait"
  /\ ~killed[j]
  /\ HfFree
  /\ BeginTraining(j)

CancelWaiter(j) ==
  /\ task[j] = "hfwait"
  /\ killed[j]
  /\ FinishTask(j, "cancel")
  /\ UNCHANGED <<worker, tokVars, TaskRest>>

\* Mutant: a cancelled task leaves its entry in the GPU registry.
LeaveTrainingOnSuccess(j, how) ==
  /\ Clear(j)
  /\ gpu'     = IF how = "cancel" THEN gpu ELSE gpu \ {j}
  /\ outcome' = [outcome EXCEPT ![j] = how]
  /\ task'    = [task EXCEPT ![j] = "persisting"]

\* The finally of _execute_training up to its first await: clear the token and
\* release_after_task.
LeaveTraining(j, how) ==
  /\ Clear(j)
  /\ gpu'     = gpu \ {j}
  /\ outcome' = [outcome EXCEPT ![j] = how]
  /\ task'    = [task EXCEPT ![j] = "persisting"]

\* Mutant: the exit code of a worker process is not looked at.
WorkerOutcomeExitIgnored(j) ==
  CASE worker[j] = "interrupted" -> "cancel"
    [] worker[j] = "failed"      -> IF j \in Distributed THEN "ok" ELSE "fail"
    [] worker[j] = "ok"          -> IF IsRequested(j) THEN "cancel" ELSE "ok"

\* A call that returned is cancelled if the token says so; a process that exited
\* with a code other than 0, if the token or the record says so.  A process that
\* exited with 0 is left to FinalStatus.
WorkerOutcome(j) ==
  CASE worker[j] = "interrupted" -> "cancel"
    [] worker[j] = "failed"      -> IF j \in Distributed /\ (IsRequested(j) \/ cancelReq[j])
                                    THEN "cancel" ELSE "fail"
    [] worker[j] = "ok"          -> IF j \notin Distributed /\ IsRequested(j)
                                    THEN "cancel" ELSE "ok"

Returned == {"ok", "failed", "interrupted"}

\* Or the process exited with 0 and left no checkpoint.
ResumeTraining(j) ==
  /\ task[j] = "training"
  /\ ~killed[j]
  /\ worker[j] \in Returned
  /\ \/ LeaveTraining(j, WorkerOutcome(j))
     \/ j \in Distributed /\ worker[j] = "ok" /\ LeaveTraining(j, "fail")
  /\ UNCHANGED <<row, memVars, killed, worker, otherGpu, runVars, reqVars, faults>>

\* The process cannot be started, or its output cannot be read (a line over the
\* limit of the stream, or no UTF-8): then it goes on, and nobody waits for it.
DistributedFails(j) ==
  /\ worker[j] \in {"launch", "process"}
  /\ ~killed[j]
  /\ worker' = [worker EXCEPT ![j] = IF @ = "launch" THEN "failed" ELSE "orphan"]
  /\ LeaveTraining(j, "fail")
  /\ UNCHANGED <<row, memVars, killed, otherGpu, runVars, reqVars, faults>>

\* task.cancel() cancels the awaited executor future: a queued call is dropped
\* and a running one goes on without anybody waiting for it, because
\* shield() of a cancelled future raises CancelledError at once, which
\* suppress(Exception) lets through.  asyncio takes a process that it is
\* launching down.
CancelTraining(j) ==
  /\ task[j] = "training"
  /\ killed[j]
  /\ killed' = [killed EXCEPT ![j] = FALSE]
  /\ worker' = [worker EXCEPT ![j] = IF @ \in {"queued", "launch"} THEN "none" ELSE @]
  /\ LeaveTraining(j, "cancel")
  /\ UNCHANGED <<row, memVars, otherGpu, runVars, reqVars, faults>>

\* The awaits of that finally: the metrics poller (a cancel delivered there is
\* suppressed), then the metrics row, where a cancel or a database error
\* replaces the outcome (as does an error of the cleanup before them).  Then
\* execute() returns and _run writes the status.
PersistMetrics(j) ==
  /\ task[j] = "persisting"
  /\ \/ /\ FinishTask(j, outcome[j])
        /\ UNCHANGED faults
     \/ /\ killed[j]
        /\ FinishTask(j, "cancel")
        /\ UNCHANGED faults
     \/ /\ faults < MaxFaults
        /\ faults' = faults + 1
        /\ FinishTask(j, "fail")
  /\ UNCHANGED <<row, worker, tokVars, gpuVars, runVars, reqVars>>

TaskStep(j) ==
  \/ FirstStep(j)
  \/ AbortUnstarted(j)
  \/ AcquireHf(j)
  \/ CancelWaiter(j)
  \/ ResumeTraining(j)
  \/ DistributedFails(j)
  \/ CancelTraining(j)
  \/ PersistMetrics(j)

-----------------------------------------------------------------------------
(* GPU_EXECUTOR has one worker thread; run_training polls the token.  A     *)
(* worker process does not know the token: it gets signals.                *)

WorkerRest == <<row, memVars, taskVars, tokVars, gpuVars, runVars, reqVars, faults>>

WorkerStart(j) ==
  /\ worker[j] = "queued"
  /\ \A k \in Jobs : worker[k] # "running"
  /\ worker' = [worker EXCEPT ![j] = "running"]
  /\ UNCHANGED WorkerRest

\* The process is started and registered with the orchestrator.
ProcessStart(j) ==
  /\ worker[j] = "launch"
  /\ ~killed[j]
  /\ worker' = [worker EXCEPT ![j] = "process"]
  /\ UNCHANGED WorkerRest

\* Training ends by itself or, as a process, on a signal: with a checkpoint or
\* with an error.
WorkerReturn(j) ==
  /\ worker[j] \in {"running", "process"}
  /\ \E how \in {"ok", "failed"} : worker' = [worker EXCEPT ![j] = how]
  /\ UNCHANGED WorkerRest

\* The poll sees a requested cancel and raises InterruptedError.
WorkerInterrupt(j) ==
  /\ worker[j] = "running"
  /\ IsRequested(j)
  /\ worker' = [worker EXCEPT ![j] = "interrupted"]
  /\ UNCHANGED WorkerRest

WorkerStep(j) ==
  WorkerStart(j) \/ ProcessStart(j) \/ WorkerReturn(j) \/ WorkerInterrupt(j)

-----------------------------------------------------------------------------
(* A GPU task of another kind (export, compress, distill, inference load)  *)
(* passes the same prepare_for_gpu_task gate and later releases it.        *)

OtherRest == <<row, memVars, taskVars, worker, tokVars, gpu, runVars, reqVars, faults>>

OtherGpuBegin ==
  /\ ~otherGpu
  /\ gpu = {}
  /\ \A k \in Jobs : rec[k] # "running"
  /\ otherGpu' = TRUE
  /\ UNCHANGED OtherRest

OtherGpuEnd ==
  /\ otherGpu
  /\ otherGpu' = FALSE
  /\ UNCHANGED OtherRest

-----------------------------------------------------------------------------
(* POST /jobs/{id}/cancel: the token first, then Orchestrator.cancel.      *)

\* The answer of cancel() when it does not wait for the task: it turns a job
\* without a live task into a cancelled one and refuses a completed or failed
\* one.  A job without a record is cancelled in the database only.
CancelNow(c, j) ==
  LET live == rec[j] \in {"pending", "running"}
  IN  /\ rec' = [rec EXCEPT ![j] = IF live THEN "cancelled" ELSE @]
      /\ cancelReq' = [cancelReq EXCEPT ![j] = rec[j] # "none" \/ @]
      /\ req' = [req EXCEPT ![c] =
                   IF rec[j] \in {"completed", "failed"} THEN "refused" ELSE "write"]
      /\ UNCHANGED killed

\* A running job whose task is alive: cancel the task and await it.
CancelTask(c, j) ==
  /\ cancelReq' = [cancelReq EXCEPT ![j] = TRUE]
  /\ killed' = [killed EXCEPT ![j] = TRUE]
  /\ req' = [req EXCEPT ![c] = "await"]
  /\ UNCHANGED rec

\* Mutant: the record does not learn of the cancel while the process may still
\* end well.
SignalProcessUnmarked(c, j) ==
  /\ req' = [req EXCEPT ![c] = "grace"]
  /\ UNCHANGED <<rec, killed, cancelReq>>

\* A running job with a process: signal it first, and wait for its end.
SignalProcess(c, j) ==
  /\ cancelReq' = [cancelReq EXCEPT ![j] = TRUE]
  /\ req' = [req EXCEPT ![c] = "grace"]
  /\ UNCHANGED <<rec, killed>>

TaskAlive(j) == rec[j] = "running" /\ task[j] \notin Finished

CancelRequest(c, j) ==
  /\ req[c] = "idle"
  /\ row[j] # "none"
  /\ target' = [target EXCEPT ![c] = {j}]
  /\ RequestStop(j)
  /\ IF ~TaskAlive(j) THEN CancelNow(c, j)
     ELSE IF worker[j] = "process" THEN SignalProcess(c, j) ELSE CancelTask(c, j)
  /\ UNCHANGED <<row, task, outcome, worker, gpuVars, runVars, faults>>

\* The process has ended, or is killed after 5 s.  The job may be over by now,
\* and its record gone; the request is answered with success all the same.
CancelGrace(c) ==
  /\ req[c] = "grace"
  /\ \E j \in target[c] :
       /\ worker' = [worker EXCEPT ![j] = IF @ \in {"process", "orphan"} THEN "failed" ELSE @]
       /\ IF task[j] \notin Finished THEN CancelTask(c, j)
          ELSE /\ rec' = [rec EXCEPT ![j] = IF @ \in Terminal \union {"none"} THEN @
                                            ELSE "cancelled"]
               /\ req' = [req EXCEPT ![c] = "write"]
               /\ UNCHANGED <<cancelReq, killed>>
  /\ UNCHANGED <<row, task, outcome, tokVars, gpuVars, runVars, target, faults>>

CancelRest == <<memVars, taskVars, worker, tokVars, gpuVars, runVars, target>>

CancelAwait(c) ==
  /\ req[c] = "await"
  /\ \A j \in target[c] : task[j] \in Finished
  /\ req' = [req EXCEPT ![c] = "write"]
  /\ UNCHANGED <<row, faults, CancelRest>>

\* update_job_status(job_id, "cancelled") and the answer, or a database error.
CancelWrite(c) ==
  /\ req[c] = "write"
  /\ \/ /\ row' = [j \in Jobs |-> IF j \in target[c] THEN "cancelled" ELSE row[j]]
        /\ req' = [req EXCEPT ![c] = "acked"]
        /\ UNCHANGED faults
     \/ /\ faults < MaxFaults
        /\ faults' = faults + 1
        /\ req' = [req EXCEPT ![c] = "failed"]
        /\ UNCHANGED row
  /\ UNCHANGED CancelRest

CancelStep(c) == CancelGrace(c) \/ CancelAwait(c) \/ CancelWrite(c)

-----------------------------------------------------------------------------
(* The server dies and comes back: memory, threads and locks are gone, and *)
(* reconcile_stale_jobs fails every row that was in flight.  A worker       *)
(* process is in a session of its own, and nobody knows it any more.       *)

Restart ==
  /\ faults < MaxFaults
  /\ faults' = faults + 1
  /\ row' = [j \in Jobs |-> IF row[j] \in {"pending", "running"} THEN "failed" ELSE row[j]]
  /\ rec'       = [j \in Jobs |-> "none"]
  /\ cancelReq' = [j \in Jobs |-> FALSE]
  /\ task'      = [j \in Jobs |-> "none"]
  /\ killed'    = [j \in Jobs |-> FALSE]
  /\ outcome'   = [j \in Jobs |-> "none"]
  /\ worker'    = [j \in Jobs |-> CASE worker[j] \in {"queued", "launch", "running"} -> "none"
                                    [] worker[j] = "process" -> "orphan"
                                    [] OTHER -> worker[j]]
  /\ event'     = [j \in Jobs |-> "none"]
  /\ sticky'    = {}
  /\ gpu'       = {}
  /\ otherGpu'  = FALSE
  /\ run'       = [j \in Jobs |-> IF run[j] = "none" THEN "none" ELSE "done"]
  /\ final'     = [j \in Jobs |-> "none"]
  /\ req'       = [c \in Cancels |-> IF req[c] \in {"grace", "await", "write"} THEN "lost" ELSE req[c]]
  /\ UNCHANGED target

JobStep(j) == RunStep(j) \/ TaskStep(j) \/ WorkerStep(j)

Next ==
  \/ \E j \in Jobs : CreateJob(j) \/ JobStep(j)
  \/ \E c \in Cancels : CancelStep(c) \/ \E j \in Jobs : CancelRequest(c, j)
  \/ OtherGpuBegin
  \/ OtherGpuEnd
  \/ Restart

\* The event loop runs every ready coroutine, a training call returns, and
\* other GPU tasks finish.  Requests and crashes are never promised.
Fairness ==
  /\ \A j \in Jobs : WF_vars(JobStep(j))
  /\ \A c \in Cancels : WF_vars(CancelStep(c))

Spec     == Init /\ [][Next]_vars
FairSpec == Spec /\ Fairness

-----------------------------------------------------------------------------
(* Properties.                                                             *)

RunPc == {"none", "mark", "start", "wait", "read", "write",
          "exRead", "exWrite", "done", "lost"}
ReqPc == {"idle", "grace", "await", "write", "acked", "refused", "failed", "lost"}

\* Types of all variables.
TypeOK ==
  /\ row \in [Jobs -> Status]
  /\ rec \in [Jobs -> Status]
  /\ cancelReq \in [Jobs -> BOOLEAN]
  /\ task \in [Jobs -> {"none", "scheduled", "hfwait", "training",
                        "persisting", "done", "aborted"}]
  /\ killed \in [Jobs -> BOOLEAN]
  /\ outcome \in [Jobs -> {"none", "ok", "cancel", "fail"}]
  /\ worker \in [Jobs -> {"none", "queued", "running", "launch", "process", "orphan"}
                          \union Returned]
  /\ event \in [Jobs -> {"none", "clear", "set"}]
  /\ sticky \subseteq Jobs
  /\ gpu \subseteq Jobs
  /\ otherGpu \in BOOLEAN
  /\ run \in [Jobs -> RunPc]
  /\ final \in [Jobs -> Status]
  /\ req \in [Cancels -> ReqPc]
  /\ target \in [Cancels -> SUBSET Jobs]
  /\ faults \in 0..MaxFaults

\* The GPU registry holds exactly the job that is inside the guarded section
\* of _execute_training, never two, and never next to another kind's task:
\* every exit of the section, cancelled or failed, takes the entry out.  A process
\* whose output is read is inside: a cancel ends it before the task.
GpuRegistry ==
  /\ gpu = {j \in Jobs : task[j] = "training"}
  /\ {j \in Jobs : worker[j] = "process"} \subseteq gpu
  /\ \A i, j \in gpu : i = j
  /\ otherGpu => gpu = {}

\* Once cancel() has marked a record, the job never becomes a success, wherever
\* the cancel falls between the worker's return and the status write.
CancelWins ==
  [][\A j \in Jobs : cancelReq[j] /\ rec'[j] = "completed"
                     => rec[j] = "completed"]_vars

\* A cancel answered with success is never followed by a completed row, wherever
\* it falls: before the task or the worker's token is there, while the process of
\* the job is given time to end, between the last look at the token and the last
\* write, or before a crash.  (Of jobs whose record has not been evicted: with
\* none, the cancel is written between _run's last read and its last write.)
AckedCancelNotCompleted ==
  \A c \in Cancels : req[c] = "acked" => \A j \in target[c] : row[j] # "completed"

\* A row that says completed belongs to a training call that returned a
\* checkpoint.
CompletedHasCheckpoint == \A j \in Jobs : row[j] = "completed" => worker[j] = "ok"

\* Every created job's row reaches a terminal status for good, after one fault
\* of any statement too: the background coroutine, the cancel requests and the
\* restart leave none pending.  Not when the except block itself or the last
\* write of a cancel request fails: no code is left then.
EventuallySettled ==
  <>[](\A j \in Jobs :
         \/ row[j] \in Terminal \union {"none"}
         \/ run[j] = "lost"
         \/ \E c \in Cancels : req[c] = "failed" /\ j \in target[c])

\* A cancel request that waits for the job's process or task is answered, or lost in a
\* crash; also when the task was cancelled before its first step.
CancelAnswered ==
  \A c \in Cancels :
    (req[c] \in {"grace", "await"}) ~> (req[c] \notin {"grace", "await"})

\* The records of the jobs implement the abstract jobs, whatever else runs, is
\* evicted or crashes.
Abstract == INSTANCE AbstractJobs WITH status <- rec, wanted <- cancelReq
ImplementsJobs == Abstract!JSpec

\* What the sources state and the code does not keep.

\* "Await completion before GPU release in finally (no timeout)": a training
\* call that runs on the GPU thread still has its job in the GPU registry.
WorkerHoldsGpu == \A j \in Jobs : worker[j] = "running" => j \in gpu

=============================================================================
