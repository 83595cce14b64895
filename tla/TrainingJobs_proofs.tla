------------------------ MODULE TrainingJobs_proofs ------------------------
(***************************************************************************)
(* Proofs about TrainingJobs, for any set of jobs, any set of cancel       *)
(* requests, any table size and any number of faults and crashes.          *)
(***************************************************************************)
EXTENDS TrainingJobs, TLAPS

LiveTask == {"scheduled", "hfwait", "training", "persisting"}

\* A task that is about to leave has an outcome, so FinalStatus is defined.
TypeInv ==
  /\ TypeOK
  /\ \A j \in Jobs : task[j] = "persisting" => outcome[j] # "none"

\* How row, record, task and background coroutine of a job move together.
Lifecycle(j) ==
  /\ task[j] \in LiveTask => rec[j] = "running" /\ run[j] = "wait"
  /\ rec[j] = "pending" => task[j] = "none"
  /\ row[j] = "none" => run[j] = "none"
  /\ run[j] = "none" => rec[j] = "none" /\ task[j] = "none"
  /\ run[j] \in {"mark", "start"} => task[j] = "none"
  /\ run[j] \in {"read", "write"} => task[j] = "done" /\ final[j] # "none"
  /\ task[j] = "done" => rec[j] \in Terminal \union {"none"}
  /\ worker[j] \in {"launch", "process"} => task[j] = "training"
  /\ worker[j] = "process" => ~killed[j]

\* Where a checkpoint is claimed, the training call returned one.
Checkpoint(j) ==
  /\ \/ rec[j] = "completed" \/ final[j] = "completed" \/ row[j] = "completed"
     \/ task[j] = "persisting" /\ outcome[j] = "ok"
     => worker[j] = "ok"
  /\ run[j] \in {"none", "mark", "start", "wait"}
     => final[j] = "none" /\ row[j] # "completed"

\* A cancel that gives a process time to end does so for a job that has trained.
Trained == {"training", "persisting", "done"}
Waited ==
  \A c \in Cancels : req[c] = "grace" => \A j \in target[c] : task[j] \in Trained

IInv == TypeInv /\ (\A j \in Jobs : Lifecycle(j) /\ Checkpoint(j)) /\ Waited

-----------------------------------------------------------------------------
(* Type correctness.                                                       *)

\* The initial states are well typed.
LEMMA InitTypeInv == Init => TypeInv
<1> SUFFICES ASSUME Init PROVE TypeInv
  OBVIOUS
<1>1. faults \in 0..MaxFaults
  BY ConstantsAssumption DEF Init
<1>2. row \in [Jobs -> Status] /\ rec \in [Jobs -> Status] /\ final \in [Jobs -> Status]
  BY DEF Init, Status
<1>3. cancelReq \in [Jobs -> BOOLEAN] /\ killed \in [Jobs -> BOOLEAN]
  BY DEF Init
<1>4. run \in [Jobs -> RunPc]
  BY DEF Init, RunPc
<1>5. req \in [Cancels -> ReqPc]
  BY DEF Init, ReqPc
<1> QED
  BY <1>1, <1>2, <1>3, <1>4, <1>5 DEF Init, TypeInv, TypeOK

\* Every step of _run() keeps the types.
LEMMA TypeOfRunStep ==
  ASSUME TypeInv, NEW j \in Jobs, RunStep(j)
  PROVE  TypeInv'
<1> USE ConstantsAssumption
    DEF TypeInv, TypeOK, Status, Terminal, RunPc, ReqPc, Returned, RunRest, taskVars,
        tokVars, gpuVars, runVars, reqVars
<1>1. CASE MarkRunning(j)   BY <1>1 DEF MarkRunning, DbFault
<1>2. CASE StartJob(j)      BY <1>2 DEF StartJob
<1>3. CASE WaitDone(j)      BY <1>3 DEF WaitDone
<1>4. CASE ReadExisting(j)  BY <1>4 DEF ReadExisting, DbFault
<1>5. CASE WriteFinal(j)    BY <1>5 DEF WriteFinal, DbFault
<1>6. CASE ExceptRead(j)    BY <1>6 DEF ExceptRead, DbFault
<1>7. CASE ExceptWrite(j)   BY <1>7 DEF ExceptWrite, DbFault
<1> QED BY <1>1, <1>2, <1>3, <1>4, <1>5, <1>6, <1>7 DEF RunStep

\* The end of the task writes a final status and clears its outcome.
LEMMA TypeOfFinishTask ==
  ASSUME TypeInv, NEW j \in Jobs, NEW how \in {"ok", "cancel", "fail"},
         FinishTask(j, how)
  PROVE  /\ rec' \in [Jobs -> Status] /\ cancelReq' \in [Jobs -> BOOLEAN]
         /\ task' = [task EXCEPT ![j] = "done"]
         /\ killed' \in [Jobs -> BOOLEAN]
         /\ outcome' = [outcome EXCEPT ![j] = "none"]
<1>1. FinalStatus(j, how) \in Status
  BY DEF FinalStatus, Status, Terminal
<1> QED
  BY <1>1 DEF FinishTask, TypeInv, TypeOK

\* Every step of the task and of its worker keeps the types.
LEMMA TypeOfTaskStep ==
  ASSUME TypeInv, NEW j \in Jobs, TaskStep(j)
  PROVE  TypeInv'
<1> USE ConstantsAssumption
    DEF TypeInv, TypeOK, Status, Terminal, RunPc, ReqPc, Returned, TaskRest, memVars, taskVars,
        tokVars, gpuVars, runVars, reqVars
<1>1. ASSUME BeginTraining(j) PROVE TypeInv'
  <2>1. CASE GpuConflict(j) \/ RefuseTraining(j)
    <3>1. FinishTask(j, "fail")
      BY <2>1 DEF GpuConflict, RefuseTraining
    <3> QED
      BY <2>1, <3>1, <1>1, TypeOfFinishTask DEF GpuConflict, RefuseTraining, BeginTraining
  <2>2. CASE SubmitTraining(j)
    BY <2>2, <1>1 DEF SubmitTraining, Register, BeginTraining
  <2> QED
    BY <1>1, <2>1, <2>2 DEF BeginTraining
<1>2. CASE FirstStep(j)       BY <1>1, <1>2 DEF FirstStep
<1>3. CASE AbortUnstarted(j)  BY <1>3 DEF AbortUnstarted
<1>4. CASE AcquireHf(j)       BY <1>1, <1>4 DEF AcquireHf
<1>5. CASE CancelWaiter(j)    BY <1>5, TypeOfFinishTask DEF CancelWaiter
<1>6. CASE ResumeTraining(j)
  <2>1. WorkerOutcome(j) \in {"ok", "cancel", "fail"}
    BY <1>6 DEF ResumeTraining, WorkerOutcome
  <2>2. PICK how \in {"ok", "cancel", "fail"} : LeaveTraining(j, how)
    BY <1>6, <2>1 DEF ResumeTraining
  <2> QED
    BY <1>6, <2>2 DEF ResumeTraining, LeaveTraining, Clear
<1>7. CASE CancelTraining(j)  BY <1>7 DEF CancelTraining, LeaveTraining, Clear
<1>8. CASE DistributedFails(j)  BY <1>8 DEF DistributedFails, LeaveTraining, Clear
<1>9. CASE PersistMetrics(j)
  <2>1. PICK how \in {"ok", "cancel", "fail"} : FinishTask(j, how)
    BY <1>9 DEF PersistMetrics
  <2>2. faults' \in 0..MaxFaults
    BY <1>9 DEF PersistMetrics
  <2>3. UNCHANGED <<row, worker, tokVars, gpuVars, runVars, reqVars>>
    BY <1>9 DEF PersistMetrics
  <2> HIDE <1>9
  <2> QED
    BY <2>1, <2>2, <2>3, TypeOfFinishTask
<1> QED
  BY <1>2, <1>3, <1>4, <1>5, <1>6, <1>7, <1>8, <1>9 DEF TaskStep

\* What the end of a process's grace period does to the job it was asked for.
Graced(c, j) ==
  /\ j \in target[c]
  /\ worker' = [worker EXCEPT ![j] = IF @ \in {"process", "orphan"} THEN "failed" ELSE @]
  /\ \/ task[j] \notin Finished /\ CancelTask(c, j)
     \/ /\ task[j] \in Finished
        /\ rec' = [rec EXCEPT ![j] = IF @ \in Terminal \union {"none"} THEN @ ELSE "cancelled"]
        /\ req' = [req EXCEPT ![c] = "write"]
        /\ UNCHANGED <<cancelReq, killed>>
  /\ UNCHANGED <<row, task, outcome, tokVars, gpuVars, runVars, target, faults>>

\* The end of a grace time, written out for the job that the request names.
LEMMA GraceStep ==
  ASSUME TypeInv, NEW c \in Cancels, CancelGrace(c)
  PROVE  \E j \in Jobs : Graced(c, j)
BY DEF CancelGrace, Graced, TypeInv, TypeOK

\* Every step keeps the types.
LEMMA TypeOfNext == TypeInv /\ [Next]_vars => TypeInv'
<1> SUFFICES ASSUME TypeInv, [Next]_vars PROVE TypeInv'
  OBVIOUS
<1> USE ConstantsAssumption
    DEF TypeInv, TypeOK, Status, Terminal, RunPc, ReqPc, Returned, memVars, taskVars,
        tokVars, gpuVars, runVars, reqVars
<1>2. ASSUME NEW j \in Jobs, CreateJob(j) PROVE TypeInv'
  BY <1>2 DEF CreateJob
<1>3. ASSUME NEW j \in Jobs, WorkerStep(j) PROVE TypeInv'
  BY <1>3 DEF WorkerStep, WorkerStart, ProcessStart, WorkerReturn, WorkerInterrupt, WorkerRest
<1>4. ASSUME NEW c \in Cancels, NEW j \in Jobs, CancelRequest(c, j) PROVE TypeInv'
  <2>1. /\ event' \in [Jobs -> {"none", "clear", "set"}] /\ sticky' \subseteq Jobs
    BY <1>4 DEF CancelRequest, RequestStop
  <2>2. /\ rec' \in [Jobs -> Status] /\ cancelReq' \in [Jobs -> BOOLEAN]
        /\ killed' \in [Jobs -> BOOLEAN]
        /\ req' \in [Cancels -> ReqPc]
    <3>1. CASE CancelTask(c, j)
      BY <3>1 DEF CancelTask
    <3>2. CASE CancelNow(c, j)
      <4>1. rec' \in [Jobs -> Status]
        BY <3>2 DEF CancelNow
      <4>2. cancelReq' \in [Jobs -> BOOLEAN] /\ killed' \in [Jobs -> BOOLEAN]
        BY <3>2 DEF CancelNow
      <4>3. req' \in [Cancels -> ReqPc]
        BY <3>2 DEF CancelNow
      <4> QED
        BY <4>1, <4>2, <4>3
    <3>3. CASE SignalProcess(c, j)
      BY <3>3 DEF SignalProcess
    <3> QED
      BY <1>4, <3>1, <3>2, <3>3 DEF CancelRequest
  <2>3. /\ target' \in [Cancels -> SUBSET Jobs]
        /\ UNCHANGED <<row, task, outcome, worker, gpuVars, runVars, faults>>
    BY <1>4 DEF CancelRequest
  <2> HIDE <1>4
  <2> QED
    BY <2>1, <2>2, <2>3
<1>5. ASSUME NEW c \in Cancels, CancelStep(c) PROVE TypeInv'
  <2>1. CASE CancelAwait(c) \/ CancelWrite(c)
    BY <2>1 DEF CancelAwait, CancelWrite, CancelRest
  <2>2. CASE CancelGrace(c)
    <3>1. PICK j \in Jobs : Graced(c, j)
      BY <2>2, GraceStep
    <3>2. worker' \in [Jobs -> {"none", "queued", "running", "launch", "process", "orphan"}
                                \union Returned]
      BY <3>1 DEF Graced
    <3>3. cancelReq' \in [Jobs -> BOOLEAN] /\ killed' \in [Jobs -> BOOLEAN]
      <4>1. CASE CancelTask(c, j)
        BY <4>1 DEF CancelTask
      <4>2. CASE cancelReq' = cancelReq /\ killed' = killed
        BY <4>2
      <4> QED
        BY <3>1, <4>1, <4>2 DEF Graced
    <3>4. rec' \in [Jobs -> Status] /\ req' \in [Cancels -> ReqPc]
      BY <3>1 DEF Graced, CancelTask
    <3>5. UNCHANGED <<row, task, outcome, tokVars, gpuVars, runVars, target, faults>>
      BY <3>1 DEF Graced
    <3> HIDE <2>2
    <3> QED
      BY <3>2, <3>3, <3>4, <3>5
  <2> QED
    BY <1>5, <2>1, <2>2 DEF CancelStep
<1>6. CASE OtherGpuBegin \/ OtherGpuEnd
  <2>1. otherGpu' \in BOOLEAN /\ UNCHANGED OtherRest
    BY <1>6 DEF OtherGpuBegin, OtherGpuEnd
  <2> QED
    BY <2>1 DEF OtherRest
<1>7. CASE Restart
  <2>1. row' \in [Jobs -> Status] /\ rec' \in [Jobs -> Status] /\ final' \in [Jobs -> Status]
    BY <1>7 DEF Restart
  <2>2. cancelReq' \in [Jobs -> BOOLEAN] /\ killed' \in [Jobs -> BOOLEAN]
    BY <1>7 DEF Restart
  <2>3. /\ worker' \in [Jobs -> {"none", "queued", "running", "launch", "process", "orphan"}
                                   \union Returned]
        /\ run' \in [Jobs -> RunPc]
    BY <1>7 DEF Restart
  <2>4. req' \in [Cancels -> ReqPc]
    BY <1>7 DEF Restart
  <2>5. faults' \in 0..MaxFaults /\ UNCHANGED target
    BY <1>7 DEF Restart
  <2>6. /\ task' = [j \in Jobs |-> "none"] /\ outcome' = [j \in Jobs |-> "none"]
        /\ event' = [j \in Jobs |-> "none"] /\ sticky' = {} /\ gpu' = {} /\ otherGpu' = FALSE
    BY <1>7 DEF Restart
  <2> HIDE <1>7
  <2> QED
    BY <2>1, <2>2, <2>3, <2>4, <2>5, <2>6
<1>8. CASE UNCHANGED vars
  BY <1>8 DEF vars
<1> QED
  BY <1>2, <1>3, <1>4, <1>5, <1>6, <1>7, <1>8, TypeOfRunStep, TypeOfTaskStep
     DEF Next, JobStep

\* Every variable keeps its type, whatever the number of jobs and requests.
THEOREM TypeCorrect == Spec => []TypeOK
<1>1. TypeInv => TypeOK
  BY DEF TypeInv
<1> QED
  BY <1>1, InitTypeInv, TypeOfNext, PTL DEF Spec

-----------------------------------------------------------------------------
(* Record, task and background coroutine.                                  *)

\* The initial states satisfy the invariant.
LEMMA InitIInv == Init => IInv
<1> SUFFICES ASSUME Init, NEW j \in Jobs PROVE Lifecycle(j) /\ Checkpoint(j)
  BY InitTypeInv DEF IInv, Waited, Init
<1> QED
  BY DEF Init, Lifecycle, Checkpoint, LiveTask

\* Every step of _run() keeps the stages of all jobs together.
LEMMA JobOfRunStep ==
  ASSUME IInv, NEW j \in Jobs, RunStep(j), NEW k \in Jobs
  PROVE  Lifecycle(k)' /\ Checkpoint(k)'
<1> USE DEF IInv, TypeInv, TypeOK, Lifecycle, Checkpoint, LiveTask, RunRest, taskVars
<1>1. CASE MarkRunning(j)   BY <1>1 DEF MarkRunning, DbFault
<1>2. CASE StartJob(j)      BY <1>2 DEF StartJob, MayStart
<1>3. CASE WaitDone(j)      BY <1>3 DEF WaitDone, Finished
<1>4. CASE ReadExisting(j)
  <2>1. CASE run[j] = "read" /\ UNCHANGED <<row, faults, RunRest>>
    BY <1>4, <2>1 DEF ReadExisting, DbFault, Terminal
  <2>2. CASE DbFault(j, "read")
    BY <2>2 DEF DbFault
  <2> QED
    BY <1>4, <2>1, <2>2 DEF ReadExisting
<1>5. CASE WriteFinal(j)    BY <1>5 DEF WriteFinal, DbFault
<1>6. CASE ExceptRead(j)    BY <1>6 DEF ExceptRead, DbFault
<1>7. CASE ExceptWrite(j)   BY <1>7 DEF ExceptWrite, DbFault
<1> QED BY <1>1, <1>2, <1>3, <1>4, <1>5, <1>6, <1>7 DEF RunStep

\* A task finishes in one step and its record is completed only after a
\* training call that returned.
LEMMA JobOfFinishTask ==
  ASSUME IInv, NEW j \in Jobs, NEW how \in {"ok", "cancel", "fail"}, FinishTask(j, how),
         task[j] \in LiveTask \ {"training"}, how = "ok" => worker[j] = "ok",
         UNCHANGED <<row, worker, runVars>>, NEW k \in Jobs
  PROVE  Lifecycle(k)' /\ Checkpoint(k)'
<1>1. FinalStatus(j, how) \in Terminal /\ (FinalStatus(j, how) = "completed" => how = "ok")
  BY DEF FinalStatus, Terminal
<1> QED
  BY <1>1 DEF FinishTask, IInv, TypeInv, TypeOK, Lifecycle, Checkpoint, LiveTask, Terminal,
              runVars

\* So does every step of a task and its worker.
LEMMA JobOfTaskStep ==
  ASSUME IInv, NEW j \in Jobs, TaskStep(j), NEW k \in Jobs
  PROVE  Lifecycle(k)' /\ Checkpoint(k)'
<1> USE DEF IInv, TypeInv, TypeOK, Lifecycle, Checkpoint, LiveTask, TaskRest, memVars,
            taskVars, runVars
<1>1. ASSUME BeginTraining(j), task[j] \in {"scheduled", "hfwait"}
      PROVE  Lifecycle(k)' /\ Checkpoint(k)'
  <2>1. CASE GpuConflict(j) \/ RefuseTraining(j)
    <3>1. FinishTask(j, "fail") /\ UNCHANGED <<row, worker, runVars>>
      BY <1>1, <2>1 DEF GpuConflict, RefuseTraining, BeginTraining
    <3> QED
      BY <3>1, <1>1, JobOfFinishTask
  <2>2. CASE SubmitTraining(j)
    BY <1>1, <2>2 DEF SubmitTraining, BeginTraining
  <2> QED
    BY <1>1, <2>1, <2>2 DEF BeginTraining
<1>2. CASE FirstStep(j)       BY <1>1, <1>2 DEF FirstStep
<1>3. CASE AbortUnstarted(j)  BY <1>3 DEF AbortUnstarted
<1>4. CASE AcquireHf(j)       BY <1>1, <1>4 DEF AcquireHf
<1>5. CASE CancelWaiter(j)
  <2>1. FinishTask(j, "cancel") /\ task[j] = "hfwait" /\ UNCHANGED <<row, worker, runVars>>
    BY <1>5 DEF CancelWaiter
  <2> QED
    BY <2>1, JobOfFinishTask
<1>6. CASE ResumeTraining(j)
  <2>1. WorkerOutcome(j) \in {"ok", "cancel", "fail"} /\ (WorkerOutcome(j) = "ok" => worker[j] = "ok")
    BY <1>6 DEF ResumeTraining, WorkerOutcome, Returned
  <2>2. PICK how \in {"ok", "cancel", "fail"} :
          LeaveTraining(j, how) /\ (how = "ok" => worker[j] = "ok")
    BY <1>6, <2>1 DEF ResumeTraining
  <2> QED
    BY <1>6, <2>2 DEF ResumeTraining, LeaveTraining, Returned
<1>7. CASE CancelTraining(j)  BY <1>7 DEF CancelTraining, LeaveTraining
<1>8. CASE DistributedFails(j)  BY <1>8 DEF DistributedFails, LeaveTraining
<1>9. CASE PersistMetrics(j)
  <2>1. PICK how \in {"ok", "cancel", "fail"} :
          FinishTask(j, how) /\ (how = "ok" => outcome[j] = "ok")
    BY <1>9 DEF PersistMetrics
  <2>2. task[j] = "persisting" /\ UNCHANGED <<row, worker, runVars>>
    BY <1>9 DEF PersistMetrics
  <2> QED
    BY <2>1, <2>2, JobOfFinishTask
<1> QED
  BY <1>2, <1>3, <1>4, <1>5, <1>6, <1>7, <1>8, <1>9 DEF TaskStep

\* A task that has trained stays so, until a restart.
LEMMA TrainedStays ==
  ASSUME IInv, [Next]_vars, ~Restart, NEW k \in Jobs, task[k] \in Trained
  PROVE  task'[k] \in Trained
<1> USE DEF IInv, TypeInv, TypeOK, Lifecycle, LiveTask, Trained
<1>1. ASSUME UNCHANGED task PROVE task'[k] \in Trained
  BY <1>1
<1>2. ASSUME NEW j \in Jobs, CreateJob(j) \/ WorkerStep(j) PROVE UNCHANGED task
  BY <1>2 DEF CreateJob, WorkerStep, WorkerStart, ProcessStart, WorkerReturn,
              WorkerInterrupt, WorkerRest, taskVars
<1>3. ASSUME NEW j \in Jobs, RunStep(j) PROVE task'[k] \in Trained
  BY <1>3 DEF RunStep, MarkRunning, DbFault, StartJob, MayStart, WaitDone, ReadExisting,
              WriteFinal, ExceptRead, ExceptWrite, RunRest, taskVars
<1>4. ASSUME NEW j \in Jobs, TaskStep(j) PROVE task'[k] \in Trained
  <2>1. CASE k = j
    BY <1>4, <2>1
       DEF TaskStep, FirstStep, BeginTraining, GpuConflict, RefuseTraining, SubmitTraining,
           AbortUnstarted, AcquireHf, CancelWaiter, ResumeTraining, DistributedFails,
           CancelTraining, PersistMetrics, FinishTask, LeaveTraining
  <2>2. CASE k # j
    BY <1>4, <2>2
       DEF TaskStep, FirstStep, BeginTraining, GpuConflict, RefuseTraining, SubmitTraining,
           AbortUnstarted, AcquireHf, CancelWaiter, ResumeTraining, DistributedFails,
           CancelTraining, PersistMetrics, FinishTask, LeaveTraining
  <2> QED
    BY <2>1, <2>2
<1>5. ASSUME NEW c \in Cancels, CancelStep(c) \/ \E j \in Jobs : CancelRequest(c, j)
      PROVE  UNCHANGED task
  BY <1>5 DEF CancelStep, CancelGrace, CancelAwait, CancelWrite, CancelRest, CancelRequest,
              taskVars
<1>6. ASSUME OtherGpuBegin \/ OtherGpuEnd \/ UNCHANGED vars PROVE UNCHANGED task
  BY <1>6 DEF OtherGpuBegin, OtherGpuEnd, OtherRest, vars, taskVars
<1> QED
  BY <1>1, <1>2, <1>3, <1>4, <1>5, <1>6 DEF Next, JobStep

\* A grace time is begun only for a job that has trained.
LEMMA WaitedOfNext == IInv /\ [Next]_vars => Waited'
<1> SUFFICES ASSUME IInv, [Next]_vars, NEW c \in Cancels, req'[c] = "grace",
                    NEW k \in target'[c]
             PROVE  task'[k] \in Trained
  BY DEF Waited
<1> USE DEF IInv, TypeInv, TypeOK
<1>1. ~Restart
  BY DEF Restart
<1>2. ASSUME UNCHANGED <<req[c], target[c]>> PROVE task'[k] \in Trained
  <2>1. k \in Jobs /\ task[k] \in Trained
    BY <1>2 DEF Waited
  <2> QED
    BY <1>1, <2>1, TrainedStays
<1>3. ASSUME NEW j \in Jobs, CreateJob(j) \/ JobStep(j) PROVE UNCHANGED <<req, target>>
  BY <1>3 DEF JobStep, CreateJob, TaskStep, FirstStep, BeginTraining, AbortUnstarted,
     AcquireHf, CancelWaiter, ResumeTraining, DistributedFails, CancelTraining, PersistMetrics,
     TaskRest, WorkerStep, WorkerStart, ProcessStart, WorkerReturn, WorkerInterrupt,
     WorkerRest, RunStep, MarkRunning, StartJob, WaitDone, ReadExisting, WriteFinal,
     ExceptRead, ExceptWrite, DbFault, RunRest, reqVars
<1>4. ASSUME NEW d \in Cancels, CancelStep(d) PROVE UNCHANGED <<req[c], target[c]>>
  <2>1. CASE CancelAwait(d) \/ CancelWrite(d)
    BY <2>1 DEF CancelAwait, CancelWrite, CancelRest
  <2>2. CASE CancelGrace(d)
    <3>1. PICK j \in Jobs : Graced(d, j)
      BY <2>2, GraceStep
    <3> QED
      BY <3>1 DEF Graced, CancelTask
  <2> QED
    BY <1>4, <2>1, <2>2 DEF CancelStep
<1>5. ASSUME NEW d \in Cancels, NEW j \in Jobs, CancelRequest(d, j)
      PROVE  task'[k] \in Trained
  <2>1. CASE d # c
    BY <1>2, <1>5, <2>1 DEF CancelRequest, CancelNow, CancelTask, SignalProcess
  <2>2. CASE d = c
    <3>1. k = j /\ task'[j] = task[j]
      BY <1>5, <2>2 DEF CancelRequest
    <3>2. worker[j] = "process"
      BY <1>5, <2>2 DEF CancelRequest, CancelNow, CancelTask
    <3> QED
      BY <3>1, <3>2 DEF Lifecycle, Trained
  <2> QED
    BY <2>1, <2>2
<1>6. ASSUME OtherGpuBegin \/ OtherGpuEnd \/ UNCHANGED vars PROVE UNCHANGED <<req, target>>
  BY <1>6 DEF OtherGpuBegin, OtherGpuEnd, OtherRest, vars, reqVars
<1> QED
  BY <1>1, <1>2, <1>3, <1>4, <1>5, <1>6 DEF Next

\* Every step keeps the invariant.
LEMMA JobOfNext == IInv /\ [Next]_vars => IInv'
<1> SUFFICES ASSUME IInv, [Next]_vars, NEW k \in Jobs
             PROVE  Lifecycle(k)' /\ Checkpoint(k)'
  BY TypeOfNext, WaitedOfNext DEF IInv
<1> USE DEF IInv, TypeInv, TypeOK, Lifecycle, Checkpoint, LiveTask, taskVars, runVars
<1>2. ASSUME NEW j \in Jobs, CreateJob(j) PROVE Lifecycle(k)' /\ Checkpoint(k)'
  <2>1. PICK gone \in SUBSET Evictable :
          rec' = [i \in Jobs |-> IF i = j THEN "pending" ELSE IF i \in gone THEN "none" ELSE rec[i]]
    BY <1>2 DEF CreateJob
  <2>2. /\ row[j] = "none"
        /\ row' = [row EXCEPT ![j] = "pending"] /\ run' = [run EXCEPT ![j] = "mark"]
    BY <1>2 DEF CreateJob
  <2>3. UNCHANGED <<taskVars, worker, final>>
    BY <1>2 DEF CreateJob
  <2>4. \A i \in gone : rec[i] \in Terminal
    BY DEF Evictable
  <2> QED
    BY <2>1, <2>2, <2>3, <2>4 DEF Terminal
<1>3. ASSUME NEW j \in Jobs, WorkerStep(j) PROVE Lifecycle(k)' /\ Checkpoint(k)'
  BY <1>3 DEF WorkerStep, WorkerStart, ProcessStart, WorkerReturn, WorkerInterrupt, WorkerRest,
              memVars
<1>4. ASSUME NEW c \in Cancels, NEW j \in Jobs, CancelRequest(c, j)
      PROVE  Lifecycle(k)' /\ Checkpoint(k)'
  <2>1. UNCHANGED <<row, task, outcome, worker, runVars>> /\ row[j] # "none"
    BY <1>4 DEF CancelRequest
  <2>2. CASE TaskAlive(j)
    <3>1. rec' = rec
      BY <1>4, <2>2 DEF CancelRequest, CancelTask, SignalProcess
    <3>2. killed' = killed \/ (killed' = [killed EXCEPT ![j] = TRUE] /\ worker[j] # "process")
      BY <1>4, <2>2 DEF CancelRequest, CancelTask, SignalProcess
    <3> QED
      BY <2>1, <3>1, <3>2
  <2>3. CASE ~TaskAlive(j)
    <3>1. task[j] \notin LiveTask /\ CancelNow(c, j)
      BY <1>4, <2>3 DEF CancelRequest, TaskAlive, Finished
    <3>2. /\ rec' = [rec EXCEPT ![j] = IF rec[j] \in {"pending", "running"} THEN "cancelled" ELSE @]
          /\ killed' = killed
      BY <3>1 DEF CancelNow
    <3>3. CASE k = j
      BY <2>1, <3>1, <3>2, <3>3 DEF Terminal
    <3>4. CASE k # j
      BY <2>1, <3>2, <3>4
    <3> QED
      BY <3>3, <3>4
  <2> QED
    BY <2>2, <2>3
<1>5. ASSUME NEW c \in Cancels, CancelStep(c) PROVE Lifecycle(k)' /\ Checkpoint(k)'
  <2>1. CASE CancelAwait(c) \/ CancelWrite(c)
    <3>1. row'[k] \in {row[k], "cancelled"} /\ UNCHANGED CancelRest
      BY <2>1 DEF CancelAwait, CancelWrite
    <3> QED
      BY <3>1 DEF CancelRest, memVars
  <2>2. CASE CancelGrace(c)
    <3>1. PICK j \in Jobs : Graced(c, j)
      BY <2>2, GraceStep
    <3>2. worker'[k] # "process" \/ k # j
      BY <3>1 DEF Graced
    <3>3. task[j] \in Trained
      BY <2>2, <3>1 DEF Waited, Graced, CancelGrace
    <3>4. rec' = rec
      BY <3>1, <3>3 DEF Graced, CancelTask, Finished, Trained
    <3> QED
      BY <3>1, <3>2, <3>4 DEF Graced, CancelTask, Returned
  <2> QED
    BY <1>5, <2>1, <2>2 DEF CancelStep
<1>6. CASE OtherGpuBegin \/ OtherGpuEnd
  <2>1. UNCHANGED OtherRest
    BY <1>6 DEF OtherGpuBegin, OtherGpuEnd
  <2> QED
    BY <2>1 DEF OtherRest, memVars
<1>7. CASE Restart
  BY <1>7 DEF Restart
<1>8. CASE UNCHANGED vars
  BY <1>8 DEF vars, memVars
<1> QED
  BY <1>2, <1>3, <1>4, <1>5, <1>6, <1>7, <1>8, JobOfRunStep, JobOfTaskStep
     DEF Next, JobStep

\* The invariant holds in every reachable state.
LEMMA Inductive == Spec => []IInv
  BY InitIInv, JobOfNext, PTL DEF Spec

-----------------------------------------------------------------------------
(* The GPU registry.  A job enters the guarded section while it holds      *)
(* _HF_TOKEN_LOCK and prepare_for_gpu_task found neither a registered task *)
(* nor a running record; a started job is not in the section.              *)

\* The entries of the registry; that a process has one follows with Lifecycle.
GpuEntry ==
  /\ gpu = {j \in Jobs : task[j] = "training"}
  /\ \A i, j \in gpu : i = j
  /\ otherGpu => gpu = {}

\* A task enters the registry when it begins to train, and leaves it as it ends.
LEMMA GpuOfTaskStep ==
  ASSUME IInv, GpuEntry, NEW j \in Jobs, TaskStep(j)
  PROVE  GpuEntry'
<1> USE DEF GpuEntry, IInv, TypeInv, TypeOK, TaskRest, gpuVars, taskVars
<1>1. ASSUME HfFree, BeginTraining(j) PROVE GpuEntry'
  <2>1. CASE GpuConflict(j) \/ RefuseTraining(j)
    BY <1>1, <2>1 DEF GpuConflict, RefuseTraining, FinishTask, BeginTraining, HfFree
  <2>2. CASE SubmitTraining(j)
    BY <1>1, <2>2 DEF SubmitTraining, GpuBusy, BeginTraining, HfFree
  <2> QED
    BY <1>1, <2>1, <2>2 DEF BeginTraining
<1>2. CASE FirstStep(j)       BY <1>1, <1>2 DEF FirstStep
<1>3. CASE AbortUnstarted(j)  BY <1>3 DEF AbortUnstarted
<1>4. CASE AcquireHf(j)       BY <1>1, <1>4 DEF AcquireHf
<1>5. CASE CancelWaiter(j)    BY <1>5 DEF CancelWaiter, FinishTask
<1>6. CASE ResumeTraining(j)  BY <1>6 DEF ResumeTraining, LeaveTraining
<1>8. CASE DistributedFails(j)
  <2>1. task[j] = "training"
    BY <1>8 DEF DistributedFails, Lifecycle
  <2> QED
    BY <1>8, <2>1 DEF DistributedFails, LeaveTraining
<1>7. CASE CancelTraining(j)  BY <1>7 DEF CancelTraining, LeaveTraining
<1>9. CASE PersistMetrics(j)  BY <1>9 DEF PersistMetrics, FinishTask
<1> QED
  BY <1>2, <1>3, <1>4, <1>5, <1>6, <1>7, <1>8, <1>9 DEF TaskStep

\* Every step keeps the registry to the job that trains.
LEMMA GpuOfNext == IInv /\ GpuEntry /\ [Next]_vars => GpuEntry'
<1> SUFFICES ASSUME IInv, GpuEntry, [Next]_vars PROVE GpuEntry'
  OBVIOUS
<1>1. ASSUME UNCHANGED <<gpuVars, task>> PROVE GpuEntry'
  BY <1>1 DEF GpuEntry, gpuVars
<1>2. ASSUME NEW j \in Jobs, CreateJob(j) \/ WorkerStep(j)
      PROVE  UNCHANGED <<gpuVars, task>>
  BY <1>2 DEF CreateJob, WorkerStep, WorkerStart, ProcessStart, WorkerReturn,
              WorkerInterrupt, WorkerRest, taskVars
<1>3. ASSUME NEW j \in Jobs, RunStep(j) PROVE GpuEntry'
  <2>1. CASE StartJob(j)
    BY <2>1 DEF StartJob, MayStart, GpuEntry, gpuVars, IInv, TypeInv, TypeOK, Lifecycle
  <2>2. CASE ~StartJob(j)
    BY <1>1, <1>3, <2>2
       DEF RunStep, MarkRunning, DbFault, WaitDone, ReadExisting, WriteFinal,
           ExceptRead, ExceptWrite, RunRest, taskVars
  <2> QED
    BY <2>1, <2>2
<1>4. ASSUME NEW c \in Cancels, CancelStep(c) \/ \E j \in Jobs : CancelRequest(c, j)
      PROVE  UNCHANGED <<gpuVars, task>>
  BY <1>4 DEF CancelStep, CancelGrace, CancelAwait, CancelWrite, CancelRest, CancelRequest, taskVars
<1>5. CASE OtherGpuBegin
  BY <1>5 DEF OtherGpuBegin, OtherRest, GpuEntry, taskVars
<1>6. CASE OtherGpuEnd
  BY <1>6 DEF OtherGpuEnd, OtherRest, GpuEntry, taskVars
<1>7. CASE Restart
  BY <1>7 DEF Restart, GpuEntry
<1>8. CASE UNCHANGED vars
  BY <1>1, <1>8 DEF vars, taskVars
<1> QED
  BY <1>1, <1>2, <1>3, <1>4, <1>5, <1>6, <1>7, <1>8, GpuOfTaskStep DEF Next, JobStep

\* The GPU registry names exactly the job inside the guarded section of
\* _execute_training, at most one, and none next to another kind's task.
THEOREM GpuExclusive == Spec => []GpuRegistry
<1>1. Init => GpuEntry
  BY DEF Init, GpuEntry
<1>2. IInv /\ GpuEntry => GpuRegistry
  BY DEF IInv, Lifecycle, GpuEntry, GpuRegistry
<1> QED
  BY <1>1, <1>2, Inductive, GpuOfNext, PTL DEF Spec

-----------------------------------------------------------------------------
(* Checkpoints and cancels.                                                *)

\* A row says completed only after a training call that returned.
THEOREM CheckpointBacked == Spec => []CompletedHasCheckpoint
<1>1. IInv => CompletedHasCheckpoint
  BY DEF IInv, Checkpoint, CompletedHasCheckpoint
<1> QED
  BY <1>1, Inductive, PTL


\* A step of the program is, for the record of each job, a step of the abstract
\* job or none.
LEMMA RecordStep ==
  ASSUME IInv, [Next]_vars, NEW k \in Jobs
  PROVE  Abstract!JobStep(k) \/ Abstract!Becomes(k, rec[k])
<1> DEFINE Goal == Abstract!JobStep(k) \/ Abstract!Becomes(k, rec[k])
<1> USE DEF IInv, TypeInv, TypeOK, Lifecycle, LiveTask, Abstract!JobStep,
        Abstract!Becomes, Abstract!Over
<1>1. ASSUME UNCHANGED <<rec, cancelReq>> PROVE Goal
  BY <1>1
<1>2. ASSUME NEW j \in Jobs, NEW how \in {"ok", "cancel", "fail"}, FinishTask(j, how),
             task[j] \in LiveTask
      PROVE  Goal
  <2>1. rec[j] = "running"
    BY <1>2
  <2>2. CASE how = "ok"
    BY <1>2, <2>1, <2>2 DEF FinishTask, FinalStatus, Abstract!Succeed, Abstract!Stop
  <2>3. CASE how = "cancel"
    BY <1>2, <2>1, <2>3 DEF FinishTask, FinalStatus, Abstract!Stop
  <2>4. CASE how = "fail"
    BY <1>2, <2>1, <2>4 DEF FinishTask, FinalStatus, Abstract!Fail
  <2> QED
    BY <2>2, <2>3, <2>4
<1>3. ASSUME NEW j \in Jobs, WorkerStep(j) PROVE Goal
  BY <1>1, <1>3 DEF WorkerStep, WorkerStart, ProcessStart, WorkerReturn, WorkerInterrupt,
                    WorkerRest, memVars
<1>4. ASSUME NEW j \in Jobs, CreateJob(j) PROVE Goal
  <2>1. PICK gone \in SUBSET Evictable :
          rec' = [i \in Jobs |-> IF i = j THEN "pending" ELSE IF i \in gone THEN "none" ELSE rec[i]]
    BY <1>4 DEF CreateJob
  <2>2. rec[j] = "none" /\ cancelReq' = [cancelReq EXCEPT ![j] = FALSE]
    BY <1>4 DEF CreateJob
  <2>3. CASE k = j
    BY <2>1, <2>2, <2>3 DEF Abstract!Submit
  <2>4. CASE k # j /\ k \in gone
    BY <2>1, <2>2, <2>4 DEF Evictable, Terminal, Abstract!Forget
  <2>5. CASE k # j /\ k \notin gone
    BY <2>1, <2>2, <2>5
  <2> QED
    BY <2>3, <2>4, <2>5
<1>5. ASSUME NEW j \in Jobs, RunStep(j) PROVE Goal
  <2>1. UNCHANGED cancelReq
    BY <1>5 DEF RunStep, MarkRunning, DbFault, StartJob, WaitDone, ReadExisting,
                WriteFinal, ExceptRead, ExceptWrite, RunRest
  <2>2. CASE MarkRunning(j) \/ WaitDone(j) \/ WriteFinal(j) \/ ExceptWrite(j)
    BY <2>1, <2>2 DEF MarkRunning, DbFault, WaitDone, WriteFinal, ExceptWrite
  <2>3. CASE StartJob(j)
    BY <2>1, <2>3 DEF StartJob, MayStart, Abstract!Start
  <2>4. CASE ReadExisting(j)
    <3>1. run[j] = "read" => rec[j] \in Abstract!Over \union {"none"}
      BY DEF Terminal
    <3> QED
      BY <2>1, <2>4, <3>1 DEF ReadExisting, DbFault, Abstract!Correct
  <2>5. CASE ExceptRead(j)
    BY <2>1, <2>5 DEF ExceptRead, DbFault, Abstract!Fail
  <2> QED
    BY <1>5, <2>2, <2>3, <2>4, <2>5 DEF RunStep
<1>6. ASSUME NEW j \in Jobs, TaskStep(j) PROVE Goal
  <2>1. \/ UNCHANGED <<rec, cancelReq>>
        \/ \E how \in {"ok", "cancel", "fail"} : FinishTask(j, how) /\ task[j] \in LiveTask
    BY <1>6 DEF TaskStep, FirstStep, AbortUnstarted, AcquireHf, CancelWaiter, ResumeTraining,
                DistributedFails, CancelTraining, PersistMetrics, BeginTraining, GpuConflict,
                RefuseTraining, SubmitTraining, memVars
  <2> QED
    BY <2>1, <1>1, <1>2
<1>7. ASSUME NEW c \in Cancels, NEW j \in Jobs, CancelRequest(c, j) PROVE Goal
  <2>1. CASE (CancelTask(c, j) \/ SignalProcess(c, j)) /\ TaskAlive(j)
    BY <2>1 DEF CancelTask, SignalProcess, TaskAlive, Abstract!Ask
  <2>2. CASE CancelNow(c, j)
    <3>1. CASE k # j
      BY <2>2, <3>1 DEF CancelNow
    <3>2. CASE k = j /\ rec[j] = "none"
      <4>1. rec' = rec /\ cancelReq'[j] = cancelReq[j]
        BY <2>2, <3>2 DEF CancelNow
      <4> QED
        BY <3>2, <4>1
    <3>3. CASE k = j /\ rec[j] \in {"pending", "running"}
      <4>1. rec'[j] = "cancelled" /\ cancelReq'[j]
        BY <2>2, <3>3 DEF CancelNow
      <4> QED
        BY <3>3, <4>1 DEF Abstract!Stop
    <3>4. CASE k = j /\ rec[j] \in Abstract!Over
      <4>1. rec'[j] = rec[j] /\ cancelReq'[j]
        BY <2>2, <3>4 DEF CancelNow
      <4> QED
        BY <3>4, <4>1 DEF Abstract!Ask
    <3> QED
      BY <3>1, <3>2, <3>3, <3>4 DEF Status, Terminal
  <2> QED
    BY <1>7, <2>1, <2>2 DEF CancelRequest
<1>8. ASSUME NEW c \in Cancels, CancelStep(c) PROVE Goal
  <2>1. CASE CancelAwait(c) \/ CancelWrite(c)
    BY <1>1, <2>1 DEF CancelAwait, CancelWrite, CancelRest, memVars
  <2>2. CASE CancelGrace(c)
    <3>1. PICK j \in Jobs : Graced(c, j)
      BY <2>2, GraceStep
    <3>2. task[j] \in Trained
      BY <2>2, <3>1 DEF Waited, Graced, CancelGrace
    <3>3. CASE task[j] \in Finished
      <4>1. rec[j] \in Terminal \union {"none"}
        BY <3>2, <3>3 DEF Trained, Finished
      <4>2. rec' = rec /\ cancelReq' = cancelReq
        BY <3>1, <3>3, <4>1 DEF Graced
      <4> QED
        BY <1>1, <4>2
    <3>4. CASE task[j] \notin Finished
      <4>1. rec[j] = "running" /\ rec' = rec /\ cancelReq' = [cancelReq EXCEPT ![j] = TRUE]
        BY <3>1, <3>2, <3>4 DEF Graced, CancelTask, Trained, Finished
      <4> QED
        BY <4>1 DEF Abstract!Ask
    <3> QED
      BY <3>3, <3>4
  <2> QED
    BY <1>8, <2>1, <2>2 DEF CancelStep
<1>9. CASE OtherGpuBegin \/ OtherGpuEnd
  BY <1>1, <1>9 DEF OtherGpuBegin, OtherGpuEnd, OtherRest, memVars
<1>10. CASE Restart
  BY <1>10 DEF Restart, Abstract!Crash
<1>11. CASE UNCHANGED vars
  BY <1>1, <1>11 DEF vars, memVars
<1> QED
  BY <1>3, <1>4, <1>5, <1>6, <1>7, <1>8, <1>9, <1>10, <1>11 DEF Next, JobStep

\* The records of the jobs implement the abstract jobs.
THEOREM Refines == Spec => ImplementsJobs
<1>1. Init => Abstract!JInit
  BY DEF Init, Abstract!JInit
<1>2. IInv /\ [Next]_vars => [Abstract!JNext]_<<rec, cancelReq>>
  BY RecordStep DEF Abstract!JNext
<1> QED
  BY <1>1, <1>2, Inductive, PTL DEF Spec, ImplementsJobs, Abstract!JSpec

\* A cancel that marked the record is never overwritten by a success.
THEOREM CancelAlwaysWins == Spec => CancelWins
<1>1. ASSUME IInv, [Next]_vars, NEW j \in Jobs, cancelReq[j], rec'[j] = "completed"
      PROVE  rec[j] = "completed"
  BY <1>1, RecordStep
     DEF Abstract!JobStep, Abstract!Becomes, Abstract!Submit, Abstract!Start, Abstract!Succeed,
         Abstract!Fail, Abstract!Ask, Abstract!Stop, Abstract!Correct, Abstract!Forget,
         Abstract!Crash
<1>2. IInv /\ [Next]_vars
      => [\A j \in Jobs : cancelReq[j] /\ rec'[j] = "completed" => rec[j] = "completed"]_vars
  BY <1>1
<1> QED
  BY <1>2, Inductive, PTL DEF Spec, CancelWins
=============================================================================
