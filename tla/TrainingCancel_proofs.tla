----------------------- MODULE TrainingCancel_proofs -----------------------
(***************************************************************************)
(* Proofs about cancel requests, for any set of jobs and requests and any  *)
(* number of faults and crashes.  A cancel which was answered with success *)
(* wins: the record, the end of the task and the row say so one after the  *)
(* other, and Stopped follows the cancel through them.  No cancel and no   *)
(* row is forgotten on the way.  An eviction would take the record that a  *)
(* cancel marks, so the table has room for every job where a row is meant. *)
(***************************************************************************)
EXTENDS TrainingJobs_proofs, FiniteSetTheorems

Room == Cardinality(Jobs) <= MaxJobs

\* A job of this server has its record until the end of _run(), which writes the
\* record's status.
Kept(j) ==
  /\ run[j] \in {"mark", "start", "wait", "read", "write", "exRead", "exWrite"} =>
       rec[j] # "none"
  /\ run[j] \in {"read", "write"} => final[j] = rec[j]

\* The job can no longer complete: its record is gone in a restart, or over, or
\* marked by the cancel.
Stopped(j) ==
  \/ rec[j] \in {"none", "failed", "cancelled"}
  \/ rec[j] \in {"pending", "running"} /\ cancelReq[j]

Answered ==
  \A c \in Cancels : \A j \in target[c] :
    /\ row[j] # "none"
    /\ req[c] \in {"grace", "await", "write", "acked"} => Stopped(j)

AckInv == IInv /\ (\A j \in Jobs : Kept(j)) /\ Answered /\ AckedCancelNotCompleted

\* A table with room for all jobs forgets none.
LEMMA NothingEvicted ==
  ASSUME Room, IInv, NEW j \in Jobs, CreateJob(j)
  PROVE  rec' = [rec EXCEPT ![j] = "pending"]
<1> DEFINE Others == {k \in Jobs : rec[k] # "none"}
<1>1. rec[j] = "none"
  BY DEF CreateJob, IInv, Lifecycle
<1>2. Others \subseteq Jobs \ {j}
  BY <1>1
<1>3. IsFiniteSet(Jobs \ {j}) /\ Cardinality(Jobs \ {j}) = Cardinality(Jobs) - 1
  BY ConstantsAssumption, FS_RemoveElement
<1>4. Cardinality(Others) <= Cardinality(Jobs) - 1
  BY <1>2, <1>3, FS_Subset
<1>5. Cardinality(Others) \in Nat /\ Cardinality(Jobs) \in Nat
  BY <1>2, <1>3, ConstantsAssumption, FS_Subset, FS_CardinalityType
<1>6. ~TableFull
  BY <1>4, <1>5, ConstantsAssumption DEF TableFull, Room
<1>7. rec' = [k \in Jobs |-> IF k = j THEN "pending" ELSE rec[k]]
  BY <1>6 DEF CreateJob
<1> QED
  BY <1>7 DEF IInv, TypeInv, TypeOK

-----------------------------------------------------------------------------
(* Every step keeps the records, and keeps a stopped job from completing.  *)

\* The steps of _run() keep the record that it writes.
LEMMA KeptByRunStep ==
  ASSUME IInv, \A i \in Jobs : Kept(i), NEW j \in Jobs, RunStep(j), NEW k \in Jobs
  PROVE  Kept(k)'
<1> USE DEF IInv, TypeInv, TypeOK, Lifecycle, LiveTask, Kept, RunRest, taskVars
<1>1. CASE MarkRunning(j)   BY <1>1 DEF MarkRunning, DbFault
<1>2. CASE StartJob(j)      BY <1>2 DEF StartJob, MayStart
<1>3. CASE WaitDone(j)      BY <1>3 DEF WaitDone, Finished
<1>4. CASE ReadExisting(j)  BY <1>4 DEF ReadExisting, DbFault
<1>5. CASE WriteFinal(j)    BY <1>5 DEF WriteFinal, DbFault
<1>6. CASE ExceptRead(j)    BY <1>6 DEF ExceptRead, DbFault
<1>7. CASE ExceptWrite(j)   BY <1>7 DEF ExceptWrite, DbFault
<1> QED BY <1>1, <1>2, <1>3, <1>4, <1>5, <1>6, <1>7 DEF RunStep

\* The task changes the record only while _run() waits for it.
LEMMA KeptByTaskStep ==
  ASSUME IInv, \A i \in Jobs : Kept(i), NEW j \in Jobs, TaskStep(j), NEW k \in Jobs
  PROVE  Kept(k)'
<1> USE DEF IInv, TypeInv, TypeOK, Lifecycle, LiveTask, Kept, runVars
<1>1. ASSUME UNCHANGED <<rec, runVars>> PROVE Kept(k)'
  BY <1>1
<1>2. ASSUME NEW how \in {"ok", "cancel", "fail"}, FinishTask(j, how), UNCHANGED runVars,
             task[j] \in LiveTask
      PROVE  Kept(k)'
  <2>1. run[j] = "wait" /\ FinalStatus(j, how) \in Terminal
    BY <1>2 DEF FinalStatus, Terminal
  <2> QED
    BY <1>2, <2>1 DEF FinishTask, Terminal
<1>3. \/ UNCHANGED <<rec, runVars>>
      \/ \E how \in {"ok", "cancel", "fail"} :
           FinishTask(j, how) /\ UNCHANGED runVars /\ task[j] \in LiveTask
  BY DEF TaskStep, FirstStep, AbortUnstarted, AcquireHf, CancelWaiter, ResumeTraining,
         DistributedFails, CancelTraining, PersistMetrics, BeginTraining, GpuConflict,
         RefuseTraining, SubmitTraining, memVars, TaskRest
<1> QED
  BY <1>1, <1>2, <1>3

\* A cancel request marks the record and keeps it.
LEMMA KeptByCancel ==
  ASSUME IInv, \A i \in Jobs : Kept(i), NEW c \in Cancels, NEW j \in Jobs,
         CancelRequest(c, j), NEW k \in Jobs
  PROVE  Kept(k)'
<1> USE DEF IInv, TypeInv, TypeOK, Lifecycle, Kept
<1>1. UNCHANGED <<run, final>>
  BY DEF CancelRequest, runVars
<1>2. rec' = rec \/ rec' = [rec EXCEPT ![j] = IF rec[j] \in {"pending", "running"}
                                             THEN "cancelled" ELSE @]
  BY DEF CancelRequest, CancelNow, CancelTask, SignalProcess
<1>3. run[j] \in {"read", "write"} => rec[j] \notin {"pending", "running"}
  BY DEF Terminal
<1> QED
  BY <1>1, <1>2, <1>3

\* After the process's time the record is as it was: its job has trained and, if
\* its task is over, has a status.
LEMMA GraceKeepsRecord ==
  ASSUME IInv, NEW c \in Cancels, CancelGrace(c)
  PROVE  UNCHANGED rec
<1>1. PICK j \in Jobs : Graced(c, j)
  BY GraceStep DEF IInv
<1>2. task[j] \in Trained
  BY <1>1 DEF IInv, Waited, Graced, CancelGrace
<1>3. task[j] \in Finished => rec[j] \in Terminal \union {"none"}
  BY <1>2 DEF IInv, Lifecycle, Trained, Finished
<1> QED
  BY <1>1, <1>3 DEF Graced, CancelTask, IInv, TypeInv, TypeOK

\* With room in the table no step drops the record of a job at work.
LEMMA KeptByNext ==
  ASSUME Room, IInv, \A i \in Jobs : Kept(i), [Next]_vars, NEW k \in Jobs
  PROVE  Kept(k)'
<1> USE DEF IInv, TypeInv, TypeOK, Lifecycle, Kept, memVars, taskVars, runVars
<1>1. ASSUME UNCHANGED <<rec, runVars>> PROVE Kept(k)'
  BY <1>1
<1>2. ASSUME NEW j \in Jobs, CreateJob(j) PROVE Kept(k)'
  <2>1. rec' = [rec EXCEPT ![j] = "pending"]
    BY <1>2, NothingEvicted
  <2> QED
    BY <1>2, <2>1 DEF CreateJob
<1>3. ASSUME NEW j \in Jobs, WorkerStep(j) PROVE Kept(k)'
  BY <1>1, <1>3 DEF WorkerStep, WorkerStart, ProcessStart, WorkerReturn, WorkerInterrupt,
                    WorkerRest
<1>4. ASSUME NEW c \in Cancels, NEW j \in Jobs, CancelRequest(c, j) PROVE Kept(k)'
  BY <1>4, KeptByCancel
<1>5. ASSUME NEW c \in Cancels, CancelStep(c) PROVE Kept(k)'
  <2>1. CASE CancelAwait(c) \/ CancelWrite(c)
    BY <1>1, <2>1 DEF CancelAwait, CancelWrite, CancelRest
  <2>2. CASE CancelGrace(c)
    BY <1>1, <2>2, GraceKeepsRecord DEF CancelGrace
  <2> QED
    BY <1>5, <2>1, <2>2 DEF CancelStep
<1>6. CASE OtherGpuBegin \/ OtherGpuEnd
  BY <1>1, <1>6 DEF OtherGpuBegin, OtherGpuEnd, OtherRest
<1>7. CASE Restart
  BY <1>7 DEF Restart
<1>8. CASE UNCHANGED vars
  BY <1>1, <1>8 DEF vars
<1> QED
  BY <1>2, <1>3, <1>4, <1>5, <1>6, <1>7, <1>8, KeptByRunStep, KeptByTaskStep
     DEF Next, JobStep

\* A job is submitted once.
LEMMA SubmittedOnce ==
  ASSUME IInv, [Next]_vars, NEW k \in Jobs, row[k] # "none", rec[k] = "none"
  PROVE  rec'[k] # "pending"
<1> USE DEF IInv, TypeInv, TypeOK, memVars
<1>1. ASSUME UNCHANGED rec PROVE rec'[k] # "pending"
  BY <1>1
<1>2. ASSUME NEW j \in Jobs, CreateJob(j) PROVE rec'[k] # "pending"
  BY <1>2 DEF CreateJob
<1>3. ASSUME NEW j \in Jobs, RunStep(j) PROVE rec'[k] # "pending"
  BY <1>3 DEF RunStep, MarkRunning, DbFault, StartJob, WaitDone, ReadExisting, WriteFinal,
              ExceptRead, ExceptWrite
<1>4. ASSUME NEW j \in Jobs, TaskStep(j) PROVE rec'[k] # "pending"
  <2>1. \/ UNCHANGED rec
        \/ \E how \in {"ok", "cancel", "fail"} :
             rec' = [rec EXCEPT ![j] = FinalStatus(j, how)]
    BY <1>4 DEF TaskStep, FirstStep, AbortUnstarted, AcquireHf, CancelWaiter, ResumeTraining,
                DistributedFails, CancelTraining, PersistMetrics, BeginTraining, GpuConflict,
                RefuseTraining, SubmitTraining, FinishTask
  <2>2. \A how \in {"ok", "cancel", "fail"} : FinalStatus(j, how) # "pending"
    BY DEF FinalStatus
  <2> QED
    BY <2>1, <2>2
<1>5. ASSUME NEW j \in Jobs, WorkerStep(j) PROVE UNCHANGED rec
  BY <1>5 DEF WorkerStep, WorkerStart, ProcessStart, WorkerReturn, WorkerInterrupt, WorkerRest
<1>6. ASSUME NEW c \in Cancels, NEW j \in Jobs, CancelRequest(c, j) PROVE rec'[k] # "pending"
  BY <1>6 DEF CancelRequest, CancelNow, CancelTask, SignalProcess
<1>7. ASSUME NEW c \in Cancels, CancelStep(c) PROVE UNCHANGED rec
  BY <1>7, GraceKeepsRecord DEF CancelStep, CancelAwait, CancelWrite, CancelRest
<1>8. CASE OtherGpuBegin \/ OtherGpuEnd \/ UNCHANGED vars
  BY <1>1, <1>8 DEF OtherGpuBegin, OtherGpuEnd, OtherRest, vars
<1>9. CASE Restart
  BY <1>9 DEF Restart
<1> QED
  BY <1>1, <1>2, <1>3, <1>4, <1>5, <1>6, <1>7, <1>8, <1>9 DEF Next, JobStep

\* A stopped job stays stopped: the record follows the abstract job.
LEMMA StoppedStays ==
  ASSUME IInv, [Next]_vars, NEW k \in Jobs, row[k] # "none", Stopped(k)
  PROVE  Stopped(k)'
BY RecordStep, SubmittedOnce
   DEF Stopped, Abstract!JobStep, Abstract!Becomes, Abstract!Submit, Abstract!Start,
       Abstract!Succeed, Abstract!Fail, Abstract!Ask, Abstract!Stop, Abstract!Correct,
       Abstract!Forget, Abstract!Crash, Abstract!Over

\* A cancel that is not refused stops its job.
LEMMA CancelStops ==
  ASSUME IInv, NEW c \in Cancels, NEW j \in Jobs, CancelRequest(c, j), req'[c] # "refused"
  PROVE  Stopped(j)'
<1> USE DEF IInv, TypeInv, TypeOK, Stopped
<1>1. CASE TaskAlive(j)
  BY <1>1 DEF CancelRequest, CancelTask, SignalProcess, TaskAlive
<1>2. CASE ~TaskAlive(j)
  <2>1. CancelNow(c, j)
    BY <1>2 DEF CancelRequest
  <2>2. rec' = [rec EXCEPT ![j] = IF rec[j] \in {"pending", "running"} THEN "cancelled" ELSE @]
    BY <2>1 DEF CancelNow
  <2>3. rec[j] \notin {"completed", "failed"}
    BY <2>1 DEF CancelNow
  <2> QED
    BY <2>2, <2>3 DEF Status, Terminal
<1> QED
  BY <1>1, <1>2

-----------------------------------------------------------------------------
(* Rows and requests.                                                      *)

\* Rows are never deleted, and only _run() writes a success.
LEMMA RowStep ==
  ASSUME IInv, [Next]_vars, NEW k \in Jobs
  PROVE  /\ row[k] # "none" => row'[k] # "none"
         /\ row'[k] = "completed" =>
              row[k] = "completed" \/ (run[k] = "write" /\ final[k] = "completed")
<1> DEFINE Goal == /\ row[k] # "none" => row'[k] # "none"
                   /\ row'[k] = "completed" =>
                        row[k] = "completed" \/ (run[k] = "write" /\ final[k] = "completed")
<1> USE DEF IInv, TypeInv, TypeOK, Lifecycle
<1>1. ASSUME NEW j \in Jobs, CreateJob(j) PROVE Goal
  BY <1>1 DEF CreateJob
<1>2. ASSUME NEW j \in Jobs, TaskStep(j) \/ WorkerStep(j) PROVE row' = row
  BY <1>2 DEF TaskStep, FirstStep, BeginTraining, AbortUnstarted, AcquireHf, CancelWaiter,
     ResumeTraining, DistributedFails, CancelTraining, PersistMetrics, TaskRest, WorkerStep,
     WorkerStart, ProcessStart, WorkerReturn, WorkerInterrupt, WorkerRest
<1>3. ASSUME NEW j \in Jobs, RunStep(j) PROVE Goal
  BY <1>3 DEF RunStep, MarkRunning, StartJob, WaitDone, ReadExisting, WriteFinal, ExceptRead,
     ExceptWrite, DbFault
<1>4. ASSUME NEW c \in Cancels, NEW j \in Jobs, CancelRequest(c, j) PROVE row' = row
  BY <1>4 DEF CancelRequest
<1>5. ASSUME NEW c \in Cancels, CancelStep(c) PROVE Goal
  BY <1>5 DEF CancelStep, CancelGrace, CancelAwait, CancelWrite
<1>6. CASE OtherGpuBegin \/ OtherGpuEnd
  BY <1>6 DEF OtherGpuBegin, OtherGpuEnd, OtherRest
<1>7. CASE Restart
  BY <1>7 DEF Restart
<1>8. CASE UNCHANGED vars
  BY <1>8 DEF vars
<1> QED
  BY <1>1, <1>2, <1>3, <1>4, <1>5, <1>6, <1>7, <1>8 DEF Next, JobStep

\* A request waits or is answered because it was before, or has just stopped its
\* job; the last write of an answered one says cancelled.
LEMMA RequestStep ==
  ASSUME IInv, Answered, [Next]_vars, NEW c \in Cancels, NEW k \in Jobs, k \in target'[c]
  PROVE  /\ row'[k] # "none"
         /\ \/ k \in target[c]
            \/ req'[c] # "acked" /\ (req'[c] \in {"grace", "await", "write"} => Stopped(k)')
         /\ req'[c] \in {"grace", "await", "write", "acked"} /\ k \in target[c] =>
              req[c] \in {"grace", "await", "write", "acked"} \/ Stopped(k)'
         /\ req'[c] = "acked" => req[c] = "acked" \/ row'[k] = "cancelled"
<1> DEFINE Same == target'[c] = target[c] /\ req'[c] = req[c]
<1> USE DEF IInv, TypeInv, TypeOK, Answered
<1>1. ASSUME Same \/ (target'[c] = target[c] /\ req[c] \in {"grace", "await", "write"})
      PROVE  row'[k] # "none"
  BY <1>1, RowStep
<1>2. ASSUME NEW j \in Jobs, CreateJob(j) \/ JobStep(j) PROVE Same
  BY <1>2 DEF CreateJob, JobStep, TaskStep, FirstStep, BeginTraining,
     AbortUnstarted, AcquireHf, CancelWaiter, ResumeTraining, DistributedFails, CancelTraining,
     PersistMetrics, TaskRest, WorkerStep, WorkerStart, ProcessStart, WorkerReturn, WorkerInterrupt,
     WorkerRest, RunStep, MarkRunning, StartJob, WaitDone, ReadExisting, WriteFinal,
     ExceptRead, ExceptWrite, DbFault, RunRest, reqVars
<1>3. ASSUME NEW d \in Cancels, NEW j \in Jobs, CancelRequest(d, j), d # c PROVE Same
  BY <1>3 DEF CancelRequest, CancelNow, CancelTask, SignalProcess
<1>4. ASSUME NEW j \in Jobs, CancelRequest(c, j)
      PROVE  /\ row'[k] # "none" /\ k = j
             /\ req'[c] \in {"grace", "await", "write", "refused"}
             /\ req'[c] # "refused" => Stopped(k)'
  <2>1. k = j /\ row'[j] = row[j] /\ row[j] # "none"
    BY <1>4 DEF CancelRequest
  <2>2. req'[c] \in {"grace", "await", "write", "refused"}
    BY <1>4 DEF CancelRequest, CancelNow, CancelTask, SignalProcess
  <2> QED
    BY <1>4, <2>1, <2>2, CancelStops
<1>5. ASSUME NEW d \in Cancels, CancelStep(d)
      PROVE  Same \/ /\ target'[c] = target[c] /\ req[c] \in {"grace", "await", "write"}
                     /\ req'[c] = "acked" => row'[k] = "cancelled"
  <2>1. CASE CancelAwait(d) \/ CancelWrite(d)
    BY <2>1 DEF CancelAwait, CancelWrite, CancelRest
  <2>2. CASE CancelGrace(d)
    BY <2>2 DEF CancelGrace, CancelTask
  <2> QED
    BY <1>5, <2>1, <2>2 DEF CancelStep
<1>6. CASE OtherGpuBegin \/ OtherGpuEnd \/ UNCHANGED vars
  BY <1>1, <1>6 DEF OtherGpuBegin, OtherGpuEnd, OtherRest, vars, reqVars
<1>7. CASE Restart
  <2>1. target' = target /\ (req'[c] \in {"grace", "await", "write", "acked"} => req'[c] = req[c])
    BY <1>7 DEF Restart
  <2>2. row'[k] # "none"
    BY <2>1, RowStep
  <2> QED
    BY <2>1, <2>2
<1> QED
  BY <1>1, <1>2, <1>3, <1>4, <1>5, <1>6, <1>7 DEF Next

\* Every step keeps what was answered to a cancel request.
LEMMA AckOfNext == Room /\ AckInv /\ [Next]_vars => AckInv'
<1> SUFFICES ASSUME Room, AckInv, [Next]_vars PROVE AckInv'
  OBVIOUS
<1> USE DEF AckInv
<1>1. IInv'
  BY JobOfNext
<1>2. \A k \in Jobs : Kept(k)'
  BY KeptByNext
<1>3. ASSUME NEW c \in Cancels, NEW k \in Jobs, k \in target'[c]
      PROVE  /\ row'[k] # "none"
             /\ req'[c] \in {"grace", "await", "write", "acked"} => Stopped(k)'
             /\ req'[c] = "acked" => row'[k] # "completed"
  <2>1. row'[k] # "none"
    BY <1>3, RequestStep
  <2>2. req'[c] \in {"grace", "await", "write", "acked"} => Stopped(k)'
    BY <1>3, RequestStep, StoppedStays DEF Answered
  <2>3. ASSUME req'[c] = "acked" PROVE row'[k] # "completed"
    <3>1. k \in target[c] /\ (req[c] = "acked" \/ row'[k] = "cancelled")
      BY <1>3, <2>3, RequestStep
    <3>2. CASE req[c] = "acked"
      <4>1. row[k] # "completed" /\ Stopped(k)
        BY <3>1, <3>2 DEF AckedCancelNotCompleted, Answered
      <4>2. ~(run[k] = "write" /\ final[k] = "completed")
        BY <4>1 DEF Kept, Stopped, IInv, Lifecycle
      <4> QED
        BY <4>1, <4>2, RowStep
    <3> QED
      BY <3>1, <3>2
  <2> QED
    BY <2>1, <2>2, <2>3
<1>4. \A c \in Cancels : target'[c] \subseteq Jobs
  BY <1>1 DEF IInv, TypeInv, TypeOK
<1> QED
  BY <1>1, <1>2, <1>3, <1>4 DEF Answered, AckedCancelNotCompleted

\* In a table with room for every job, a cancel that was answered with success is
\* never followed by a completed row, after any faults and crashes.
THEOREM AckedCancelHolds == Room => (Spec => []AckedCancelNotCompleted)
<1> SUFFICES ASSUME Room PROVE Spec => []AckedCancelNotCompleted
  OBVIOUS
<1>1. Init => AckInv
  BY InitIInv DEF AckInv, Init, Kept, Answered, AckedCancelNotCompleted
<1>2. AckInv /\ [Next]_vars => AckInv'
  BY AckOfNext
<1>3. AckInv => AckedCancelNotCompleted
  BY DEF AckInv
<1> QED
  BY <1>1, <1>2, <1>3, PTL DEF Spec

-----------------------------------------------------------------------------
(* Who will write the row, and whether the task hears of the cancel: what  *)
(* has to hold at every moment for the liveness properties to come true.   *)

\* A cancel request waits for the end of the job's task, or is about to write
\* the row, or has failed to.
Cancelling(j) ==
  \E c \in Cancels : j \in target[c] /\ req[c] \in {"await", "write", "failed"}

\* The task has heard of a cancel() or is past the last await that matters.
Told(j) ==
  \/ task[j] \in Finished \union {"persisting"}
  \/ task[j] \in {"scheduled", "hfwait", "training"} /\ killed[j]

\* A request that awaits a task has its cancel delivered or on the way.
CancelDelivered ==
  \A c \in Cancels : req[c] = "await" => \A j \in target[c] : Told(j)

\* A row in flight has a coroutine or a cancel request that will write it, or
\* one that was lost to an error in its own error handling.
AtWork == {"mark", "start", "wait", "read", "write", "exRead", "exWrite", "lost"}

Owned(j) == row[j] \in {"pending", "running"} => run[j] \in AtWork \/ Cancelling(j)

RowsOwned == \A j \in Jobs : Owned(j)

\* A cancel() that is not delivered yet has its request waiting, and a running
\* record has had a task.
Killing(j) ==
  /\ rec[j] = "running" => task[j] # "none"
  /\ killed[j] => task[j] \in LiveTask /\ \E c \in Cancels : req[c] = "await" /\ j \in target[c]

\* A task that died before its first step leaves its row to the cancel request.
Orphaned(j) ==
  task[j] = "aborted" => row[j] \notin {"pending", "running"} \/ Cancelling(j)

\* A request names one job.
OneTarget == \A c \in Cancels : \A i, j \in target[c] : i = j

DeliveryInv == IInv /\ (\A j \in Jobs : Killing(j)) /\ OneTarget /\ CancelDelivered
RowInv == DeliveryInv /\ \A j \in Jobs : Kept(j) /\ Orphaned(j) /\ Owned(j)

-----------------------------------------------------------------------------
(* The task.                                                               *)

\* What a step of the job, of its coroutine or of its worker does to a cancel()
\* under way: it is heard, and never taken back from a task that goes on.
Hears(k) ==
  /\ rec'[k] = "running" => task'[k] # "none"
  /\ killed'[k] => killed[k] /\ task'[k] \in LiveTask
  /\ Told(k) => Told(k)'

\* No step of _run() loses a cancel().
LEMMA HearsRunStep ==
  ASSUME DeliveryInv, NEW j \in Jobs, RunStep(j), NEW k \in Jobs
  PROVE  Hears(k)
<1> USE DEF DeliveryInv, IInv, TypeInv, TypeOK, Lifecycle, LiveTask, Killing, Hears, Told,
            Finished, RunRest, taskVars
<1>1. CASE MarkRunning(j)   BY <1>1 DEF MarkRunning, DbFault
<1>2. CASE StartJob(j)      BY <1>2 DEF StartJob, MayStart
<1>3. CASE WaitDone(j)      BY <1>3 DEF WaitDone
<1>4. CASE ReadExisting(j)  BY <1>4 DEF ReadExisting, DbFault
<1>5. CASE WriteFinal(j)    BY <1>5 DEF WriteFinal, DbFault
<1>6. CASE ExceptRead(j)    BY <1>6 DEF ExceptRead, DbFault
<1>7. CASE ExceptWrite(j)   BY <1>7 DEF ExceptWrite, DbFault
<1> QED BY <1>1, <1>2, <1>3, <1>4, <1>5, <1>6, <1>7 DEF RunStep

\* No step of the task or its worker loses a cancel(): it is heard at an await.
LEMMA HearsTaskStep ==
  ASSUME DeliveryInv, NEW j \in Jobs, TaskStep(j), NEW k \in Jobs
  PROVE  Hears(k)
<1> USE DEF DeliveryInv, IInv, TypeInv, TypeOK, Lifecycle, LiveTask, Killing, Hears, Told,
            Finished, memVars, taskVars
<1>1. ASSUME NEW how \in {"ok", "cancel", "fail"}, FinishTask(j, how) PROVE Hears(k)
  <2>1. FinalStatus(j, how) # "running"
    BY DEF FinalStatus
  <2> QED
    BY <1>1, <2>1 DEF FinishTask
<1>2. ASSUME NEW how, LeaveTraining(j, how), task[j] = "training", rec' = rec,
             killed' = killed \/ killed' = [killed EXCEPT ![j] = FALSE]
      PROVE  Hears(k)
  BY <1>2 DEF LeaveTraining
<1>3. ASSUME BeginTraining(j), ~killed[j], task[j] \in {"scheduled", "hfwait"} PROVE Hears(k)
  <2>1. CASE GpuConflict(j) \/ RefuseTraining(j)
    BY <1>1, <2>1 DEF GpuConflict, RefuseTraining
  <2>2. CASE SubmitTraining(j)
    BY <1>3, <2>2 DEF SubmitTraining
  <2> QED
    BY <1>3, <2>1, <2>2 DEF BeginTraining
<1>4. CASE FirstStep(j)        BY <1>3, <1>4 DEF FirstStep
<1>5. CASE AbortUnstarted(j)   BY <1>5 DEF AbortUnstarted
<1>6. CASE AcquireHf(j)        BY <1>3, <1>6 DEF AcquireHf
<1>7. CASE CancelWaiter(j)     BY <1>1, <1>7 DEF CancelWaiter
<1>8. CASE ResumeTraining(j)   BY <1>2, <1>8 DEF ResumeTraining
<1>9. CASE DistributedFails(j) BY <1>2, <1>9 DEF DistributedFails
<1>10. CASE CancelTraining(j)  BY <1>2, <1>10 DEF CancelTraining
<1>11. CASE PersistMetrics(j)
  <2>1. \E how \in {"ok", "cancel", "fail"} : FinishTask(j, how)
    BY <1>11 DEF PersistMetrics
  <2> QED
    BY <1>1, <2>1
<1> QED
  BY <1>4, <1>5, <1>6, <1>7, <1>8, <1>9, <1>10, <1>11 DEF TaskStep

\* Steps of the job, of its coroutine or of its worker leave the requests alone.
LEMMA HearsStep ==
  ASSUME DeliveryInv, NEW j \in Jobs, CreateJob(j) \/ JobStep(j), NEW k \in Jobs
  PROVE  Hears(k) /\ UNCHANGED <<req, target>>
<1> USE DEF DeliveryInv, IInv, TypeInv, TypeOK, Lifecycle, LiveTask, Killing, Hears, Told,
            taskVars, memVars, reqVars
<1>1. CASE CreateJob(j)
  <2>1. rec'[k] = "running" => rec[k] = "running"
    BY <1>1 DEF CreateJob
  <2> QED
    BY <1>1, <2>1 DEF CreateJob
<1>2. CASE RunStep(j)
  BY <1>2, HearsRunStep DEF RunStep, MarkRunning, StartJob, WaitDone, ReadExisting,
     WriteFinal, ExceptRead, ExceptWrite, DbFault, RunRest
<1>3. CASE TaskStep(j)
  BY <1>3, HearsTaskStep DEF TaskStep, FirstStep, BeginTraining, AbortUnstarted, AcquireHf,
     CancelWaiter, ResumeTraining, DistributedFails, CancelTraining, PersistMetrics, TaskRest
<1>4. CASE WorkerStep(j)
  BY <1>4 DEF WorkerStep, WorkerStart, ProcessStart, WorkerReturn, WorkerInterrupt, WorkerRest
<1> QED
  BY <1>1, <1>2, <1>3, <1>4 DEF JobStep

-----------------------------------------------------------------------------
(* The requests.                                                           *)

\* What is asked of a request and a job together.
Asked(c, k) == req[c] = "await" /\ k \in target[c] => Told(k)

\* A request that begins to wait has sent its cancel(), or found the task over.
LEMMA DeliveryOfRequest ==
  ASSUME DeliveryInv, NEW c \in Cancels, NEW j \in Jobs, CancelRequest(c, j),
         NEW k \in Jobs, NEW d \in Cancels
  PROVE  Killing(k)' /\ Asked(d, k)'
<1> USE DEF DeliveryInv, IInv, TypeInv, TypeOK, Lifecycle, LiveTask, Killing, Told, Asked,
            Finished, CancelDelivered
<1>1. /\ req[c] = "idle" /\ target' = [target EXCEPT ![c] = {j}] /\ task' = task
  BY DEF CancelRequest
<1>2. CASE CancelNow(c, j)
  <2>1. rec'[k] = "running" => rec[k] = "running"
    BY <1>2 DEF CancelNow
  <2>2. killed' = killed /\ req'[c] # "await" /\ \A e \in Cancels \ {c} : req'[e] = req[e]
    BY <1>2 DEF CancelNow
  <2> QED
    BY <1>1, <2>1, <2>2
<1>3. CASE SignalProcess(c, j)
  BY <1>1, <1>3 DEF SignalProcess
<1>4. CASE CancelTask(c, j) /\ TaskAlive(j)
  <2>1. task[j] \in LiveTask
    BY <1>4 DEF TaskAlive
  <2> QED
    BY <1>1, <1>4, <2>1 DEF CancelTask
<1> QED
  BY <1>2, <1>3, <1>4 DEF CancelRequest

\* A later step of a request keeps the cancels of all others.
LEMMA DeliveryOfCancelStep ==
  ASSUME DeliveryInv, NEW c \in Cancels, CancelStep(c), NEW k \in Jobs, NEW d \in Cancels
  PROVE  Killing(k)' /\ Asked(d, k)'
<1> USE DEF DeliveryInv, IInv, TypeInv, TypeOK, Lifecycle, LiveTask, Killing, Told, Asked,
            Finished, CancelDelivered
<1>1. CASE CancelGrace(c)
  <2>1. PICK j \in Jobs : Graced(c, j)
    BY <1>1, GraceStep
  <2>2. rec' = rec /\ task' = task /\ target' = target /\ req[c] = "grace" /\ j \in target[c]
    BY <1>1, <2>1, GraceKeepsRecord DEF Graced, CancelGrace
  <2>3. task[j] \in Trained
    BY <2>2 DEF Waited
  <2>4. CASE CancelTask(c, j) /\ task[j] \notin Finished
    <3>1. task[j] \in LiveTask
      BY <2>3, <2>4 DEF Trained
    <3> QED
      BY <2>2, <2>4, <3>1 DEF CancelTask, OneTarget
  <2>5. CASE UNCHANGED killed /\ req' = [req EXCEPT ![c] = "write"]
    BY <2>2, <2>5
  <2> QED
    BY <2>1, <2>4, <2>5 DEF Graced
<1>2. CASE CancelAwait(c)
  <2>1. UNCHANGED <<rec, task, killed, target>> /\ req' = [req EXCEPT ![c] = "write"]
    BY <1>2 DEF CancelAwait, CancelRest, memVars, taskVars
  <2>2. \A i \in target[c] : task[i] \in Finished
    BY <1>2 DEF CancelAwait
  <2> QED
    BY <2>1, <2>2
<1>3. CASE CancelWrite(c)
  BY <1>3 DEF CancelWrite, CancelRest, memVars, taskVars
<1> QED
  BY <1>1, <1>2, <1>3 DEF CancelStep

\* Every step keeps every cancel on its way.
LEMMA DeliveryOfNext == DeliveryInv /\ [Next]_vars => DeliveryInv'
<1> SUFFICES ASSUME DeliveryInv, [Next]_vars PROVE DeliveryInv'
  OBVIOUS
<1>1. IInv'
  BY JobOfNext DEF DeliveryInv
<1>2. ASSUME NEW k \in Jobs PROVE Killing(k)' /\ \A c \in Cancels : Asked(c, k)'
  <2> DEFINE Goal == Killing(k)' /\ \A c \in Cancels : Asked(c, k)'
  <2> USE DEF DeliveryInv, Killing, Asked, CancelDelivered
  <2>1. ASSUME NEW j \in Jobs, CreateJob(j) \/ JobStep(j) PROVE Goal
    <3>1. Hears(k) /\ UNCHANGED <<req, target>>
      BY <2>1, HearsStep
    <3> QED
      BY <3>1 DEF Hears
  <2>2. ASSUME UNCHANGED <<rec, task, killed, req, target>> PROVE Goal
    BY <2>2 DEF Told
  <2>3. CASE OtherGpuBegin \/ OtherGpuEnd \/ UNCHANGED vars
    BY <2>2, <2>3 DEF OtherGpuBegin, OtherGpuEnd, OtherRest, vars, memVars, taskVars, reqVars
  <2>4. CASE Restart
    BY <2>4 DEF Restart, IInv, TypeInv, TypeOK
  <2>5. ASSUME NEW c \in Cancels, CancelStep(c) PROVE Goal
    <3> HIDE DEF Killing, Asked, DeliveryInv
    <3> QED
      BY <2>5, DeliveryOfCancelStep
  <2>6. ASSUME NEW c \in Cancels, NEW j \in Jobs, CancelRequest(c, j) PROVE Goal
    <3> HIDE DEF Killing, Asked, DeliveryInv
    <3> QED
      BY <2>6, DeliveryOfRequest
  <2> QED
    BY <2>1, <2>3, <2>4, <2>5, <2>6 DEF Next
<1>3. \A c \in Cancels : target'[c] \subseteq Jobs
  BY <1>1 DEF IInv, TypeInv, TypeOK
<1>4. CancelDelivered'
  BY <1>2, <1>3 DEF Asked, CancelDelivered
<1>5. OneTarget'
  <2>1. ASSUME NEW c \in Cancels PROVE target'[c] = target[c] \/ \E j \in Jobs : target'[c] = {j}
    <3>1. ASSUME NEW d \in Cancels, NEW j \in Jobs, CancelRequest(d, j)
          PROVE  target' = [target EXCEPT ![d] = {j}]
      BY <3>1 DEF CancelRequest
    <3>2. ASSUME NEW d \in Cancels, CancelStep(d) PROVE target' = target
      BY <3>2 DEF CancelStep, CancelGrace, CancelAwait, CancelWrite, CancelRest
    <3>3. ASSUME NEW j \in Jobs, CreateJob(j) \/ JobStep(j) PROVE target' = target
      BY <1>2, <3>3, HearsStep
    <3>4. CASE OtherGpuBegin \/ OtherGpuEnd \/ Restart \/ UNCHANGED vars
      BY <3>4 DEF OtherGpuBegin, OtherGpuEnd, OtherRest, Restart, vars, reqVars
    <3> QED
      BY <3>1, <3>2, <3>3, <3>4 DEF Next, DeliveryInv, IInv, TypeInv, TypeOK
  <2> QED
    BY <2>1 DEF OneTarget, DeliveryInv
<1> QED
  BY <1>1, <1>2, <1>4, <1>5 DEF DeliveryInv

\* No cancel is under way in the initial states.
LEMMA InitDelivery == Init => DeliveryInv
<1> SUFFICES ASSUME Init PROVE DeliveryInv
  OBVIOUS
<1>1. \A j \in Jobs : Killing(j)
  BY DEF Init, Killing
<1>2. CancelDelivered /\ OneTarget
  BY DEF Init, CancelDelivered, OneTarget
<1> QED
  BY <1>1, <1>2, InitIInv DEF DeliveryInv

\* No cancel is lost while a request waits for it (CancelAnswered could not hold
\* otherwise): the awaited task is over, or in its last section, which ends by
\* itself, or has a cancel() on the way that its next step must take.
THEOREM CancelsAreDelivered == Spec => []CancelDelivered
<1>1. DeliveryInv => CancelDelivered
  BY DEF DeliveryInv
<1> QED
  BY <1>1, InitDelivery, DeliveryOfNext, PTL DEF Spec

-----------------------------------------------------------------------------
(* The row.                                                                *)

\* _run() gives a row up only when it has written it, or to a request.
LEMMA OwnedByRunStep ==
  ASSUME RowInv, NEW j \in Jobs, RunStep(j), NEW k \in Jobs
  PROVE  Orphaned(k)' /\ Owned(k)'
<1> USE DEF RowInv, DeliveryInv, IInv, TypeInv, TypeOK, Lifecycle, Kept, Orphaned, Owned,
            AtWork, RunRest, taskVars, reqVars
<1>1. Cancelling(k)' <=> Cancelling(k)
  BY HearsStep DEF JobStep, Cancelling
<1>2. CASE MarkRunning(j)   BY <1>1, <1>2 DEF MarkRunning, DbFault
<1>3. CASE StartJob(j)      BY <1>1, <1>3 DEF StartJob, MayStart
<1>4. CASE WaitDone(j)      BY <1>1, <1>4 DEF WaitDone, Finished
<1>5. CASE ReadExisting(j)  BY <1>1, <1>5 DEF ReadExisting, DbFault
<1>6. CASE WriteFinal(j)
  <2>1. final[j] \in Terminal
    BY <1>6 DEF WriteFinal, DbFault
  <2> QED
    BY <1>1, <1>6, <2>1 DEF WriteFinal, DbFault, Terminal
<1>7. CASE ExceptRead(j)    BY <1>1, <1>7 DEF ExceptRead, DbFault
<1>8. CASE ExceptWrite(j)   BY <1>1, <1>8 DEF ExceptWrite, DbFault
<1> QED BY <1>2, <1>3, <1>4, <1>5, <1>6, <1>7, <1>8 DEF RunStep

\* The other steps of a job leave its row; a task that dies before its first step
\* does so for a request that waits for it.
LEMMA OwnedByJobStep ==
  ASSUME RowInv, NEW j \in Jobs, CreateJob(j) \/ JobStep(j), NEW k \in Jobs
  PROVE  Orphaned(k)' /\ Owned(k)'
<1> USE DEF RowInv, DeliveryInv, IInv, TypeInv, TypeOK, Lifecycle, Orphaned, Owned, AtWork,
            taskVars, runVars, memVars
<1>1. Cancelling(k)' <=> Cancelling(k)
  BY HearsStep DEF Cancelling
<1>2. CASE CreateJob(j)
  BY <1>1, <1>2 DEF CreateJob
<1>3. CASE TaskStep(j)
  <2>1. UNCHANGED <<row, run>>
    BY <1>3 DEF TaskStep, FirstStep, BeginTraining, AbortUnstarted, AcquireHf, CancelWaiter,
       ResumeTraining, DistributedFails, CancelTraining, PersistMetrics, TaskRest
  <2>2. task'[k] = "aborted" => task[k] = "aborted" \/ killed[k]
    BY <1>3 DEF TaskStep, FirstStep, BeginTraining, AbortUnstarted, AcquireHf, CancelWaiter,
       ResumeTraining, DistributedFails, CancelTraining, PersistMetrics, TaskRest,
       GpuConflict, RefuseTraining, SubmitTraining, FinishTask, LeaveTraining
  <2>3. killed[k] => Cancelling(k)
    BY DEF Killing, Cancelling
  <2> QED
    BY <1>1, <2>1, <2>2, <2>3
<1>4. CASE WorkerStep(j)
  BY <1>1, <1>4 DEF WorkerStep, WorkerStart, ProcessStart, WorkerReturn, WorkerInterrupt,
     WorkerRest
<1> QED
  BY <1>2, <1>3, <1>4, OwnedByRunStep DEF JobStep

\* A request lets its job go when it has written the row.
LEMMA OwnedByCancel ==
  ASSUME RowInv, NEW c \in Cancels,
         CancelStep(c) \/ \E j \in Jobs : CancelRequest(c, j), NEW k \in Jobs
  PROVE  Orphaned(k)' /\ Owned(k)'
<1> USE DEF RowInv, DeliveryInv, IInv, TypeInv, TypeOK, Orphaned, Owned,
            taskVars, runVars, memVars
<1>1. UNCHANGED <<task, run>>
  BY DEF CancelStep, CancelGrace, CancelAwait, CancelWrite, CancelRest, CancelRequest
<1>2. \A d \in Cancels \ {c} : req'[d] = req[d] /\ target'[d] = target[d]
  <2>1. CASE CancelStep(c)
    BY <2>1 DEF CancelStep, CancelGrace, CancelAwait, CancelWrite, CancelRest, CancelTask
  <2>2. ASSUME NEW j \in Jobs, CancelRequest(c, j)
        PROVE  \A d \in Cancels \ {c} : req'[d] = req[d] /\ target'[d] = target[d]
    BY <2>2 DEF CancelRequest, CancelNow, CancelTask, SignalProcess
  <2> QED
    BY <2>1, <2>2
<1>3. row'[k] = row[k] \/ row'[k] = "cancelled"
  BY DEF CancelStep, CancelGrace, CancelAwait, CancelWrite, CancelRequest
<1>4. ASSUME req[c] \in {"await", "write"}, k \in target[c], row'[k] = row[k],
             row[k] \in {"pending", "running"}
      PROVE  req'[c] \in {"await", "write", "failed"} /\ k \in target'[c]
  BY <1>4 DEF CancelStep, CancelGrace, CancelAwait, CancelWrite, CancelRest, CancelRequest
<1>5. req[c] # "failed"
  BY DEF CancelStep, CancelGrace, CancelAwait, CancelWrite, CancelRequest
<1>6. row'[k] \in {"pending", "running"} /\ Cancelling(k) => Cancelling(k)'
  BY <1>2, <1>3, <1>4, <1>5 DEF Cancelling
<1> QED
  BY <1>1, <1>3, <1>6

\* Every step keeps every row in flight with an owner.
LEMMA RowOfNext == Room /\ RowInv /\ [Next]_vars => RowInv'
<1> SUFFICES ASSUME Room, RowInv, [Next]_vars PROVE RowInv'
  OBVIOUS
<1>1. DeliveryInv' /\ \A k \in Jobs : Kept(k)'
  BY DeliveryOfNext, KeptByNext DEF RowInv, DeliveryInv
<1>2. ASSUME NEW k \in Jobs PROVE Orphaned(k)' /\ Owned(k)'
  <2>1. ASSUME UNCHANGED <<row, task, run, req, target>> PROVE Orphaned(k)' /\ Owned(k)'
    BY <2>1 DEF RowInv, Orphaned, Owned, Cancelling
  <2>2. CASE OtherGpuBegin \/ OtherGpuEnd \/ UNCHANGED vars
    BY <2>1, <2>2 DEF OtherGpuBegin, OtherGpuEnd, OtherRest, vars, memVars, taskVars,
                      runVars, reqVars
  <2>3. CASE Restart
    BY <2>3 DEF Restart, Orphaned, Owned
  <2> QED
    BY <2>2, <2>3, OwnedByJobStep, OwnedByCancel DEF Next
<1> QED
  BY <1>1, <1>2 DEF RowInv

\* No row is left in flight (EventuallySettled could not hold otherwise): it has a
\* coroutine or a request that is about to write it, except where the error
\* handling of the one or the last write of the other has failed.
THEOREM RowsAreOwned == Room => (Spec => []RowsOwned)
<1> SUFFICES ASSUME Room PROVE Spec => []RowsOwned
  OBVIOUS
<1>1. Init => RowInv
  <2> SUFFICES ASSUME Init PROVE RowInv
    OBVIOUS
  <2>1. \A j \in Jobs : Kept(j) /\ Orphaned(j) /\ Owned(j)
    BY DEF Init, Kept, Orphaned, Owned
  <2> QED
    BY <2>1, InitDelivery DEF RowInv
<1>2. RowInv /\ [Next]_vars => RowInv'
  BY RowOfNext
<1>3. RowInv => RowsOwned
  BY DEF RowInv, RowsOwned
<1> QED
  BY <1>1, <1>2, <1>3, PTL DEF Spec

=============================================================================
