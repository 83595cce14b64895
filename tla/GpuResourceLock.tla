--------------------------- MODULE GpuResourceLock ----------------------------
(***************************************************************************)
(* seiso/memory/gpu_resource_lock.py: one GPU for all processes of the     *)
(* machine.  Between processes it is an advisory file lock (flock), inside *)
(* a process a depth counted under the re-entrant lock _guard.  Model: the *)
(* threads of several processes that acquire and release (a use may be     *)
(* released by another thread than the one that acquired it, as            *)
(* release_after_task does), time out, probe for another holder, and die.  *)
(* The kernel's flock is modelled from its use: it belongs to an open file,*)
(* is refused while another open file has it (of the same process too) and *)
(* is dropped when the process dies.                                       *)
(*                                                                         *)
(* There are two files to lock: the configured one, which all processes    *)
(* share, and one in the temporary directory for a call that cannot open   *)
(* the first.  Which of them a call gets, if any, is the file system's     *)
(* choice at every call, so two processes may use the GPU at a time, each  *)
(* through another file: what is serialized is the use through one file.   *)
(***************************************************************************)
EXTENDS Naturals, FiniteSets

CONSTANTS
  Procs,       \* processes
  Threads,     \* threads of all processes
  ProcOf,      \* the process of a thread
  MaxUses,     \* bound: uses of one process at a time
  MaxCrashes   \* bound: deaths of a process

ASSUME ConstantsAssumption ==
  /\ ProcOf \in [Threads -> Procs]
  /\ Threads \intersect Procs = {}
  /\ IsFiniteSet(Threads)
  /\ MaxUses \in Nat
  /\ MaxCrashes \in Nat

Files == {"shared", "temp"}

Nobody == "nobody"
NoFile == "none"
ASSUME NobodyAssumption == Nobody \notin Threads \union Procs

VARIABLES
  guard,    \* the thread that is inside _guard, per process
  depth,    \* _depth, per process
  handle,   \* the file behind _handle, per process
  opened,   \* the file a thread polls or probes, while it does
  flock,    \* per file, whose open file has its lock: a process's _handle, a
            \* thread's probe, or nobody's
  pc,       \* where a thread is
  uses,     \* acquisitions of a process that returned and are not given back
  answer,   \* last answer of a thread's probe
  crashes

vars == <<guard, depth, handle, opened, flock, pc, uses, answer, crashes>>

Init ==
  /\ guard   = [p \in Procs |-> Nobody]
  /\ depth   = [p \in Procs |-> 0]
  /\ handle  = [p \in Procs |-> NoFile]
  /\ opened  = [t \in Threads |-> NoFile]
  /\ flock   = [f \in Files |-> Nobody]
  /\ pc      = [t \in Threads |-> "idle"]
  /\ uses    = [p \in Procs |-> 0]
  /\ answer  = [t \in Threads |-> "none"]
  /\ crashes = 0

Goto(t, where) == pc' = [pc EXCEPT ![t] = where]

-----------------------------------------------------------------------------
(* acquire_gpu_resource_lock.                                              *)

CallAcquire(t) ==
  /\ pc[t] = "idle"
  /\ uses[ProcOf[t]] + Cardinality({u \in Threads : ProcOf[u] = ProcOf[t]
                            /\ pc[u] \in {"acquire", "poll"}}) < MaxUses
  /\ Goto(t, "acquire")
  /\ UNCHANGED <<guard, depth, handle, opened, flock, uses, answer, crashes>>

\* A process that already has a lock counts one level up.
CountUp(t) ==
  LET p == ProcOf[t] IN
  /\ depth[p] > 0
  /\ depth' = [depth EXCEPT ![p] = @ + 1]
  /\ uses'  = [uses  EXCEPT ![p] = @ + 1]
  /\ Goto(t, "idle")
  /\ UNCHANGED <<guard, opened>>

\* The first level opens a file, the fallback where the shared one raises
\* OSError, and polls for its lock without leaving _guard.
OpenLockFile(t) ==
  LET p == ProcOf[t] IN
  /\ depth[p] = 0
  /\ guard' = [guard EXCEPT ![p] = t]
  /\ \E f \in Files : opened' = [opened EXCEPT ![t] = f]
  /\ Goto(t, "poll")
  /\ UNCHANGED <<depth, uses>>

\* The fallback cannot be opened either: the call raises.
OpenFails(t) ==
  /\ depth[ProcOf[t]] = 0
  /\ Goto(t, "idle")
  /\ UNCHANGED <<guard, depth, opened, uses>>

EnterAcquire(t) ==
  /\ pc[t] = "acquire"
  /\ guard[ProcOf[t]] = Nobody
  /\ CountUp(t) \/ OpenLockFile(t) \/ OpenFails(t)
  /\ UNCHANGED <<handle, flock, answer, crashes>>

\* Mutant: after the first failed poll the file counts as locked.
PollTakesAnyway(t) ==
  LET p == ProcOf[t] IN
  /\ pc[t] = "poll"
  /\ flock'  = [flock  EXCEPT ![opened[t]] = p]
  /\ handle' = [handle EXCEPT ![p] = opened[t]]
  /\ opened' = [opened EXCEPT ![t] = NoFile]
  /\ depth'  = [depth  EXCEPT ![p] = @ + 1]
  /\ uses'   = [uses   EXCEPT ![p] = @ + 1]
  /\ guard'  = [guard  EXCEPT ![p] = Nobody]
  /\ Goto(t, "idle")
  /\ UNCHANGED <<answer, crashes>>

\* flock(LOCK_EX | LOCK_NB) succeeds.  A refused poll sleeps and tries again.
Poll(t) ==
  LET p == ProcOf[t] IN
  /\ pc[t] = "poll"
  /\ flock[opened[t]] = Nobody
  /\ flock'  = [flock  EXCEPT ![opened[t]] = p]
  /\ handle' = [handle EXCEPT ![p] = opened[t]]
  /\ opened' = [opened EXCEPT ![t] = NoFile]
  /\ depth'  = [depth  EXCEPT ![p] = @ + 1]
  /\ uses'   = [uses   EXCEPT ![p] = @ + 1]
  /\ guard'  = [guard  EXCEPT ![p] = Nobody]
  /\ Goto(t, "idle")
  /\ UNCHANGED <<answer, crashes>>

\* Mutant: the error leaves the guard locked.
TimeOutKeepsGuard(t) ==
  /\ pc[t] = "poll"
  /\ flock[opened[t]] # Nobody
  /\ opened' = [opened EXCEPT ![t] = NoFile]
  /\ Goto(t, "idle")
  /\ UNCHANGED <<guard, depth, handle, flock, uses, answer, crashes>>

\* Mutant: the error path lowers the depth.
TimeOutLowersDepth(t) ==
  /\ pc[t] = "poll"
  /\ flock[opened[t]] # Nobody
  /\ opened' = [opened EXCEPT ![t] = NoFile]
  /\ guard' = [guard EXCEPT ![ProcOf[t]] = Nobody]
  /\ depth' = [depth EXCEPT ![ProcOf[t]] = @ - 1]
  /\ Goto(t, "idle")
  /\ UNCHANGED <<handle, flock, uses, answer, crashes>>

\* A refused poll after the deadline: close the file and raise TimeoutError.
TimeOut(t) ==
  /\ pc[t] = "poll"
  /\ flock[opened[t]] # Nobody
  /\ opened' = [opened EXCEPT ![t] = NoFile]
  /\ guard' = [guard EXCEPT ![ProcOf[t]] = Nobody]
  /\ Goto(t, "idle")
  /\ UNCHANGED <<depth, handle, flock, uses, answer, crashes>>

-----------------------------------------------------------------------------
(* release_gpu_resource_lock.                                              *)

CallRelease(t) ==
  /\ pc[t] = "idle"
  /\ uses[ProcOf[t]] > 0
  /\ uses' = [uses EXCEPT ![ProcOf[t]] = @ - 1]
  /\ Goto(t, "release")
  /\ UNCHANGED <<guard, depth, handle, opened, flock, answer, crashes>>

\* Mutant: every release closes the file.
ReleaseCloses(t) ==
  LET p == ProcOf[t] IN
  /\ pc[t] = "release"
  /\ guard[p] = Nobody
  /\ depth' = [depth EXCEPT ![p] = IF @ <= 0 THEN @ ELSE @ - 1]
  /\ handle' = [handle EXCEPT ![p] = NoFile]
  /\ flock'  = [f \in Files |-> IF handle[p] = f THEN Nobody ELSE flock[f]]
  /\ Goto(t, "idle")
  /\ UNCHANGED <<guard, opened, uses, answer, crashes>>

\* One level down; the last level unlocks and closes the file.
Release(t) ==
  LET p == ProcOf[t] IN
  /\ pc[t] = "release"
  /\ guard[p] = Nobody
  /\ depth' = [depth EXCEPT ![p] = IF @ <= 0 THEN @ ELSE @ - 1]
  /\ IF depth[p] = 1
     THEN /\ handle' = [handle EXCEPT ![p] = NoFile]
          /\ flock'  = [f \in Files |-> IF handle[p] = f THEN Nobody ELSE flock[f]]
     ELSE UNCHANGED <<handle, flock>>
  /\ Goto(t, "idle")
  /\ UNCHANGED <<guard, opened, uses, answer, crashes>>

-----------------------------------------------------------------------------
(* gpu_resource_lock_held_by_other_process.                                *)

\* Only the depth is read under _guard; a process without a lock then tries a
\* file through an open file of its own.
Probe(t) ==
  LET p == ProcOf[t] IN
  /\ pc[t] = "idle"
  /\ guard[p] = Nobody
  /\ IF depth[p] > 0
     THEN /\ answer' = [answer EXCEPT ![t] = "no"]
          /\ UNCHANGED pc
     ELSE /\ Goto(t, "try")
          /\ UNCHANGED answer
  /\ UNCHANGED <<guard, depth, handle, opened, flock, uses, crashes>>

\* The lock of f is free: the probe takes it for a moment.
TryTakes(t, f) ==
  /\ flock[f] = Nobody
  /\ flock'  = [flock  EXCEPT ![f] = t]
  /\ opened' = [opened EXCEPT ![t] = f]
  /\ Goto(t, "untry")
  /\ UNCHANGED answer

\* Mutant: a refused try does not count as another holder.
ProbeTryMissesHolder(t) ==
  /\ pc[t] = "try"
  /\ \E f \in Files :
       \/ TryTakes(t, f)
       \/ /\ flock[f] # Nobody
          /\ opened' = [opened EXCEPT ![t] = f]
          /\ Goto(t, "untry")
          /\ UNCHANGED <<flock, answer>>
  /\ UNCHANGED <<guard, depth, handle, uses, crashes>>

\* The probe, too, falls back to the file in the temporary directory, and
\* raises where it cannot open that one.
ProbeTry(t) ==
  /\ pc[t] = "try"
  /\ \/ \E f \in Files :
          \/ TryTakes(t, f)
          \/ /\ flock[f] # Nobody
             /\ answer' = [answer EXCEPT ![t] = "yes"]
             /\ Goto(t, "idle")
             /\ UNCHANGED <<opened, flock>>
     \/ /\ Goto(t, "idle")
        /\ UNCHANGED <<opened, flock, answer>>
  /\ UNCHANGED <<guard, depth, handle, uses, crashes>>

ProbeUnlock(t) ==
  /\ pc[t] = "untry"
  /\ flock'  = [flock  EXCEPT ![opened[t]] = Nobody]
  /\ opened' = [opened EXCEPT ![t] = NoFile]
  /\ answer' = [answer EXCEPT ![t] = "no"]
  /\ Goto(t, "idle")
  /\ UNCHANGED <<guard, depth, handle, uses, crashes>>

-----------------------------------------------------------------------------

\* The process dies, the kernel closes its files, and it is started again.
Crash(p) ==
  /\ crashes < MaxCrashes
  /\ crashes' = crashes + 1
  /\ guard'  = [guard EXCEPT ![p] = Nobody]
  /\ depth'  = [depth EXCEPT ![p] = 0]
  /\ uses'   = [uses  EXCEPT ![p] = 0]
  /\ handle' = [handle EXCEPT ![p] = NoFile]
  /\ opened' = [t \in Threads |-> IF ProcOf[t] = p THEN NoFile ELSE opened[t]]
  /\ flock'  = [f \in Files |->
                 IF flock[f] = p \/ (flock[f] \in Threads /\ ProcOf[flock[f]] = p)
                 THEN Nobody ELSE flock[f]]
  /\ pc'     = [t \in Threads |-> IF ProcOf[t] = p THEN "idle" ELSE pc[t]]
  /\ answer' = [t \in Threads |-> IF ProcOf[t] = p THEN "none" ELSE answer[t]]

\* A call that has begun goes on.
Step(t) ==
  \/ EnterAcquire(t) \/ Poll(t) \/ TimeOut(t)
  \/ Release(t)
  \/ ProbeTry(t) \/ ProbeUnlock(t)

Next ==
  \/ \E t \in Threads : CallAcquire(t) \/ CallRelease(t) \/ Probe(t) \/ Step(t)
  \/ \E p \in Procs : Crash(p)

\* Every thread inside a call keeps running, and whoever waits for _guard gets
\* it some time: the waiters of a Python lock queue in the operating system.
\* Nobody promises to release what is in use.
Fairness == \A t \in Threads : SF_vars(Step(t))

Spec     == Init /\ [][Next]_vars
FairSpec == Spec /\ Fairness

-----------------------------------------------------------------------------
(* Properties.                                                             *)

\* Types of all variables.
TypeOK ==
  /\ guard \in [Procs -> Threads \union {Nobody}]
  /\ depth \in [Procs -> Nat]
  /\ handle \in [Procs -> Files \union {NoFile}]
  /\ opened \in [Threads -> Files \union {NoFile}]
  /\ flock \in [Files -> Threads \union Procs \union {Nobody}]
  /\ pc \in [Threads -> {"idle", "acquire", "poll", "release", "try", "untry"}]
  /\ uses \in [Procs -> Nat]
  /\ answer \in [Threads -> {"none", "yes", "no"}]
  /\ crashes \in 0..MaxCrashes

\* While anything in a process uses the GPU, the lock of the file the process
\* opened is its own, whatever other threads release, time out or probe at the
\* same time.  Two processes therefore use the GPU together only if one of them
\* could not open the shared file and locked the one in the temporary directory.
UseIsLocked ==
  \A p \in Procs : uses[p] > 0 =>
    depth[p] > 0 /\ handle[p] \in Files /\ flock[handle[p]] = p

\* The depth counts every use that has not been given back and every release
\* that has not reached the guard, so the file is unlocked by the last one and
\* by no other.
DepthCounts ==
  \A p \in Procs :
    depth[p] = uses[p] + Cardinality({t \in Threads : ProcOf[t] = p /\ pc[t] = "release"})

\* The file a probe's answer is about: the one it could open, or the one its
\* own process has locked.
Looked(t) == IF pc[t] = "untry" THEN opened[t] ELSE handle[ProcOf[t]]

\* A probe that answers no has seen a moment without another holder of the file
\* it looked at.  A holder of the other file it does not see: where only one of
\* the two processes could open the shared file, no is answered beside a task
\* that runs.
NoMeansFree ==
  [][\A t \in Threads : answer[t] # "no" /\ answer'[t] = "no"
       => \A q \in Procs \ {ProcOf[t]} : handle[q] # Looked(t)]_vars

\* A thread that waits for the guard or for the file gets out of the call,
\* with the lock or with TimeoutError, also when the holder never releases.
CallsReturn == \A t \in Threads : pc[t] # "idle" ~> pc[t] = "idle"

\* What each process holds through a file.
HeldThrough(f) == [p \in Procs |-> IF handle[p] = f THEN depth[p] ELSE 0]

\* The lock of each file with the depths counted on it implements an exclusive
\* lock of its own: one for the processes that can open the shared file, and one
\* for those that cannot.  The two do not exclude each other.
Shared == INSTANCE ExclusiveLock WITH held <- HeldThrough("shared")
Temp   == INSTANCE ExclusiveLock WITH held <- HeldThrough("temp")
ImplementsExclusiveLock == Shared!ELSpec /\ Temp!ELSpec

=============================================================================
