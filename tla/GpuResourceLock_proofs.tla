----------------------- MODULE GpuResourceLock_proofs -------------------------
(***************************************************************************)
(* Theorems about GpuResourceLock for any number of processes and threads. *)
(*                                                                         *)
(* The inductive invariant adds three facts to the checked properties: a   *)
(* process has a _handle exactly while its depth is positive, the lock of a*)
(* file belongs to the process whose _handle it is or to the thread whose  *)
(* probe has it, and _guard is kept across steps only by the thread that   *)
(* polls, at depth zero.                                                   *)
(***************************************************************************)
EXTENDS GpuResourceLock, TLAPS, FiniteSetTheorems

Releasing(p) == {t \in Threads : ProcOf[t] = p /\ pc[t] = "release"}

FileOwner ==
  /\ \A p \in Procs : (depth[p] > 0) <=> (handle[p] # NoFile)
  /\ \A p \in Procs, f \in Files : (handle[p] = f) <=> (flock[f] = p)
  /\ \A t \in Threads : (pc[t] \in {"poll", "untry"}) <=> (opened[t] # NoFile)
  /\ \A t \in Threads, f \in Files :
       (pc[t] = "untry" /\ opened[t] = f) <=> (flock[f] = t)

GuardKept ==
  /\ \A t \in Threads : pc[t] = "poll" => guard[ProcOf[t]] = t /\ depth[ProcOf[t]] = 0
  /\ \A p \in Procs : guard[p] # Nobody =>
       guard[p] \in Threads /\ ProcOf[guard[p]] = p /\ pc[guard[p]] = "poll"

Counted ==
  \A p \in Procs : depth[p] = uses[p] + Cardinality(Releasing(p))

IInv == TypeOK /\ FileOwner /\ GuardKept /\ Counted

-----------------------------------------------------------------------------
(* How the set of releasing threads changes.                               *)

\* The releasing threads of a process are finitely many.
LEMMA ReleasingFinite ==
  ASSUME NEW p \in Procs
  PROVE  IsFiniteSet(Releasing(p)) /\ Cardinality(Releasing(p)) \in Nat
  <1>1. Releasing(p) \subseteq Threads
    BY DEF Releasing
  <1> QED
    BY <1>1, ConstantsAssumption, FS_Subset, FS_CardinalityType

\* A thread that calls release is one more.
LEMMA ReleasingGains ==
  ASSUME TypeOK, NEW t \in Threads, pc[t] = "idle",
         pc' = [pc EXCEPT ![t] = "release"], NEW p \in Procs
  PROVE  Cardinality(Releasing(p)') =
           Cardinality(Releasing(p)) + (IF ProcOf[t] = p THEN 1 ELSE 0)
  <1>1. CASE ProcOf[t] = p
    <2>1. Releasing(p)' = Releasing(p) \union {t} /\ t \notin Releasing(p)
      BY <1>1 DEF TypeOK, Releasing
    <2> QED
      BY <1>1, <2>1, ReleasingFinite, FS_AddElement
  <1>2. CASE ProcOf[t] # p
    <2>1. Releasing(p)' = Releasing(p)
      BY <1>2 DEF TypeOK, Releasing
    <2> QED
      BY <1>2, <2>1, ReleasingFinite
  <1> QED
    BY <1>1, <1>2

\* A thread whose release is over is one less.
LEMMA ReleasingLoses ==
  ASSUME TypeOK, NEW t \in Threads, pc[t] = "release",
         pc' = [pc EXCEPT ![t] = "idle"], NEW p \in Procs
  PROVE  /\ ProcOf[t] = p => Cardinality(Releasing(p)) >= 1
         /\ Cardinality(Releasing(p)') =
              Cardinality(Releasing(p)) - (IF ProcOf[t] = p THEN 1 ELSE 0)
  <1>1. CASE ProcOf[t] = p
    <2>1. Releasing(p)' = Releasing(p) \ {t} /\ t \in Releasing(p)
      BY <1>1 DEF TypeOK, Releasing
    <2>2. Cardinality(Releasing(p)') = Cardinality(Releasing(p)) - 1
      BY <2>1, ReleasingFinite, FS_RemoveElement
    <2>3. IsFiniteSet(Releasing(p)') /\ Cardinality(Releasing(p)') \in Nat
      BY <2>1, ReleasingFinite, FS_RemoveElement, FS_CardinalityType
    <2> QED
      BY <1>1, <2>2, <2>3, ReleasingFinite
  <1>2. CASE ProcOf[t] # p
    <2>1. Releasing(p)' = Releasing(p)
      BY <1>2 DEF TypeOK, Releasing
    <2> QED
      BY <1>2, <2>1, ReleasingFinite
  <1> QED
    BY <1>1, <1>2

\* Other moves of one thread do not change it.
LEMMA ReleasingKept ==
  ASSUME TypeOK, NEW t \in Threads, NEW where, pc[t] # "release",
         where # "release", pc' = [pc EXCEPT ![t] = where], NEW p \in Procs
  PROVE  Releasing(p)' = Releasing(p)
  BY DEF TypeOK, Releasing

-----------------------------------------------------------------------------

\* The initial states satisfy the inductive invariant.
LEMMA InitInv == Init => IInv
  <1> SUFFICES ASSUME Init PROVE IInv
    OBVIOUS
  <1>1. TypeOK /\ FileOwner /\ GuardKept
    BY ConstantsAssumption, NobodyAssumption
    DEF Init, TypeOK, FileOwner, GuardKept, Files, NoFile
  <1>2. ASSUME NEW p \in Procs PROVE Cardinality(Releasing(p)) = 0
    <2>1. Releasing(p) = {}
      BY DEF Init, Releasing
    <2> QED
      BY <2>1, FS_EmptySet
  <1>3. Counted
    BY <1>2 DEF Init, Counted
  <1> QED
    BY <1>1, <1>3 DEF IInv

\* Every step keeps the inductive invariant.
LEMMA NextInv == IInv /\ [Next]_vars => IInv'
  <1> SUFFICES ASSUME IInv, [Next]_vars PROVE IInv'
    OBVIOUS
  <1> USE ConstantsAssumption, NobodyAssumption DEF Goto, Files, NoFile
  <1>1. ASSUME NEW t \in Threads, CallAcquire(t) PROVE IInv'
    <2>1. (TypeOK /\ FileOwner /\ GuardKept)'
      BY <1>1 DEF CallAcquire, IInv, TypeOK, FileOwner, GuardKept
    <2>2. \A p \in Procs : Releasing(p)' = Releasing(p)
      BY <1>1, ReleasingKept DEF CallAcquire, IInv
    <2> QED
      BY <1>1, <2>1, <2>2 DEF CallAcquire, IInv, Counted
  <1>2. ASSUME NEW t \in Threads, EnterAcquire(t) PROVE IInv'
    <2>1. (TypeOK /\ FileOwner /\ GuardKept)'
      <3> USE DEF IInv, TypeOK
      <3>1. CASE CountUp(t)
        <4>1. TypeOK'
          BY <1>2, <3>1 DEF EnterAcquire, CountUp
        <4>2. FileOwner'
          BY <1>2, <3>1 DEF EnterAcquire, CountUp, FileOwner
        <4>3. GuardKept'
          BY <1>2, <3>1 DEF EnterAcquire, CountUp, GuardKept
        <4> QED
          BY <4>1, <4>2, <4>3
      <3>2. CASE OpenLockFile(t)
        <4>1. TypeOK'
          BY <1>2, <3>2 DEF EnterAcquire, OpenLockFile
        <4>2. FileOwner'
          BY <1>2, <3>2 DEF EnterAcquire, OpenLockFile, FileOwner
        <4>3. GuardKept'
          BY <1>2, <3>2 DEF EnterAcquire, OpenLockFile, GuardKept
        <4> QED
          BY <4>1, <4>2, <4>3
      <3>3. CASE OpenFails(t)
        BY <1>2, <3>3 DEF EnterAcquire, OpenFails, FileOwner, GuardKept
      <3> QED
        BY <1>2, <3>1, <3>2, <3>3 DEF EnterAcquire
    <2>2. \A p \in Procs : Releasing(p)' = Releasing(p)
      BY <1>2, ReleasingKept DEF EnterAcquire, CountUp, OpenLockFile, OpenFails, IInv
    <2>3. Counted'
      BY <1>2, <2>2, ReleasingFinite
      DEF EnterAcquire, CountUp, OpenLockFile, OpenFails, IInv, TypeOK, Counted
    <2> QED
      BY <2>1, <2>3 DEF IInv
  <1>3. ASSUME NEW t \in Threads, Poll(t) PROVE IInv'
    <2>1. (TypeOK /\ FileOwner /\ GuardKept)'
      BY <1>3 DEF Poll, IInv, TypeOK, FileOwner, GuardKept
    <2>2. \A p \in Procs : Releasing(p)' = Releasing(p)
      BY <1>3, ReleasingKept DEF Poll, IInv
    <2>3. Counted'
      BY <1>3, <2>2, ReleasingFinite DEF Poll, IInv, TypeOK, Counted
    <2> QED
      BY <2>1, <2>3 DEF IInv
  <1>4. ASSUME NEW t \in Threads, TimeOut(t) PROVE IInv'
    <2>1. (TypeOK /\ FileOwner /\ GuardKept)'
      BY <1>4 DEF TimeOut, IInv, TypeOK, FileOwner, GuardKept
    <2>2. \A p \in Procs : Releasing(p)' = Releasing(p)
      BY <1>4, ReleasingKept DEF TimeOut, IInv
    <2> QED
      BY <1>4, <2>1, <2>2 DEF TimeOut, IInv, Counted
  <1>5. ASSUME NEW t \in Threads, CallRelease(t) PROVE IInv'
    <2>1. (TypeOK /\ FileOwner /\ GuardKept)'
      BY <1>5 DEF CallRelease, IInv, TypeOK, FileOwner, GuardKept
    <2>2. \A p \in Procs : Cardinality(Releasing(p)') =
            Cardinality(Releasing(p)) + (IF ProcOf[t] = p THEN 1 ELSE 0)
      BY <1>5, ReleasingGains DEF CallRelease, IInv
    <2>3. Counted'
      BY <1>5, <2>2, ReleasingFinite
      DEF CallRelease, IInv, TypeOK, Counted
    <2> QED
      BY <2>1, <2>3 DEF IInv
  <1>6. ASSUME NEW t \in Threads, Release(t) PROVE IInv'
    <2>1. \A p \in Procs :
            /\ ProcOf[t] = p => Cardinality(Releasing(p)) >= 1
            /\ Cardinality(Releasing(p)') =
                 Cardinality(Releasing(p)) - (IF ProcOf[t] = p THEN 1 ELSE 0)
      BY <1>6, ReleasingLoses DEF Release, IInv
    <2>2. depth[ProcOf[t]] > 0
      BY <2>1, ReleasingFinite DEF IInv, TypeOK, Counted
    <2>3. TypeOK'
      BY <1>6, <2>2 DEF Release, IInv, TypeOK
    <2>4. FileOwner'
      BY <1>6, <2>2 DEF Release, IInv, TypeOK, FileOwner
    <2>5. GuardKept'
      BY <1>6, <2>2 DEF Release, IInv, TypeOK, GuardKept
    <2>6. Counted'
      BY <1>6, <2>1, <2>2, ReleasingFinite
      DEF Release, IInv, TypeOK, Counted
    <2> QED
      BY <2>3, <2>4, <2>5, <2>6 DEF IInv
  <1>7. ASSUME NEW t \in Threads, Probe(t) PROVE IInv'
    <2>1. (TypeOK /\ FileOwner /\ GuardKept)'
      BY <1>7 DEF Probe, IInv, TypeOK, FileOwner, GuardKept
    <2>2. \A p \in Procs : Releasing(p)' = Releasing(p)
      BY <1>7 DEF Probe, IInv, TypeOK, Releasing
    <2> QED
      BY <1>7, <2>1, <2>2 DEF Probe, IInv, Counted
  <1>8. ASSUME NEW t \in Threads, ProbeTry(t) PROVE IInv'
    <2>1. (TypeOK /\ FileOwner /\ GuardKept)'
      <3> USE DEF IInv, TypeOK
      <3>1. ASSUME NEW f \in Files, TryTakes(t, f)
            PROVE  (TypeOK /\ FileOwner /\ GuardKept)'
        <4>1. TypeOK'
          BY <1>8, <3>1 DEF ProbeTry, TryTakes
        <4>2. FileOwner'
          BY <1>8, <3>1 DEF ProbeTry, TryTakes, FileOwner
        <4>3. GuardKept'
          BY <1>8, <3>1 DEF ProbeTry, TryTakes, GuardKept
        <4> QED
          BY <4>1, <4>2, <4>3
      <3>2. CASE UNCHANGED <<opened, flock>> /\ pc' = [pc EXCEPT ![t] = "idle"]
                 /\ answer' \in [Threads -> {"none", "yes", "no"}]
        BY <1>8, <3>2 DEF ProbeTry, FileOwner, GuardKept
      <3>3. \/ \E f \in Files : TryTakes(t, f)
            \/ /\ UNCHANGED <<opened, flock>> /\ pc' = [pc EXCEPT ![t] = "idle"]
               /\ answer' \in [Threads -> {"none", "yes", "no"}]
        BY <1>8 DEF ProbeTry
      <3> QED
        BY <3>1, <3>2, <3>3
    <2>2. \A p \in Procs : Releasing(p)' = Releasing(p)
      BY <1>8 DEF ProbeTry, TryTakes, IInv, TypeOK, Releasing
    <2> QED
      BY <1>8, <2>1, <2>2 DEF ProbeTry, TryTakes, IInv, Counted
  <1>9. ASSUME NEW t \in Threads, ProbeUnlock(t) PROVE IInv'
    <2>1. (TypeOK /\ FileOwner /\ GuardKept)'
      BY <1>9 DEF ProbeUnlock, IInv, TypeOK, FileOwner, GuardKept
    <2>2. \A p \in Procs : Releasing(p)' = Releasing(p)
      BY <1>9, ReleasingKept DEF ProbeUnlock, IInv
    <2> QED
      BY <1>9, <2>1, <2>2 DEF ProbeUnlock, IInv, Counted
  <1>10. ASSUME NEW p \in Procs, Crash(p) PROVE IInv'
    <2>1. (TypeOK /\ FileOwner /\ GuardKept)'
      <3>1. TypeOK'
        BY <1>10 DEF Crash, IInv, TypeOK
      <3>2. FileOwner'
        BY <1>10 DEF Crash, IInv, TypeOK, FileOwner
      <3>3. GuardKept'
        BY <1>10 DEF Crash, IInv, TypeOK, GuardKept
      <3> QED
        BY <3>1, <3>2, <3>3
    <2>2. Releasing(p)' = {}
      BY <1>10 DEF Crash, Releasing
    <2>3. \A q \in Procs \ {p} : Releasing(q)' = Releasing(q)
      BY <1>10 DEF Crash, IInv, TypeOK, Releasing
    <2>4. Cardinality(Releasing(p)') = 0
      BY <2>2, FS_EmptySet
    <2>5. Counted'
      BY <1>10, <2>3, <2>4 DEF Crash, IInv, TypeOK, Counted
    <2> QED
      BY <2>1, <2>5 DEF IInv
  <1>11. CASE UNCHANGED vars
    <2>1. \A p \in Procs : Releasing(p)' = Releasing(p)
      BY <1>11 DEF vars, Releasing
    <2> QED
      BY <1>11, <2>1 DEF vars, IInv, TypeOK, FileOwner, GuardKept, Counted
  <1> QED
    BY <1>1, <1>2, <1>3, <1>4, <1>5, <1>6, <1>7, <1>8, <1>9, <1>10, <1>11
    DEF Next, Step

\* The invariant holds in every reachable state.
LEMMA Inductive == Spec => []IInv
  BY InitInv, NextInv, PTL DEF Spec

-----------------------------------------------------------------------------

\* Every variable of the lock keeps its type.
THEOREM TypeCorrect == Spec => []TypeOK
  <1>1. IInv => TypeOK
    BY DEF IInv
  <1> QED
    BY <1>1, Inductive, PTL

\* The depth counts the uses and the releases under way.
THEOREM DepthIsCount == Spec => []DepthCounts
  <1>1. IInv => DepthCounts
    BY DEF IInv, Counted, DepthCounts, Releasing
  <1> QED
    BY <1>1, Inductive, PTL

\* Whoever uses the GPU has the lock of the file it opened, in every interleaving.
THEOREM UseLocked == Spec => []UseIsLocked
  <1>1. IInv => UseIsLocked
    <2> SUFFICES ASSUME IInv, NEW p \in Procs, uses[p] > 0
                 PROVE  depth[p] > 0 /\ handle[p] \in Files /\ flock[handle[p]] = p
      BY DEF UseIsLocked
    <2>1. depth[p] > 0
      BY ReleasingFinite DEF IInv, TypeOK, Counted
    <2> QED
      BY <2>1 DEF IInv, TypeOK, FileOwner
  <1> QED
    BY <1>1, Inductive, PTL

\* A probe answers no only when no other process has the file it looked at.
THEOREM NoIsFree == Spec => NoMeansFree
  <1>1. IInv /\ [Next]_vars =>
          [\A t \in Threads : answer[t] # "no" /\ answer'[t] = "no"
             => \A q \in Procs \ {ProcOf[t]} : handle[q] # Looked(t)]_vars
    <2> SUFFICES ASSUME IInv, Next, NEW t \in Threads,
                        answer[t] # "no", answer'[t] = "no",
                        NEW q \in Procs \ {ProcOf[t]}
                 PROVE  handle[q] # Looked(t)
      BY DEF vars
    <2> USE ConstantsAssumption, NobodyAssumption DEF Goto, Files, NoFile
    <2>1. ASSUME NEW p \in Procs, Crash(p) PROVE FALSE
      BY <2>1 DEF Crash, IInv, TypeOK
    <2>2. ASSUME NEW u \in Threads, CallAcquire(u) \/ CallRelease(u) \/ EnterAcquire(u)
                                   \/ Poll(u) \/ TimeOut(u) \/ Release(u)
          PROVE  FALSE
      BY <2>2 DEF CallAcquire, CallRelease, EnterAcquire, Poll, TimeOut, Release
    <2>3. ASSUME NEW u \in Threads, ProbeTry(u) PROVE FALSE
      BY <2>3 DEF ProbeTry, TryTakes, IInv, TypeOK
    <2>4. ASSUME NEW u \in Threads, Probe(u) \/ ProbeUnlock(u)
          PROVE  u = t /\ (Probe(t) \/ ProbeUnlock(t))
      BY <2>4 DEF Probe, ProbeUnlock, IInv, TypeOK
    <2>5. Probe(t) \/ ProbeUnlock(t)
      BY <2>1, <2>2, <2>3, <2>4 DEF Next, Step
    <2>6. CASE ProbeUnlock(t)
      <3>1. opened[t] \in Files /\ flock[opened[t]] = t
        BY <2>6 DEF ProbeUnlock, IInv, TypeOK, FileOwner
      <3>2. handle[q] # opened[t]
        BY <3>1 DEF IInv, TypeOK, FileOwner
      <3> QED
        BY <2>6, <3>2 DEF ProbeUnlock, Looked
    <2>7. CASE Probe(t)
      <3>1. pc[t] = "idle" /\ depth[ProcOf[t]] > 0
        BY <2>7 DEF Probe
      <3>2. handle[ProcOf[t]] \in Files /\ flock[handle[ProcOf[t]]] = ProcOf[t]
        BY <3>1 DEF IInv, TypeOK, FileOwner
      <3>3. handle[q] # handle[ProcOf[t]]
        BY <3>2 DEF IInv, TypeOK, FileOwner
      <3> QED
        BY <3>1, <3>3 DEF Looked
    <2> QED
      BY <2>5, <2>6, <2>7
  <1> QED
    BY <1>1, Inductive, PTL DEF Spec, NoMeansFree

-----------------------------------------------------------------------------
(* The refinement, one file at a time.                                     *)

TakesThrough(f, p) ==
  /\ \A q \in Procs \ {p} : HeldThrough(f)[q] = 0
  /\ HeldThrough(f)' = [HeldThrough(f) EXCEPT ![p] = @ + 1]

GivesThrough(f, p) ==
  /\ HeldThrough(f)[p] > 0
  /\ HeldThrough(f)' = [HeldThrough(f) EXCEPT ![p] = @ - 1]

DiesThrough(f, p) == HeldThrough(f)' = [HeldThrough(f) EXCEPT ![p] = 0]

\* A process that has the lock of a file is the only one that holds through it.
LEMMA OnlyHolder ==
  ASSUME IInv, NEW f \in Files, NEW p \in Procs, flock[f] \in {p, Nobody}
  PROVE  \A q \in Procs \ {p} : HeldThrough(f)[q] = 0
  <1> SUFFICES ASSUME NEW q \in Procs \ {p} PROVE HeldThrough(f)[q] = 0
    OBVIOUS
  <1>1. handle[q] # f
    BY NobodyAssumption DEF IInv, FileOwner
  <1> QED
    BY <1>1 DEF HeldThrough

\* Every step takes, gives or ends what one process holds through a file, or
\* leaves what is held through it alone.
LEMMA HeldStep ==
  ASSUME IInv, Next, NEW f \in Files
  PROVE  \/ HeldThrough(f)' = HeldThrough(f)
         \/ \E p \in Procs : TakesThrough(f, p) \/ GivesThrough(f, p) \/ DiesThrough(f, p)
  <1> USE ConstantsAssumption, NobodyAssumption DEF Files, NoFile
  <1> USE DEF HeldThrough
  <1>1. ASSUME NEW t \in Threads, EnterAcquire(t)
        PROVE  HeldThrough(f)' = HeldThrough(f) \/ TakesThrough(f, ProcOf[t])
    <2>1. CASE CountUp(t) /\ handle[ProcOf[t]] = f
      <3>1. flock[f] = ProcOf[t]
        BY <2>1 DEF IInv, FileOwner
      <3>2. HeldThrough(f)' = [HeldThrough(f) EXCEPT ![ProcOf[t]] = @ + 1]
        BY <1>1, <2>1 DEF EnterAcquire, CountUp, IInv, TypeOK
      <3> QED
        BY <3>1, <3>2, OnlyHolder DEF TakesThrough
    <2>2. CASE CountUp(t) /\ handle[ProcOf[t]] # f
      BY <1>1, <2>2 DEF EnterAcquire, CountUp, IInv, TypeOK
    <2>3. CASE OpenLockFile(t) \/ OpenFails(t)
      BY <1>1, <2>3 DEF EnterAcquire, OpenLockFile, OpenFails
    <2> QED
      BY <1>1, <2>1, <2>2, <2>3 DEF EnterAcquire
  <1>2. ASSUME NEW t \in Threads, Poll(t)
        PROVE  HeldThrough(f)' = HeldThrough(f) \/ TakesThrough(f, ProcOf[t])
    <2>1. /\ depth[ProcOf[t]] = 0 /\ handle[ProcOf[t]] = NoFile
          /\ opened[t] \in Files
      BY <1>2 DEF Poll, IInv, TypeOK, FileOwner, GuardKept
    <2>2. CASE opened[t] = f
      <3>1. flock[f] = Nobody
        BY <1>2, <2>2 DEF Poll
      <3>2. HeldThrough(f)' = [HeldThrough(f) EXCEPT ![ProcOf[t]] = @ + 1]
        BY <1>2, <2>1, <2>2 DEF Poll, IInv, TypeOK
      <3> QED
        BY <3>1, <3>2, OnlyHolder DEF TakesThrough
    <2>3. CASE opened[t] # f
      BY <1>2, <2>1, <2>3 DEF Poll, IInv, TypeOK
    <2> QED
      BY <2>2, <2>3
  <1>3. ASSUME NEW t \in Threads, Release(t)
        PROVE  HeldThrough(f)' = HeldThrough(f) \/ GivesThrough(f, ProcOf[t])
    <2>1. CASE handle[ProcOf[t]] # f
      BY <1>3, <2>1 DEF Release, IInv, TypeOK
    <2>2. CASE handle[ProcOf[t]] = f
      <3>1. depth[ProcOf[t]] > 0 /\ depth[ProcOf[t]] \in Nat
        BY <2>2 DEF IInv, TypeOK, FileOwner
      <3>2. CASE depth[ProcOf[t]] = 1
        BY <1>3, <2>2, <3>1, <3>2 DEF Release, GivesThrough, IInv, TypeOK
      <3>3. CASE depth[ProcOf[t]] # 1
        BY <1>3, <2>2, <3>1, <3>3 DEF Release, GivesThrough, IInv, TypeOK
      <3> QED
        BY <3>2, <3>3
    <2> QED
      BY <2>1, <2>2
  <1>4. ASSUME NEW p \in Procs, Crash(p) PROVE DiesThrough(f, p)
    BY <1>4 DEF Crash, DiesThrough, IInv, TypeOK
  <1>5. ASSUME NEW t \in Threads,
               CallAcquire(t) \/ TimeOut(t) \/ CallRelease(t) \/ Probe(t)
                 \/ ProbeTry(t) \/ ProbeUnlock(t)
        PROVE  HeldThrough(f)' = HeldThrough(f)
    BY <1>5 DEF CallAcquire, TimeOut, CallRelease, Probe, ProbeTry, ProbeUnlock
  <1> QED
    BY <1>1, <1>2, <1>3, <1>4, <1>5 DEF Next, Step

\* The lock of each file with the depths counted on it implements an exclusive
\* lock: every step takes, gives, or is one the abstract lock does not see.
THEOREM Refines == Spec => ImplementsExclusiveLock
  <1>1. ASSUME Init PROVE Shared!ELInit /\ Temp!ELInit
    BY <1>1 DEF Init, Shared!ELInit, Temp!ELInit, HeldThrough, NoFile
  <1>2. IInv /\ [Next]_vars => [Shared!ELNext]_(HeldThrough("shared"))
    <2> SUFFICES ASSUME IInv, Next, HeldThrough("shared")' # HeldThrough("shared")
                 PROVE  Shared!ELNext
      BY DEF vars, HeldThrough
    <2>1. \E p \in Procs : TakesThrough("shared", p) \/ GivesThrough("shared", p)
                             \/ DiesThrough("shared", p)
      BY HeldStep DEF Files
    <2> QED
      BY <2>1 DEF Shared!ELNext, Shared!Take, Shared!Give, Shared!Die,
                  TakesThrough, GivesThrough, DiesThrough
  <1>3. IInv /\ [Next]_vars => [Temp!ELNext]_(HeldThrough("temp"))
    <2> SUFFICES ASSUME IInv, Next, HeldThrough("temp")' # HeldThrough("temp")
                 PROVE  Temp!ELNext
      BY DEF vars, HeldThrough
    <2>1. \E p \in Procs : TakesThrough("temp", p) \/ GivesThrough("temp", p)
                             \/ DiesThrough("temp", p)
      BY HeldStep DEF Files
    <2> QED
      BY <2>1 DEF Temp!ELNext, Temp!Take, Temp!Give, Temp!Die,
                  TakesThrough, GivesThrough, DiesThrough
  <1> QED
    BY <1>1, <1>2, <1>3, Inductive, PTL
    DEF Spec, ImplementsExclusiveLock, Shared!ELSpec, Temp!ELSpec

\* No guard stays behind (CallsReturn could not hold otherwise): a guard that is
\* kept belongs to a thread of its process that polls, which takes the file or
\* times out whoever holds it, and a process that polls has no use to wait for.
THEOREM GuardIsKept == Spec => []GuardKept
  BY Inductive, PTL DEF IInv

=============================================================================
