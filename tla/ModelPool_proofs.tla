---------------------------- MODULE ModelPool_proofs --------------------------
(***************************************************************************)
(* Theorems about ModelPool for any number of requests, threads that       *)
(* unload, models and loads.                                               *)
(*                                                                         *)
(* The inductive invariant says where a thread may go next (Flow), who is  *)
(* inside the load lock (LoaderHas) and that the pool is empty while it    *)
(* loads (Emptied), which thread has a detached handle (Detaching), that   *)
(* handles are numbered in the order of their loads (Numbered), who has    *)
(* the llama lock (LlamaHas), and that whoever generates uses the handle   *)
(* that the pool offers (UsersHave).                                       *)
(***************************************************************************)
EXTENDS ModelPool, TLAPS, FiniteSetTheorems

Release == {"wait", "clear", "clearBusy", "close", "drop"}
InLoad  == {"fits", "load", "install", "discarded"}

Inside(t) ==
  pc[t] \in InLoad \/ (pc[t] \in Release /\ next[t] \in {"fits", "discarded"})

Flow ==
  /\ \A t \in Requests :
       /\ pc[t] = "start" => next[t] = "done"
       /\ pc[t] = "begin" => next[t] = "begin"
       /\ pc[t] \in {"llama", "switch", "locked", "use", "end"} \union InLoad =>
            next[t] \in {"fits", "switch", "discarded"}
       /\ pc[t] \in {"wait", "clear", "clearBusy"} => next[t] \in {"begin", "fits"}
       /\ pc[t] \in {"close", "drop"} =>
            next[t] \in {"begin", "fits", "switch", "discarded", "give"}
       /\ pc[t] \in {"unload", "give"} => next[t] = "give"
       /\ pc[t] # "await"
  /\ \A t \in Freers :
       /\ next[t] \in {"done", "await"}
       /\ pc[t] \in {"start", "unload", "await", "done"} \union Release

LoaderHas == \A t \in Threads : Inside(t) <=> loader = t

Emptied ==
  \A t \in Threads :
    Inside(t) /\ pc[t] \in InLoad \union {"close", "drop"} => active = None

Detaching ==
  \A t \in Threads :
    /\ (pc[t] \in {"close", "install"}) <=> (detached[t] # None)
    /\ pc[t] = "install" => detached[t][1] = want[t]

Numbered ==
  /\ active # None => active[2] <= loads
  /\ \A t \in Threads : detached[t] # None => detached[t][2] <= loads
  /\ \A h \in closed : h[2] <= loads

LlamaHas ==
  \A t \in Requests :
    want[t] \in LlamaModels /\ t \in Referring /\ pc[t] # "llama" => llama = t

UsersHave ==
  ~slipped =>
    /\ \A t \in Requests : pc[t] = "use" =>
         active # None /\ held[t] = active /\ active[1] = want[t]
    /\ \A t \in Threads : pc[t] = "clear" => refs = 0

\* The flags' part of the types, which the provers want for itself.
Flags == pending \in BOOLEAN /\ resident \in BOOLEAN /\ slipped \in BOOLEAN

IInv ==
  /\ TypeOK /\ Accounting /\ Flow
  /\ LoaderHas /\ Emptied
  /\ Detaching /\ Numbered /\ OffersOpen
  /\ LlamaHas /\ UsersHave

-----------------------------------------------------------------------------
(* Handles and counts.                                                     *)

\* A handle is a model and a number, and never the empty slot.
LEMMA HandleParts ==
  /\ None \notin Handles
  /\ \A h \in Handles : h[1] \in Models /\ h[2] \in 1 .. MaxLoads
  /\ \A m \in Models, n \in 1 .. MaxLoads :
       <<m, n>> \in Handles /\ <<m, n>>[1] = m /\ <<m, n>>[2] = n
  BY DEF Handles, None

\* Requests with a lease, and with a level of the GPU lock, can be counted.
LEMMA Counts ==
  /\ IsFiniteSet(Referring) /\ Cardinality(Referring) \in Nat
  /\ IsFiniteSet(Locking)   /\ Cardinality(Locking) \in Nat
  <1>1. Referring \subseteq Requests /\ Locking \subseteq Requests
    BY DEF Referring, Locking
  <1> QED
    BY <1>1, ConstantsAssumption, FS_Subset, FS_CardinalityType

\* The pool and its locks are empty at the start.
LEMMA InitInv == Init => IInv
  <1> SUFFICES ASSUME Init PROVE IInv
    OBVIOUS
  <1> USE ConstantsAssumption, NobodyAssumption
  <1>1. Referring = {} /\ Locking = {}
    BY DEF Init, Referring, Locking, Threads
  <1>2. Accounting
    BY <1>1, FS_EmptySet DEF Init, Accounting
  <1>3. TypeOK
    <2>1. Flags
      BY DEF Init, Flags
    <2> QED
      BY <2>1 DEF Init, TypeOK, Flags
  <1>4. Flow /\ LoaderHas /\ Emptied
    BY DEF Init, Flow, LoaderHas, Emptied, Inside, Release, InLoad, Threads
  <1>5. Detaching /\ Numbered /\ OffersOpen
    BY DEF Init, Detaching, Numbered, OffersOpen, Threads
  <1>6. LlamaHas /\ UsersHave
    BY <1>1 DEF Init, LlamaHas, UsersHave, Threads
  <1> QED
    BY <1>2, <1>3, <1>4, <1>5, <1>6 DEF IInv

\* A request with a lease is counted.
LEMMA UserCounted ==
  ASSUME IInv, NEW t \in Referring
  PROVE  refs > 0
  <1>1. Cardinality(Referring) # 0
    BY Counts, FS_EmptySet
  <1> QED
    BY <1>1, Counts DEF IInv, Accounting

\* The counts of the next state are numbers as well.
LEMMA CountsNext ==
  ASSUME Accounting'
  PROVE  refs' \in Nat /\ depth' \in Nat
  <1>1. Referring' \subseteq Requests /\ Locking' \subseteq Requests
    BY DEF Referring, Locking
  <1>2. Cardinality(Referring') \in Nat /\ Cardinality(Locking') \in Nat
    BY <1>1, ConstantsAssumption, FS_Subset, FS_CardinalityType
  <1>3. (IF resident' THEN 1 ELSE 0) \in {0, 1}
    OBVIOUS
  <1> QED
    BY <1>2, <1>3 DEF Accounting

-----------------------------------------------------------------------------
(* One lemma for each group of conjuncts of the invariant, with one step for *)
(* each action.                                                            *)

\* Every action keeps the references and the levels of the GPU lock accounted for.
LEMMA AccountingStep ==
  ASSUME IInv, [Next]_vars
  PROVE  Accounting'
  <1> USE ConstantsAssumption, NobodyAssumption, Counts DEF IInv, Goto, poolVars,
     lockVars, threadVars, handleVars, TypeOK, Flow, Release, InLoad, Threads
  <1>1. ASSUME NEW t \in Requests, PrepareForLoad(t) PROVE Accounting'
    <2>1. Referring' = Referring /\ Locking' = Locking
      BY <1>1 DEF PrepareForLoad, Referring, Locking
    <2> QED
      BY <1>1, <2>1 DEF Accounting, PrepareForLoad
  <1>2. ASSUME NEW t \in Threads, WaitIdle(t) PROVE Accounting'
    <2>1. Referring' = Referring /\ Locking' = Locking
      BY <1>2 DEF WaitIdle, Referring, Locking
    <2> QED
      BY <1>2, <2>1 DEF Accounting, WaitIdle
  <1>3. ASSUME NEW t \in Threads, ClearActive(t) PROVE Accounting'
    <2>1. Referring' = Referring /\ Locking' = Locking
      BY <1>3 DEF ClearActive, Detach, Raise, Leased, Referring, Locking
    <2> QED
      BY <1>3, <2>1 DEF Accounting, ClearActive, Detach, Raise, Leased
  <1>4. ASSUME NEW t \in Threads, CloseHandle(t) PROVE Accounting'
    <2>1. Referring' = Referring /\ Locking' = Locking
      BY <1>4 DEF CloseHandle, Referring, Locking
    <2> QED
      BY <1>4, <2>1 DEF Accounting, CloseHandle
  <1>5. ASSUME NEW t \in Threads, DropResident(t) PROVE Accounting'
    <2>1. Referring' = Referring /\ Locking' = Locking
      BY <1>5 DEF DropResident, DropResidentLock, Referring, Locking
    <2>2. CASE resident
      BY <1>5, <2>1, <2>2 DEF Accounting, DropResident, DropResidentLock
    <2>3. CASE ~resident
      BY <1>5, <2>1, <2>3 DEF Accounting, DropResident, DropResidentLock
    <2> QED
      BY <2>2, <2>3
  <1>6. ASSUME NEW t \in Threads, UnloadAll(t) PROVE Accounting'
    <2>1. Referring' = Referring /\ Locking' = Locking
      BY <1>6 DEF UnloadAll, Detach, Referring, Locking
    <2> QED
      BY <1>6, <2>1 DEF Accounting, UnloadAll, Detach
  <1>7. ASSUME NEW t \in Requests, BeginInference(t) PROVE Accounting'
    <2>1. t \notin Referring /\ t \notin Locking
      BY <1>7 DEF BeginInference, Referring, Locking
    <2>2. Referring' = Referring \union {t} /\ Locking' = Locking \union {t}
      <3>1. CASE want[t] \in LlamaModels
        BY <1>7, <3>1 DEF BeginInference, Referring, Locking
      <3>2. CASE want[t] \notin LlamaModels
        BY <1>7, <3>2 DEF BeginInference, Referring, Locking
      <3> QED
        BY <3>1, <3>2
    <2>3. /\ Cardinality(Referring') = Cardinality(Referring) + 1
          /\ Cardinality(Locking') = Cardinality(Locking) + 1
      BY <2>1, <2>2, FS_AddElement
    <2> QED
      BY <1>7, <2>3 DEF Accounting, BeginInference
  <1>8. ASSUME NEW t \in Requests, EndInference(t) PROVE Accounting'
    <2>1. t \in Referring
      BY <1>8 DEF EndInference, Referring
    <2>2. Referring' = Referring \ {t} /\ Locking' = Locking
      <3>1. CASE refs = 1 /\ pending
        BY <1>8, <3>1 DEF EndInference, Referring, Locking
      <3>2. CASE ~(refs = 1 /\ pending)
        BY <1>8, <3>2 DEF EndInference, Referring, Locking
      <3> QED
        BY <3>1, <3>2
    <2>3. Cardinality(Referring') = Cardinality(Referring) - 1
      BY <2>1, <2>2, FS_RemoveElement
    <2> QED
      BY <1>8, <2>2, <2>3 DEF Accounting, EndInference
  <1>9. ASSUME NEW t \in Requests, GiveBack(t) PROVE Accounting'
    <2>1. t \in Locking
      BY <1>9 DEF GiveBack, Locking
    <2>2. Referring' = Referring /\ Locking' = Locking \ {t}
      BY <1>9 DEF GiveBack, Referring, Locking
    <2>3. Cardinality(Locking') = Cardinality(Locking) - 1
      BY <2>1, <2>2, FS_RemoveElement
    <2> QED
      BY <1>9, <2>2, <2>3 DEF Accounting, GiveBack
  <1>10. ASSUME NEW t \in Requests, TakeLlama(t) PROVE Accounting'
    <2>1. Referring' = Referring /\ Locking' = Locking
      BY <1>10 DEF TakeLlama, Referring, Locking
    <2> QED
      BY <1>10, <2>1 DEF Accounting, TakeLlama
  <1>11. ASSUME NEW t \in Requests, CacheHit(t) PROVE Accounting'
    <2>1. Referring' = Referring /\ Locking' = Locking
      BY <1>11 DEF CacheHit, Matches, Referring, Locking
    <2> QED
      BY <1>11, <2>1 DEF Accounting, CacheHit, Matches
  <1>12. ASSUME NEW t \in Requests, CacheMiss(t) PROVE Accounting'
    <2>1. Referring' = Referring /\ Locking' = Locking
      BY <1>12 DEF CacheMiss, Referring, Locking
    <2> QED
      BY <1>12, <2>1 DEF Accounting, CacheMiss
  <1>13. ASSUME NEW t \in Requests, TakeLoadLock(t) PROVE Accounting'
    <2>1. Referring' = Referring /\ Locking' = Locking
      BY <1>13 DEF TakeLoadLock, Matches, Referring, Locking
    <2> QED
      BY <1>13, <2>1 DEF Accounting, TakeLoadLock, Matches
  <1>14. ASSUME NEW t \in Requests, CheckFits(t) PROVE Accounting'
    <2>1. Referring' = Referring /\ Locking' = Locking
      BY <1>14 DEF CheckFits, Raise, Leased, Referring, Locking
    <2>2. CASE resident
      BY <1>14, <2>1, <2>2 DEF Accounting, CheckFits, Raise, Leased
    <2>3. CASE ~resident
      BY <1>14, <2>1, <2>3 DEF Accounting, CheckFits, Raise, Leased
    <2> QED
      BY <2>2, <2>3
  <1>15. ASSUME NEW t \in Requests, LoadFails(t) PROVE Accounting'
    <2>1. Referring' = Referring /\ Locking' = Locking
      BY <1>15 DEF LoadFails, DropResidentLock, Raise, Leased, Referring, Locking
    <2>2. CASE resident
      BY <1>15, <2>1, <2>2 DEF Accounting, LoadFails, DropResidentLock, Raise,
         Leased
    <2>3. CASE ~resident
      BY <1>15, <2>1, <2>3 DEF Accounting, LoadFails, DropResidentLock, Raise,
         Leased
    <2> QED
      BY <2>2, <2>3
  <1>16. ASSUME NEW t \in Requests, LoadReturns(t) PROVE Accounting'
    <2>1. Referring' = Referring /\ Locking' = Locking
      BY <1>16 DEF LoadReturns, Referring, Locking
    <2> QED
      BY <1>16, <2>1 DEF Accounting, LoadReturns
  <1>17. ASSUME NEW t \in Requests, Install(t) PROVE Accounting'
    <2>1. Referring' = Referring /\ Locking' = Locking
      BY <1>17 DEF Install, Referring, Locking
    <2> QED
      BY <1>17, <2>1 DEF Accounting, Install
  <1>18. ASSUME NEW t \in Requests, Discarded(t) PROVE Accounting'
    <2>1. Referring' = Referring /\ Locking' = Locking
      BY <1>18 DEF Discarded, Raise, Leased, Referring, Locking
    <2> QED
      BY <1>18, <2>1 DEF Accounting, Discarded, Raise, Leased
  <1>19. ASSUME NEW t \in Requests, EndUse(t) PROVE Accounting'
    <2>1. Referring' = Referring /\ Locking' = Locking
      BY <1>19 DEF EndUse, Referring, Locking
    <2> QED
      BY <1>19, <2>1 DEF Accounting, EndUse
  <1>20. ASSUME NEW t \in Requests, ReloadLlama(t) PROVE Accounting'
    <2>1. Referring' = Referring /\ Locking' = Locking
      BY <1>20 DEF ReloadLlama, Referring, Locking
    <2> QED
      BY <1>20, <2>1 DEF Accounting, ReloadLlama
  <1>21. ASSUME NEW t \in Freers, PrepareGpuTask(t) PROVE Accounting'
    <2>1. Referring' = Referring /\ Locking' = Locking
      BY <1>21 DEF PrepareGpuTask, Referring, Locking
    <2> QED
      BY <1>21, <2>1 DEF Accounting, PrepareGpuTask
  <1>22. ASSUME NEW t \in Freers, CancelAndUnload(t) PROVE Accounting'
    <2>1. Referring' = Referring /\ Locking' = Locking
      BY <1>22 DEF CancelAndUnload, Referring, Locking
    <2> QED
      BY <1>22, <2>1 DEF Accounting, CancelAndUnload
  <1>23. ASSUME NEW t \in Freers, AwaitIdle(t) PROVE Accounting'
    <2>1. Referring' = Referring /\ Locking' = Locking
      BY <1>23 DEF AwaitIdle, Referring, Locking
    <2> QED
      BY <1>23, <2>1 DEF Accounting, AwaitIdle
  <1>24. CASE UNCHANGED vars
    BY <1>24 DEF vars, Accounting, Referring, Locking
  <1> QED
    BY <1>1, <1>2, <1>3, <1>4, <1>5, <1>6, <1>7, <1>8, <1>9, <1>10, <1>11, <1>12,
       <1>13, <1>14, <1>15, <1>16, <1>17, <1>18, <1>19, <1>20, <1>21, <1>22, <1>23,
       <1>24 DEF Next, RequestStep, FreerStep, ReleaseStep, SwitchStep

\* Every action keeps the flags Boolean.
LEMMA FlagsStep ==
  ASSUME IInv, [Next]_vars
  PROVE  Flags'
  <1> USE ConstantsAssumption, NobodyAssumption DEF IInv, Goto, poolVars, lockVars,
     threadVars, handleVars, TypeOK, Flags, Threads
  <1>1. ASSUME NEW t \in Requests, PrepareForLoad(t) PROVE Flags'
    BY <1>1 DEF PrepareForLoad
  <1>2. ASSUME NEW t \in Threads, WaitIdle(t) PROVE Flags'
    BY <1>2 DEF WaitIdle
  <1>3. ASSUME NEW t \in Threads, ClearActive(t) PROVE Flags'
    BY <1>3 DEF ClearActive, Detach, Raise, Leased
  <1>4. ASSUME NEW t \in Threads, CloseHandle(t) PROVE Flags'
    BY <1>4 DEF CloseHandle
  <1>5. ASSUME NEW t \in Threads, DropResident(t) PROVE Flags'
    BY <1>5 DEF DropResident, DropResidentLock
  <1>6. ASSUME NEW t \in Threads, UnloadAll(t) PROVE Flags'
    BY <1>6 DEF UnloadAll, Detach
  <1>7. ASSUME NEW t \in Requests, BeginInference(t) PROVE Flags'
    BY <1>7 DEF BeginInference
  <1>8. ASSUME NEW t \in Requests, EndInference(t) PROVE Flags'
    BY <1>8 DEF EndInference
  <1>9. ASSUME NEW t \in Requests, GiveBack(t) PROVE Flags'
    BY <1>9 DEF GiveBack
  <1>10. ASSUME NEW t \in Requests, TakeLlama(t) PROVE Flags'
    BY <1>10 DEF TakeLlama
  <1>11. ASSUME NEW t \in Requests, CacheHit(t) PROVE Flags'
    BY <1>11 DEF CacheHit, Matches
  <1>12. ASSUME NEW t \in Requests, CacheMiss(t) PROVE Flags'
    BY <1>12 DEF CacheMiss
  <1>13. ASSUME NEW t \in Requests, TakeLoadLock(t) PROVE Flags'
    BY <1>13 DEF TakeLoadLock, Matches
  <1>14. ASSUME NEW t \in Requests, CheckFits(t) PROVE Flags'
    BY <1>14 DEF CheckFits, Raise, Leased
  <1>15. ASSUME NEW t \in Requests, LoadFails(t) PROVE Flags'
    BY <1>15 DEF LoadFails, DropResidentLock, Raise, Leased
  <1>16. ASSUME NEW t \in Requests, LoadReturns(t) PROVE Flags'
    BY <1>16 DEF LoadReturns
  <1>17. ASSUME NEW t \in Requests, Install(t) PROVE Flags'
    BY <1>17 DEF Install
  <1>18. ASSUME NEW t \in Requests, Discarded(t) PROVE Flags'
    BY <1>18 DEF Discarded, Raise, Leased
  <1>19. ASSUME NEW t \in Requests, EndUse(t) PROVE Flags'
    BY <1>19 DEF EndUse
  <1>20. ASSUME NEW t \in Requests, ReloadLlama(t) PROVE Flags'
    BY <1>20 DEF ReloadLlama
  <1>21. ASSUME NEW t \in Freers, PrepareGpuTask(t) PROVE Flags'
    BY <1>21 DEF PrepareGpuTask
  <1>22. ASSUME NEW t \in Freers, CancelAndUnload(t) PROVE Flags'
    BY <1>22 DEF CancelAndUnload
  <1>23. ASSUME NEW t \in Freers, AwaitIdle(t) PROVE Flags'
    BY <1>23 DEF AwaitIdle
  <1>24. CASE UNCHANGED vars
    BY <1>24 DEF vars
  <1> QED
    BY <1>1, <1>2, <1>3, <1>4, <1>5, <1>6, <1>7, <1>8, <1>9, <1>10, <1>11, <1>12,
       <1>13, <1>14, <1>15, <1>16, <1>17, <1>18, <1>19, <1>20, <1>21, <1>22, <1>23,
       <1>24 DEF Next, RequestStep, FreerStep, ReleaseStep, SwitchStep

\* Every action keeps the types and the places.
LEMMA TypeStep ==
  ASSUME IInv, Accounting', [Next]_vars
  PROVE  TypeOK' /\ Flow'
  <1> USE ConstantsAssumption, NobodyAssumption, HandleParts, CountsNext, FlagsStep
     DEF IInv, Goto, poolVars, lockVars, threadVars, handleVars, TypeOK, Flags,
     Flow, Detaching, Release, InLoad, Threads
  <1>1. ASSUME NEW t \in Requests, PrepareForLoad(t) PROVE TypeOK' /\ Flow'
    BY <1>1 DEF PrepareForLoad
  <1>2. ASSUME NEW t \in Threads, WaitIdle(t) PROVE TypeOK' /\ Flow'
    BY <1>2 DEF WaitIdle
  <1>3. ASSUME NEW t \in Threads, ClearActive(t) PROVE TypeOK' /\ Flow'
    BY <1>3 DEF ClearActive, Detach, Raise, Leased
  <1>4. ASSUME NEW t \in Threads, CloseHandle(t) PROVE TypeOK' /\ Flow'
    BY <1>4 DEF CloseHandle
  <1>5. ASSUME NEW t \in Threads, DropResident(t) PROVE TypeOK' /\ Flow'
    BY <1>5 DEF DropResident, DropResidentLock
  <1>6. ASSUME NEW t \in Threads, UnloadAll(t) PROVE TypeOK' /\ Flow'
    BY <1>6 DEF UnloadAll, Detach
  <1>7. ASSUME NEW t \in Requests, BeginInference(t) PROVE TypeOK' /\ Flow'
    BY <1>7 DEF BeginInference
  <1>8. ASSUME NEW t \in Requests, EndInference(t) PROVE TypeOK' /\ Flow'
    BY <1>8 DEF EndInference
  <1>9. ASSUME NEW t \in Requests, GiveBack(t) PROVE TypeOK' /\ Flow'
    BY <1>9 DEF GiveBack
  <1>10. ASSUME NEW t \in Requests, TakeLlama(t) PROVE TypeOK' /\ Flow'
    BY <1>10 DEF TakeLlama
  <1>11. ASSUME NEW t \in Requests, CacheHit(t) PROVE TypeOK' /\ Flow'
    BY <1>11 DEF CacheHit, Matches
  <1>12. ASSUME NEW t \in Requests, CacheMiss(t) PROVE TypeOK' /\ Flow'
    BY <1>12 DEF CacheMiss
  <1>13. ASSUME NEW t \in Requests, TakeLoadLock(t) PROVE TypeOK' /\ Flow'
    BY <1>13 DEF TakeLoadLock, Matches
  <1>14. ASSUME NEW t \in Requests, CheckFits(t) PROVE TypeOK' /\ Flow'
    BY <1>14 DEF CheckFits, Raise, Leased
  <1>15. ASSUME NEW t \in Requests, LoadFails(t) PROVE TypeOK' /\ Flow'
    BY <1>15 DEF LoadFails, DropResidentLock, Raise, Leased
  <1>16. ASSUME NEW t \in Requests, LoadReturns(t) PROVE TypeOK' /\ Flow'
    BY <1>16 DEF LoadReturns
  <1>17. ASSUME NEW t \in Requests, Install(t) PROVE TypeOK' /\ Flow'
    BY <1>17 DEF Install
  <1>18. ASSUME NEW t \in Requests, Discarded(t) PROVE TypeOK' /\ Flow'
    BY <1>18 DEF Discarded, Raise, Leased
  <1>19. ASSUME NEW t \in Requests, EndUse(t) PROVE TypeOK' /\ Flow'
    BY <1>19 DEF EndUse
  <1>20. ASSUME NEW t \in Requests, ReloadLlama(t) PROVE TypeOK' /\ Flow'
    BY <1>20 DEF ReloadLlama
  <1>21. ASSUME NEW t \in Freers, PrepareGpuTask(t) PROVE TypeOK' /\ Flow'
    BY <1>21 DEF PrepareGpuTask
  <1>22. ASSUME NEW t \in Freers, CancelAndUnload(t) PROVE TypeOK' /\ Flow'
    BY <1>22 DEF CancelAndUnload
  <1>23. ASSUME NEW t \in Freers, AwaitIdle(t) PROVE TypeOK' /\ Flow'
    BY <1>23 DEF AwaitIdle
  <1>24. CASE UNCHANGED vars
    BY <1>24 DEF vars
  <1> QED
    BY <1>1, <1>2, <1>3, <1>4, <1>5, <1>6, <1>7, <1>8, <1>9, <1>10, <1>11, <1>12,
       <1>13, <1>14, <1>15, <1>16, <1>17, <1>18, <1>19, <1>20, <1>21, <1>22, <1>23,
       <1>24 DEF Next, RequestStep, FreerStep, ReleaseStep, SwitchStep

\* Every action keeps the load lock with one thread, and the pool empty meanwhile.
LEMMA LoaderStep ==
  ASSUME IInv, [Next]_vars
  PROVE  LoaderHas' /\ Emptied'
  <1> USE ConstantsAssumption, NobodyAssumption DEF IInv, Goto, poolVars, lockVars,
     threadVars, handleVars, TypeOK, Flow, LoaderHas, Emptied, Inside, Release,
     InLoad, Threads
  <1>1. ASSUME NEW t \in Requests, PrepareForLoad(t) PROVE LoaderHas' /\ Emptied'
    BY <1>1 DEF PrepareForLoad
  <1>2. ASSUME NEW t \in Threads, WaitIdle(t) PROVE LoaderHas' /\ Emptied'
    BY <1>2 DEF WaitIdle
  <1>3. ASSUME NEW t \in Threads, ClearActive(t) PROVE LoaderHas' /\ Emptied'
    BY <1>3 DEF ClearActive, Detach, Raise, Leased
  <1>4. ASSUME NEW t \in Threads, CloseHandle(t) PROVE LoaderHas' /\ Emptied'
    BY <1>4 DEF CloseHandle
  <1>5. ASSUME NEW t \in Threads, DropResident(t) PROVE LoaderHas' /\ Emptied'
    BY <1>5 DEF DropResident, DropResidentLock
  <1>6. ASSUME NEW t \in Threads, UnloadAll(t) PROVE LoaderHas' /\ Emptied'
    BY <1>6 DEF UnloadAll, Detach
  <1>7. ASSUME NEW t \in Requests, BeginInference(t) PROVE LoaderHas' /\ Emptied'
    BY <1>7 DEF BeginInference
  <1>8. ASSUME NEW t \in Requests, EndInference(t) PROVE LoaderHas' /\ Emptied'
    BY <1>8 DEF EndInference
  <1>9. ASSUME NEW t \in Requests, GiveBack(t) PROVE LoaderHas' /\ Emptied'
    BY <1>9 DEF GiveBack
  <1>10. ASSUME NEW t \in Requests, TakeLlama(t) PROVE LoaderHas' /\ Emptied'
    BY <1>10 DEF TakeLlama
  <1>11. ASSUME NEW t \in Requests, CacheHit(t) PROVE LoaderHas' /\ Emptied'
    BY <1>11 DEF CacheHit, Matches
  <1>12. ASSUME NEW t \in Requests, CacheMiss(t) PROVE LoaderHas' /\ Emptied'
    BY <1>12 DEF CacheMiss
  <1>13. ASSUME NEW t \in Requests, TakeLoadLock(t) PROVE LoaderHas' /\ Emptied'
    BY <1>13 DEF TakeLoadLock, Matches
  <1>14. ASSUME NEW t \in Requests, CheckFits(t) PROVE LoaderHas' /\ Emptied'
    BY <1>14 DEF CheckFits, Raise, Leased
  <1>15. ASSUME NEW t \in Requests, LoadFails(t) PROVE LoaderHas' /\ Emptied'
    BY <1>15 DEF LoadFails, DropResidentLock, Raise, Leased
  <1>16. ASSUME NEW t \in Requests, LoadReturns(t) PROVE LoaderHas' /\ Emptied'
    BY <1>16 DEF LoadReturns
  <1>17. ASSUME NEW t \in Requests, Install(t) PROVE LoaderHas' /\ Emptied'
    BY <1>17 DEF Install
  <1>18. ASSUME NEW t \in Requests, Discarded(t) PROVE LoaderHas' /\ Emptied'
    BY <1>18 DEF Discarded, Raise, Leased
  <1>19. ASSUME NEW t \in Requests, EndUse(t) PROVE LoaderHas' /\ Emptied'
    BY <1>19 DEF EndUse
  <1>20. ASSUME NEW t \in Requests, ReloadLlama(t) PROVE LoaderHas' /\ Emptied'
    BY <1>20 DEF ReloadLlama
  <1>21. ASSUME NEW t \in Freers, PrepareGpuTask(t) PROVE LoaderHas' /\ Emptied'
    BY <1>21 DEF PrepareGpuTask
  <1>22. ASSUME NEW t \in Freers, CancelAndUnload(t) PROVE LoaderHas' /\ Emptied'
    BY <1>22 DEF CancelAndUnload
  <1>23. ASSUME NEW t \in Freers, AwaitIdle(t) PROVE LoaderHas' /\ Emptied'
    BY <1>23 DEF AwaitIdle
  <1>24. CASE UNCHANGED vars
    BY <1>24 DEF vars
  <1> QED
    BY <1>1, <1>2, <1>3, <1>4, <1>5, <1>6, <1>7, <1>8, <1>9, <1>10, <1>11, <1>12,
       <1>13, <1>14, <1>15, <1>16, <1>17, <1>18, <1>19, <1>20, <1>21, <1>22, <1>23,
       <1>24 DEF Next, RequestStep, FreerStep, ReleaseStep, SwitchStep

\* Every action keeps every open handle in one place.
LEMMA HandleStep ==
  ASSUME IInv, [Next]_vars
  PROVE  Detaching' /\ Numbered' /\ OffersOpen'
  <1> USE ConstantsAssumption, NobodyAssumption, HandleParts DEF IInv, Goto,
     poolVars, lockVars, threadVars, handleVars, TypeOK, Flow, Emptied, Inside,
     Release, InLoad, Detaching, Numbered, OffersOpen, Threads
  <1>1. ASSUME NEW t \in Requests, PrepareForLoad(t)
         PROVE Detaching' /\ Numbered' /\ OffersOpen'
    BY <1>1 DEF PrepareForLoad
  <1>2. ASSUME NEW t \in Threads, WaitIdle(t)
         PROVE Detaching' /\ Numbered' /\ OffersOpen'
    BY <1>2 DEF WaitIdle
  <1>3. ASSUME NEW t \in Threads, ClearActive(t)
         PROVE Detaching' /\ Numbered' /\ OffersOpen'
    BY <1>3 DEF ClearActive, Detach, Raise, Leased
  <1>4. ASSUME NEW t \in Threads, CloseHandle(t)
         PROVE Detaching' /\ Numbered' /\ OffersOpen'
    BY <1>4 DEF CloseHandle
  <1>5. ASSUME NEW t \in Threads, DropResident(t)
         PROVE Detaching' /\ Numbered' /\ OffersOpen'
    BY <1>5 DEF DropResident, DropResidentLock
  <1>6. ASSUME NEW t \in Threads, UnloadAll(t)
         PROVE Detaching' /\ Numbered' /\ OffersOpen'
    BY <1>6 DEF UnloadAll, Detach
  <1>7. ASSUME NEW t \in Requests, BeginInference(t)
         PROVE Detaching' /\ Numbered' /\ OffersOpen'
    BY <1>7 DEF BeginInference
  <1>8. ASSUME NEW t \in Requests, EndInference(t)
         PROVE Detaching' /\ Numbered' /\ OffersOpen'
    BY <1>8 DEF EndInference
  <1>9. ASSUME NEW t \in Requests, GiveBack(t)
         PROVE Detaching' /\ Numbered' /\ OffersOpen'
    BY <1>9 DEF GiveBack
  <1>10. ASSUME NEW t \in Requests, TakeLlama(t)
         PROVE Detaching' /\ Numbered' /\ OffersOpen'
    BY <1>10 DEF TakeLlama
  <1>11. ASSUME NEW t \in Requests, CacheHit(t)
         PROVE Detaching' /\ Numbered' /\ OffersOpen'
    BY <1>11 DEF CacheHit, Matches
  <1>12. ASSUME NEW t \in Requests, CacheMiss(t)
         PROVE Detaching' /\ Numbered' /\ OffersOpen'
    BY <1>12 DEF CacheMiss
  <1>13. ASSUME NEW t \in Requests, TakeLoadLock(t)
         PROVE Detaching' /\ Numbered' /\ OffersOpen'
    BY <1>13 DEF TakeLoadLock, Matches
  <1>14. ASSUME NEW t \in Requests, CheckFits(t)
         PROVE Detaching' /\ Numbered' /\ OffersOpen'
    BY <1>14 DEF CheckFits, Raise, Leased
  <1>15. ASSUME NEW t \in Requests, LoadFails(t)
         PROVE Detaching' /\ Numbered' /\ OffersOpen'
    BY <1>15 DEF LoadFails, DropResidentLock, Raise, Leased
  <1>16. ASSUME NEW t \in Requests, LoadReturns(t)
         PROVE Detaching' /\ Numbered' /\ OffersOpen'
    BY <1>16 DEF LoadReturns
  <1>17. ASSUME NEW t \in Requests, Install(t)
         PROVE Detaching' /\ Numbered' /\ OffersOpen'
    BY <1>17 DEF Install
  <1>18. ASSUME NEW t \in Requests, Discarded(t)
         PROVE Detaching' /\ Numbered' /\ OffersOpen'
    BY <1>18 DEF Discarded, Raise, Leased
  <1>19. ASSUME NEW t \in Requests, EndUse(t)
         PROVE Detaching' /\ Numbered' /\ OffersOpen'
    BY <1>19 DEF EndUse
  <1>20. ASSUME NEW t \in Requests, ReloadLlama(t)
         PROVE Detaching' /\ Numbered' /\ OffersOpen'
    BY <1>20 DEF ReloadLlama
  <1>21. ASSUME NEW t \in Freers, PrepareGpuTask(t)
         PROVE Detaching' /\ Numbered' /\ OffersOpen'
    BY <1>21 DEF PrepareGpuTask
  <1>22. ASSUME NEW t \in Freers, CancelAndUnload(t)
         PROVE Detaching' /\ Numbered' /\ OffersOpen'
    BY <1>22 DEF CancelAndUnload
  <1>23. ASSUME NEW t \in Freers, AwaitIdle(t)
         PROVE Detaching' /\ Numbered' /\ OffersOpen'
    BY <1>23 DEF AwaitIdle
  <1>24. CASE UNCHANGED vars
    BY <1>24 DEF vars
  <1> QED
    BY <1>1, <1>2, <1>3, <1>4, <1>5, <1>6, <1>7, <1>8, <1>9, <1>10, <1>11, <1>12,
       <1>13, <1>14, <1>15, <1>16, <1>17, <1>18, <1>19, <1>20, <1>21, <1>22, <1>23,
       <1>24 DEF Next, RequestStep, FreerStep, ReleaseStep, SwitchStep

\* Every action keeps the handle of whoever generates in the pool.
LEMMA LeaseStep ==
  ASSUME IInv, [Next]_vars
  PROVE  LlamaHas' /\ UsersHave'
  <1> USE ConstantsAssumption, NobodyAssumption, HandleParts, UserCounted DEF IInv,
     Goto, poolVars, lockVars, threadVars, handleVars, TypeOK, Flow, Emptied,
     Inside, Release, InLoad, Detaching, LlamaHas, UsersHave, Referring, Threads
  <1>1. ASSUME NEW t \in Requests, PrepareForLoad(t) PROVE LlamaHas' /\ UsersHave'
    BY <1>1 DEF PrepareForLoad
  <1>2. ASSUME NEW t \in Threads, WaitIdle(t) PROVE LlamaHas' /\ UsersHave'
    BY <1>2 DEF WaitIdle
  <1>3. ASSUME NEW t \in Threads, ClearActive(t) PROVE LlamaHas' /\ UsersHave'
    BY <1>3 DEF ClearActive, Detach, Raise, Leased
  <1>4. ASSUME NEW t \in Threads, CloseHandle(t) PROVE LlamaHas' /\ UsersHave'
    BY <1>4 DEF CloseHandle
  <1>5. ASSUME NEW t \in Threads, DropResident(t) PROVE LlamaHas' /\ UsersHave'
    BY <1>5 DEF DropResident, DropResidentLock
  <1>6. ASSUME NEW t \in Threads, UnloadAll(t) PROVE LlamaHas' /\ UsersHave'
    BY <1>6 DEF UnloadAll, Detach
  <1>7. ASSUME NEW t \in Requests, BeginInference(t) PROVE LlamaHas' /\ UsersHave'
    BY <1>7 DEF BeginInference
  <1>8. ASSUME NEW t \in Requests, EndInference(t) PROVE LlamaHas' /\ UsersHave'
    BY <1>8 DEF EndInference
  <1>9. ASSUME NEW t \in Requests, GiveBack(t) PROVE LlamaHas' /\ UsersHave'
    BY <1>9 DEF GiveBack
  <1>10. ASSUME NEW t \in Requests, TakeLlama(t) PROVE LlamaHas' /\ UsersHave'
    BY <1>10 DEF TakeLlama
  <1>11. ASSUME NEW t \in Requests, CacheHit(t) PROVE LlamaHas' /\ UsersHave'
    BY <1>11 DEF CacheHit, Matches
  <1>12. ASSUME NEW t \in Requests, CacheMiss(t) PROVE LlamaHas' /\ UsersHave'
    BY <1>12 DEF CacheMiss
  <1>13. ASSUME NEW t \in Requests, TakeLoadLock(t) PROVE LlamaHas' /\ UsersHave'
    BY <1>13 DEF TakeLoadLock, Matches
  <1>14. ASSUME NEW t \in Requests, CheckFits(t) PROVE LlamaHas' /\ UsersHave'
    BY <1>14 DEF CheckFits, Raise, Leased
  <1>15. ASSUME NEW t \in Requests, LoadFails(t) PROVE LlamaHas' /\ UsersHave'
    BY <1>15 DEF LoadFails, DropResidentLock, Raise, Leased
  <1>16. ASSUME NEW t \in Requests, LoadReturns(t) PROVE LlamaHas' /\ UsersHave'
    BY <1>16 DEF LoadReturns
  <1>17. ASSUME NEW t \in Requests, Install(t) PROVE LlamaHas' /\ UsersHave'
    BY <1>17 DEF Install
  <1>18. ASSUME NEW t \in Requests, Discarded(t) PROVE LlamaHas' /\ UsersHave'
    BY <1>18 DEF Discarded, Raise, Leased
  <1>19. ASSUME NEW t \in Requests, EndUse(t) PROVE LlamaHas' /\ UsersHave'
    BY <1>19 DEF EndUse
  <1>20. ASSUME NEW t \in Requests, ReloadLlama(t) PROVE LlamaHas' /\ UsersHave'
    BY <1>20 DEF ReloadLlama
  <1>21. ASSUME NEW t \in Freers, PrepareGpuTask(t) PROVE LlamaHas' /\ UsersHave'
    BY <1>21 DEF PrepareGpuTask
  <1>22. ASSUME NEW t \in Freers, CancelAndUnload(t) PROVE LlamaHas' /\ UsersHave'
    BY <1>22 DEF CancelAndUnload
  <1>23. ASSUME NEW t \in Freers, AwaitIdle(t) PROVE LlamaHas' /\ UsersHave'
    BY <1>23 DEF AwaitIdle
  <1>24. CASE UNCHANGED vars
    BY <1>24 DEF vars
  <1> QED
    BY <1>1, <1>2, <1>3, <1>4, <1>5, <1>6, <1>7, <1>8, <1>9, <1>10, <1>11, <1>12,
       <1>13, <1>14, <1>15, <1>16, <1>17, <1>18, <1>19, <1>20, <1>21, <1>22, <1>23,
       <1>24 DEF Next, RequestStep, FreerStep, ReleaseStep, SwitchStep

-----------------------------------------------------------------------------
(* The theorems.                                                           *)

\* Every action keeps the invariant.
LEMMA NextInv == IInv /\ [Next]_vars => IInv'
  <1> SUFFICES ASSUME IInv, [Next]_vars PROVE IInv'
    OBVIOUS
  <1>1. Accounting'
    BY AccountingStep
  <1> QED
    BY <1>1, TypeStep, LoaderStep, HandleStep, LeaseStep DEF IInv

\* The invariant holds in every reachable state.
LEMMA Inductive == Spec => []IInv
  BY InitInv, NextInv, PTL DEF Spec

\* Every state is well typed.
THEOREM TypeCorrect == Spec => []TypeOK
  <1>1. IInv => TypeOK
    BY DEF IInv
  <1> QED
    BY <1>1, Inductive, PTL

\* On no path through loads, failures, discards and unloads is a reference or a
\* level of the GPU lock lost or given back twice, with any number of threads.
THEOREM Accounts == Spec => []Accounting
  <1>1. IInv => Accounting
    BY DEF IInv
  <1> QED
    BY <1>1, Inductive, PTL

\* One thread loads at a time, into an empty pool; a released handle is never
\* offered, and never released twice.
THEOREM HandlesAreOwned == Spec => []HandlesOwned
  <1>1. ASSUME IInv PROVE LoadsAlone
    <2> SUFFICES ASSUME NEW t \in Threads, NEW u \in Threads,
                        pc[t] \in {"load", "install"}
                 PROVE  /\ loader = t
                        /\ active = None
                        /\ pc[u] \in {"load", "install"} => t = u
      BY DEF LoadsAlone
    <2> QED
      BY <1>1 DEF IInv, LoaderHas, Emptied, Inside, InLoad
  <1>2. IInv => HandlesOwned
    BY <1>1 DEF IInv, HandlesOwned
  <1> QED
    BY <1>2, Inductive, PTL

\* The handle with which a request generates is not released under it, unless a
\* lease slipped in between a switch's wait and its unload.
THEOREM LeaseKeeps == Spec => []LeaseKeepsHandle
  <1>1. IInv => LeaseKeepsHandle
    BY DEF IInv, LeaseKeepsHandle, UsersHave, OffersOpen
  <1> QED
    BY <1>1, Inductive, PTL

-----------------------------------------------------------------------------
(* Nobody is left to wait.                                                 *)

\* An unload that was asked for has someone to do it: a request with a
\* reference, the last of which looks for it, or a thread about to unload.
UnloadOwned == pending => refs > 0 \/ \E t \in Threads : pc[t] = "unload"

\* The owner of the load lock waits for no lock, and the owner of the llama lock
\* at most for the load lock: it is a request with a lease, past that wait.
LockOrder ==
  /\ loader # Nobody => pc[loader] \notin {"start", "llama", "switch", "locked", "done"}
  /\ llama # Nobody => llama \in Referring /\ pc[llama] # "llama"

\* Whoever has the load lock is inside switch(), between its uses of locks.
LEMMA LoaderGoesOn ==
  ASSUME IInv
  PROVE  loader # Nobody => pc[loader] \notin {"start", "llama", "switch", "locked", "done"}
  BY DEF IInv, TypeOK, LoaderHas, Inside, InLoad, Release

\* Every action keeps the llama lock with a request that has a lease.
LEMMA LlamaStep ==
  ASSUME IInv, [Next]_vars,
         llama # Nobody => llama \in Referring /\ pc[llama] # "llama"
  PROVE  (llama # Nobody => llama \in Referring /\ pc[llama] # "llama")'
  <1> DEFINE Goal == (llama # Nobody => llama \in Referring /\ pc[llama] # "llama")'
  <1> SUFFICES Goal
    OBVIOUS
  <1> USE ConstantsAssumption, NobodyAssumption DEF IInv, Goto, poolVars, lockVars,
     threadVars, handleVars, TypeOK, Flow, Release, InLoad, Referring, Threads
  <1>1. ASSUME NEW t \in Requests, PrepareForLoad(t) PROVE Goal
    BY <1>1 DEF PrepareForLoad
  <1>2. ASSUME NEW t \in Threads, WaitIdle(t) PROVE Goal
    BY <1>2 DEF WaitIdle
  <1>3. ASSUME NEW t \in Threads, ClearActive(t) PROVE Goal
    BY <1>3 DEF ClearActive, Detach, Raise, Leased
  <1>4. ASSUME NEW t \in Threads, CloseHandle(t) PROVE Goal
    BY <1>4 DEF CloseHandle
  <1>5. ASSUME NEW t \in Threads, DropResident(t) PROVE Goal
    BY <1>5 DEF DropResident
  <1>6. ASSUME NEW t \in Threads, UnloadAll(t) PROVE Goal
    BY <1>6 DEF UnloadAll, Detach
  <1>7. ASSUME NEW t \in Requests, BeginInference(t) PROVE Goal
    BY <1>7 DEF BeginInference
  <1>8. ASSUME NEW t \in Requests, EndInference(t) PROVE Goal
    BY <1>8 DEF EndInference
  <1>9. ASSUME NEW t \in Requests, GiveBack(t) PROVE Goal
    BY <1>9 DEF GiveBack
  <1>10. ASSUME NEW t \in Requests, TakeLlama(t) PROVE Goal
    BY <1>10 DEF TakeLlama
  <1>11. ASSUME NEW t \in Requests, CacheHit(t) PROVE Goal
    BY <1>11 DEF CacheHit, Matches
  <1>12. ASSUME NEW t \in Requests, CacheMiss(t) PROVE Goal
    BY <1>12 DEF CacheMiss
  <1>13. ASSUME NEW t \in Requests, TakeLoadLock(t) PROVE Goal
    BY <1>13 DEF TakeLoadLock
  <1>14. ASSUME NEW t \in Requests, CheckFits(t) PROVE Goal
    BY <1>14 DEF CheckFits, Raise, Leased
  <1>15. ASSUME NEW t \in Requests, LoadFails(t) PROVE Goal
    BY <1>15 DEF LoadFails, Raise, Leased
  <1>16. ASSUME NEW t \in Requests, LoadReturns(t) PROVE Goal
    BY <1>16 DEF LoadReturns
  <1>17. ASSUME NEW t \in Requests, Install(t) PROVE Goal
    BY <1>17 DEF Install
  <1>18. ASSUME NEW t \in Requests, Discarded(t) PROVE Goal
    BY <1>18 DEF Discarded, Raise, Leased
  <1>19. ASSUME NEW t \in Requests, EndUse(t) PROVE Goal
    BY <1>19 DEF EndUse
  <1>20. ASSUME NEW t \in Requests, ReloadLlama(t) PROVE Goal
    BY <1>20 DEF ReloadLlama
  <1>21. ASSUME NEW t \in Freers, PrepareGpuTask(t) PROVE Goal
    BY <1>21 DEF PrepareGpuTask
  <1>22. ASSUME NEW t \in Freers, CancelAndUnload(t) PROVE Goal
    BY <1>22 DEF CancelAndUnload
  <1>23. ASSUME NEW t \in Freers, AwaitIdle(t) PROVE Goal
    BY <1>23 DEF AwaitIdle
  <1>24. CASE UNCHANGED vars
    BY <1>24 DEF vars
  <1> QED
    BY <1>1, <1>2, <1>3, <1>4, <1>5, <1>6, <1>7, <1>8, <1>9, <1>10, <1>11, <1>12,
       <1>13, <1>14, <1>15, <1>16, <1>17, <1>18, <1>19, <1>20, <1>21, <1>22, <1>23,
       <1>24 DEF Next, RequestStep, FreerStep, ReleaseStep, SwitchStep

\* Every action keeps an unload that was asked for with someone who will do it.
LEMMA UnloadStep ==
  ASSUME IInv, UnloadOwned, [Next]_vars
  PROVE  UnloadOwned'
  <1> USE ConstantsAssumption, NobodyAssumption DEF IInv, Goto, poolVars, lockVars,
     threadVars, handleVars, TypeOK, Threads, UnloadOwned
  <1>1. ASSUME NEW t \in Requests, PrepareForLoad(t) PROVE UnloadOwned'
    BY <1>1 DEF PrepareForLoad
  <1>2. ASSUME NEW t \in Threads, WaitIdle(t) PROVE UnloadOwned'
    BY <1>2 DEF WaitIdle
  <1>3. ASSUME NEW t \in Threads, ClearActive(t) PROVE UnloadOwned'
    BY <1>3 DEF ClearActive, Detach, Raise, Leased
  <1>4. ASSUME NEW t \in Threads, CloseHandle(t) PROVE UnloadOwned'
    BY <1>4 DEF CloseHandle
  <1>5. ASSUME NEW t \in Threads, DropResident(t) PROVE UnloadOwned'
    BY <1>5 DEF DropResident
  <1>6. ASSUME NEW t \in Threads, UnloadAll(t) PROVE UnloadOwned'
    BY <1>6 DEF UnloadAll, Detach
  <1>7. ASSUME NEW t \in Requests, BeginInference(t) PROVE UnloadOwned'
    BY <1>7 DEF BeginInference
  <1>8. ASSUME NEW t \in Requests, EndInference(t) PROVE UnloadOwned'
    BY <1>8 DEF EndInference
  <1>9. ASSUME NEW t \in Requests, GiveBack(t) PROVE UnloadOwned'
    BY <1>9 DEF GiveBack
  <1>10. ASSUME NEW t \in Requests, TakeLlama(t) PROVE UnloadOwned'
    BY <1>10 DEF TakeLlama
  <1>11. ASSUME NEW t \in Requests, CacheHit(t) PROVE UnloadOwned'
    BY <1>11 DEF CacheHit, Matches
  <1>12. ASSUME NEW t \in Requests, CacheMiss(t) PROVE UnloadOwned'
    BY <1>12 DEF CacheMiss
  <1>13. ASSUME NEW t \in Requests, TakeLoadLock(t) PROVE UnloadOwned'
    BY <1>13 DEF TakeLoadLock
  <1>14. ASSUME NEW t \in Requests, CheckFits(t) PROVE UnloadOwned'
    BY <1>14 DEF CheckFits, Raise, Leased
  <1>15. ASSUME NEW t \in Requests, LoadFails(t) PROVE UnloadOwned'
    BY <1>15 DEF LoadFails, Raise, Leased
  <1>16. ASSUME NEW t \in Requests, LoadReturns(t) PROVE UnloadOwned'
    BY <1>16 DEF LoadReturns
  <1>17. ASSUME NEW t \in Requests, Install(t) PROVE UnloadOwned'
    BY <1>17 DEF Install
  <1>18. ASSUME NEW t \in Requests, Discarded(t) PROVE UnloadOwned'
    BY <1>18 DEF Discarded, Raise, Leased
  <1>19. ASSUME NEW t \in Requests, EndUse(t) PROVE UnloadOwned'
    BY <1>19 DEF EndUse
  <1>20. ASSUME NEW t \in Requests, ReloadLlama(t) PROVE UnloadOwned'
    BY <1>20 DEF ReloadLlama
  <1>21. ASSUME NEW t \in Freers, PrepareGpuTask(t) PROVE UnloadOwned'
    BY <1>21 DEF PrepareGpuTask
  <1>22. ASSUME NEW t \in Freers, CancelAndUnload(t) PROVE UnloadOwned'
    BY <1>22 DEF CancelAndUnload
  <1>23. ASSUME NEW t \in Freers, AwaitIdle(t) PROVE UnloadOwned'
    BY <1>23 DEF AwaitIdle
  <1>24. CASE UNCHANGED vars
    BY <1>24 DEF vars
  <1> QED
    BY <1>1, <1>2, <1>3, <1>4, <1>5, <1>6, <1>7, <1>8, <1>9, <1>10, <1>11, <1>12,
       <1>13, <1>14, <1>15, <1>16, <1>17, <1>18, <1>19, <1>20, <1>21, <1>22, <1>23,
       <1>24 DEF Next, RequestStep, FreerStep, ReleaseStep, SwitchStep

\* An unload is never forgotten (PendingUnloads could not hold otherwise): while
\* one is asked for, a request has a reference, whose last one unloads, or a
\* thread is about to look; no load, failure or discard in between drops it.
THEOREM UnloadIsOwned == Spec => []UnloadOwned
<1>1. Init => IInv /\ UnloadOwned
  BY InitInv DEF Init, UnloadOwned
<1>2. IInv /\ UnloadOwned /\ [Next]_vars => (IInv /\ UnloadOwned)'
  BY NextInv, UnloadStep
<1> QED
  BY <1>1, <1>2, PTL DEF Spec

\* No circle of threads waits for each other's locks (RequestsEnd could not hold
\* otherwise): llama lock before load lock, and nothing is waited for inside.
THEOREM LocksAreOrdered == Spec => []LockOrder
<1> DEFINE Owned == llama # Nobody => llama \in Referring /\ pc[llama] # "llama"
<1>1. Init => IInv /\ Owned
  BY InitInv DEF Init
<1>2. IInv /\ Owned /\ [Next]_vars => (IInv /\ Owned)'
  BY NextInv, LlamaStep
<1>3. IInv /\ Owned => LockOrder
  BY LoaderGoesOn DEF LockOrder
<1> QED
  BY <1>1, <1>2, <1>3, PTL DEF Spec

=============================================================================
