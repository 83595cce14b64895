------------------------------ MODULE ModelPool -------------------------------
(***************************************************************************)
(* seiso/inference/model_pool/pool.py: the one model a Seiso process keeps *)
(* loaded for chat, with the threads that share it.  A request             *)
(* (seiso/inference/runner.py: _complete, the producer of stream_updates)  *)
(* makes room for its model, takes a lease, gets the model by switch(),    *)
(* generates, and gives the lease back; other threads cancel and unload, or *)
(* empty the pool before a GPU task.  An action is the code between two    *)
(* uses of a lock; a load, a release and a generation take any time.       *)
(*                                                                         *)
(* The GPU resource lock is its depth in this process (GpuResourceLock     *)
(* shows that the depth is exclusive).  Generation numbers are left out:   *)
(* they tell a stream to stop early and whether its text is kept.          *)
(***************************************************************************)
EXTENDS Naturals, FiniteSets

CONSTANTS
  Requests,      \* threads of chat requests and preloads
  Freers,        \* threads that cancel and unload, or empty the pool
  Models,        \* model paths
  LlamaModels,   \* those that run in the shared llama.cpp context
  MaxLoads       \* bound: loads that succeed

ASSUME ConstantsAssumption ==
  /\ IsFiniteSet(Requests)
  /\ IsFiniteSet(Freers)
  /\ Requests \intersect Freers = {}
  /\ LlamaModels \subseteq Models
  /\ MaxLoads \in Nat

Threads == Requests \union Freers
Handles == Models \X (1 .. MaxLoads)
None    == <<>>
Nobody  == "nobody"
ASSUME NobodyAssumption == Nobody \notin Threads

VARIABLES
  active,     \* _active: the handle the pool offers
  refs,       \* _inference_refs
  pending,    \* _unload_pending
  resident,   \* _resident_gpu_resource_lock
  depth,      \* levels of the GPU resource lock this process holds
  loader,     \* owner of _switch_load_lock
  llama,      \* owner of _llama_infer_lock
  pc,         \* where a thread is
  next,       \* where it goes after a release or an unload
  want,       \* the model of a request
  held,       \* the handle a request got from switch() and uses
  detached,   \* the handle a thread has taken out of the pool to release
  loads,      \* handles loaded so far
  closed,     \* handles that were released
  slipped     \* a lease began between a switch's wait and its unload

poolVars   == <<active, refs, pending>>
lockVars   == <<resident, depth, loader, llama>>
threadVars == <<pc, next, want, held, detached>>
handleVars == <<loads, closed>>
vars == <<poolVars, lockVars, threadVars, handleVars, slipped>>

Init ==
  /\ active   = None
  /\ refs     = 0
  /\ pending  = FALSE
  /\ resident = FALSE
  /\ depth    = 0
  /\ loader   = Nobody
  /\ llama    = Nobody
  /\ pc       = [t \in Threads |-> "start"]
  /\ next     = [t \in Threads |-> "done"]
  /\ want     \in [Requests -> Models]
  /\ held     = [t \in Threads |-> None]
  /\ detached = [t \in Threads |-> None]
  /\ loads    = 0
  /\ closed   = {}
  /\ slipped  = FALSE

Goto(t, where) == pc' = [pc EXCEPT ![t] = where]

\* Leaves the locks of switch() by an exception: a request that has a lease
\* ends it, one that has not is over.
Leased(t) == t \in Requests /\ next[t] # "begin"
Raise(t) ==
  /\ Goto(t, IF Leased(t) THEN "end" ELSE "done")
  /\ loader' = IF loader = t THEN Nobody ELSE loader

-----------------------------------------------------------------------------
(* Making room: _clear_active_for_switch and _release_handle.              *)

\* prepare_for_load before the lease: only for another model than the active.
PrepareForLoad(t) ==
  /\ t \in Requests
  /\ pc[t] = "start"
  /\ next' = [next EXCEPT ![t] = "begin"]
  /\ Goto(t, IF active # None /\ active[1] # want[t] THEN "wait" ELSE "begin")
  /\ UNCHANGED <<poolVars, lockVars, want, held, detached, handleVars, slipped>>

\* Mutant: the wait has no timeout.
WaitIdleForever(t) ==
  /\ pc[t] = "wait"
  /\ refs = 0
  /\ Goto(t, "clear")
  /\ UNCHANGED <<poolVars, lockVars, next, want, held, detached, handleVars, slipped>>

\* _wait_for_inference_idle: no reference is left, or 30 seconds are over.
WaitIdle(t) ==
  /\ pc[t] = "wait"
  /\ Goto(t, IF refs = 0 THEN "clear" ELSE "clearBusy")
  /\ UNCHANGED <<poolVars, lockVars, next, want, held, detached, handleVars, slipped>>

\* Take the active handle out of the pool; there may be none.
Detach(t) ==
  /\ active' = None
  /\ detached' = [detached EXCEPT ![t] = active]
  /\ Goto(t, IF active = None THEN next[t] ELSE "close")

\* A wait that timed out with references left asks for an unload and raises;
\* one that ended idle does not look at the references again.
ClearActive(t) ==
  \/ /\ pc[t] = "clear" \/ (pc[t] = "clearBusy" /\ refs = 0)
     /\ Detach(t)
     /\ UNCHANGED <<refs, pending, lockVars, next, want, held, handleVars, slipped>>
  \/ /\ pc[t] = "clearBusy"
     /\ refs > 0
     /\ pending' = TRUE
     /\ Raise(t)
     /\ UNCHANGED <<active, refs, resident, depth, llama, next, want, held,
                    detached, handleVars, slipped>>

\* _release_handle: close the handle and drop the caches,
CloseHandle(t) ==
  /\ pc[t] = "close"
  /\ closed' = closed \union {detached[t]}
  /\ detached' = [detached EXCEPT ![t] = None]
  /\ Goto(t, "drop")
  /\ UNCHANGED <<poolVars, lockVars, next, want, held, loads, slipped>>

\* Mutant: the level is given back without a look at the flag.
DropResidentLockAlways ==
  /\ resident' = FALSE
  /\ depth' = depth - 1

\* Mutant: the flag stays set.
DropResidentLockKeepsFlag ==
  /\ UNCHANGED resident
  /\ depth' = IF resident THEN depth - 1 ELSE depth

\* _release_resident_gpu_resource_lock.
DropResidentLock ==
  /\ resident' = FALSE
  /\ depth' = IF resident THEN depth - 1 ELSE depth

\* then give back the level of the GPU lock that the resident model had.
DropResident(t) ==
  /\ pc[t] = "drop"
  /\ DropResidentLock
  /\ Goto(t, next[t])
  /\ UNCHANGED <<poolVars, loader, llama, next, want, held, detached,
                 handleVars, slipped>>

ReleaseStep(t) == WaitIdle(t) \/ ClearActive(t) \/ CloseHandle(t) \/ DropResident(t)

-----------------------------------------------------------------------------
(* unload_all and end_inference.                                           *)

\* Mutant: references do not hold an unload back.
UnloadAllForced(t) ==
  /\ pc[t] = "unload"
  /\ pending' = FALSE
  /\ Detach(t)
  /\ UNCHANGED <<refs, lockVars, next, want, held, handleVars, slipped>>

\* With references the unload is left to the last of them.
UnloadAll(t) ==
  /\ pc[t] = "unload"
  /\ IF refs > 0
     THEN /\ pending' = TRUE
          /\ Goto(t, next[t])
          /\ UNCHANGED <<active, detached>>
     ELSE /\ pending' = FALSE
          /\ Detach(t)
  /\ UNCHANGED <<refs, lockVars, next, want, held, handleVars, slipped>>

\* begin_inference.  "slipped" notes a lease that a switch overlooks.
BeginInference(t) ==
  /\ pc[t] = "begin"
  /\ depth' = depth + 1
  /\ refs' = refs + 1
  /\ next' = [next EXCEPT ![t] = "fits"]
  /\ Goto(t, IF want[t] \in LlamaModels THEN "llama" ELSE "switch")
  /\ slipped' = (slipped \/ \E u \in Threads : pc[u] = "clear")
  /\ UNCHANGED <<active, pending, resident, loader, llama, want, held, detached,
                 handleVars>>

\* Mutant: the last reference forgets the unload that was asked for.
EndInferenceForgets(t) ==
  /\ pc[t] = "end"
  /\ refs' = refs - 1
  /\ held' = [held EXCEPT ![t] = None]
  /\ llama' = IF llama = t THEN Nobody ELSE llama
  /\ next' = [next EXCEPT ![t] = "give"]
  /\ Goto(t, "give")
  /\ UNCHANGED <<active, pending, resident, depth, loader, want, detached,
                 handleVars, slipped>>

\* end_inference: the last reference does the unload that is asked for; the
\* level of the GPU lock is given back after it.
EndInference(t) ==
  /\ pc[t] = "end"
  /\ refs' = refs - 1
  /\ held' = [held EXCEPT ![t] = None]
  /\ llama' = IF llama = t THEN Nobody ELSE llama
  /\ next' = [next EXCEPT ![t] = "give"]
  /\ Goto(t, IF refs = 1 /\ pending THEN "unload" ELSE "give")
  /\ UNCHANGED <<active, pending, resident, depth, loader, want, detached,
                 handleVars, slipped>>

GiveBack(t) ==
  /\ pc[t] = "give"
  /\ depth' = depth - 1
  /\ Goto(t, "done")
  /\ UNCHANGED <<poolVars, resident, loader, llama, next, want, held, detached,
                 handleVars, slipped>>

-----------------------------------------------------------------------------
(* switch().                                                               *)

\* llama_inference_lease: one llama request at a time, from the load to the
\* end of its generation.
TakeLlama(t) ==
  /\ pc[t] = "llama"
  /\ llama = Nobody
  /\ llama' = t
  /\ Goto(t, "switch")
  /\ UNCHANGED <<poolVars, resident, depth, loader, next, want, held, detached,
                 handleVars, slipped>>

Matches(t) == active # None /\ active[1] = want[t]

\* _switch_cache_hit without the load lock, then with it.  A llama handle of
\* the right model may have too small a context.
CacheHit(t) ==
  /\ \/ pc[t] = "switch"
     \/ pc[t] = "locked" /\ loader = Nobody
  /\ Matches(t)
  /\ held' = [held EXCEPT ![t] = active]
  /\ Goto(t, "use")
  /\ UNCHANGED <<poolVars, lockVars, next, want, detached, handleVars, slipped>>

CacheMiss(t) ==
  /\ pc[t] = "switch"
  /\ Matches(t) => want[t] \in LlamaModels
  /\ Goto(t, "locked")
  /\ UNCHANGED <<poolVars, lockVars, next, want, held, detached, handleVars, slipped>>

\* Mutant: the load lock does not keep a second load out.
TakeLoadLockShared(t) ==
  /\ pc[t] = "locked"
  /\ Matches(t) => want[t] \in LlamaModels
  /\ loader' = t
  /\ next' = [next EXCEPT ![t] = "fits"]
  /\ IF active # None /\ ~Matches(t)
     THEN /\ Goto(t, "wait")
          /\ UNCHANGED <<active, detached>>
     ELSE Detach(t)
  /\ UNCHANGED <<refs, pending, resident, depth, llama, want, held, handleVars, slipped>>

\* _switch_load_lock, with a model to replace: the same llama model is taken
\* out at once, another one after the wait for idle.
TakeLoadLock(t) ==
  /\ pc[t] = "locked"
  /\ loader = Nobody
  /\ Matches(t) => want[t] \in LlamaModels
  /\ loader' = t
  /\ next' = [next EXCEPT ![t] = "fits"]
  /\ IF active # None /\ ~Matches(t)
     THEN /\ Goto(t, "wait")
          /\ UNCHANGED <<active, detached>>
     ELSE /\ active' = None
          /\ detached' = [detached EXCEPT ![t] = active]
          /\ Goto(t, IF active = None THEN "fits" ELSE "close")
  /\ UNCHANGED <<refs, pending, resident, depth, llama, want, held, handleVars, slipped>>

\* ensure_load_fits raises, or the load begins with the GPU lock held for the
\* resident model.
CheckFits(t) ==
  /\ pc[t] = "fits"
  /\ \/ /\ Raise(t)
        /\ UNCHANGED <<resident, depth>>
     \/ /\ resident' = TRUE
        /\ depth' = IF resident THEN depth ELSE depth + 1
        /\ Goto(t, "load")
        /\ UNCHANGED loader
  /\ UNCHANGED <<poolVars, llama, next, want, held, detached, handleVars, slipped>>

\* loader_fn raises.
LoadFails(t) ==
  /\ pc[t] = "load"
  /\ DropResidentLock
  /\ Raise(t)
  /\ UNCHANGED <<poolVars, llama, next, want, held, detached, handleVars, slipped>>

LoadReturns(t) ==
  /\ pc[t] = "load"
  /\ loads < MaxLoads
  /\ loads' = loads + 1
  /\ detached' = [detached EXCEPT ![t] = <<want[t], loads + 1>>]
  /\ Goto(t, "install")
  /\ UNCHANGED <<poolVars, lockVars, next, want, held, closed, slipped>>

\* The fresh handle becomes the active one, unless an unload was asked for: it
\* is then released.  (The code also handles an active handle here; the load
\* lock keeps every other load out, see LoadsAlone.)
Install(t) ==
  /\ pc[t] = "install"
  /\ IF pending
     THEN /\ next' = [next EXCEPT ![t] = "discarded"]
          /\ Goto(t, "close")
          /\ UNCHANGED <<active, held, detached, loader>>
     ELSE /\ active' = detached[t]
          /\ held' = [held EXCEPT ![t] = detached[t]]
          /\ detached' = [detached EXCEPT ![t] = None]
          /\ loader' = Nobody
          /\ Goto(t, "use")
          /\ UNCHANGED next
  /\ UNCHANGED <<refs, pending, resident, depth, llama, want, handleVars, slipped>>

\* "Model load cancelled (unload requested)".
Discarded(t) ==
  /\ pc[t] = "discarded"
  /\ pending' = FALSE
  /\ Raise(t)
  /\ UNCHANGED <<active, refs, resident, depth, llama, next, want, held, detached,
                 handleVars, slipped>>

SwitchStep(t) ==
  \/ TakeLlama(t) \/ CacheHit(t) \/ CacheMiss(t) \/ TakeLoadLock(t)
  \/ CheckFits(t) \/ LoadFails(t) \/ LoadReturns(t)
  \/ Install(t) \/ Discarded(t)

-----------------------------------------------------------------------------
(* Using the handle.                                                       *)

EndUse(t) ==
  /\ pc[t] = "use"
  /\ Goto(t, "end")
  /\ UNCHANGED <<poolVars, lockVars, next, want, held, detached, handleVars, slipped>>

\* reload_llama after running out of memory: _unload_active_immediate, then
\* get_llama once more.
ReloadLlama(t) ==
  /\ pc[t] = "use"
  /\ want[t] \in LlamaModels
  /\ loads < MaxLoads
  /\ held' = [held EXCEPT ![t] = None]
  /\ active' = None
  /\ detached' = [detached EXCEPT ![t] = active]
  /\ next' = [next EXCEPT ![t] = "switch"]
  /\ Goto(t, IF active = None THEN "switch" ELSE "close")
  /\ UNCHANGED <<refs, pending, lockVars, want, handleVars, slipped>>

RequestStep(t) ==
  \/ BeginInference(t) \/ EndInference(t) \/ GiveBack(t)
  \/ UnloadAll(t) \/ ReleaseStep(t) \/ SwitchStep(t) \/ EndUse(t)

-----------------------------------------------------------------------------
(* Threads that empty the pool.                                            *)

\* release_inference_memory before a GPU task: prepare_for_load without a
\* target, or unload_all of an empty pool.
PrepareGpuTask(t) ==
  /\ t \in Freers
  /\ pc[t] = "start"
  /\ Goto(t, IF active = None THEN "unload" ELSE "wait")
  /\ UNCHANGED <<poolVars, lockVars, next, want, held, detached, handleVars, slipped>>

\* cancel_and_unload: ask for the unload; an idle pool is unloaded here.
CancelAndUnload(t) ==
  /\ t \in Freers
  /\ pc[t] = "start"
  /\ pending' = TRUE
  /\ next' = [next EXCEPT ![t] = "await"]
  /\ Goto(t, IF refs > 0 THEN "await" ELSE "unload")
  /\ UNCHANGED <<active, refs, lockVars, want, held, detached, handleVars, slipped>>

\* The runner waits for idle (or 30 seconds) and unloads once more.
AwaitIdle(t) ==
  /\ pc[t] = "await"
  /\ next' = [next EXCEPT ![t] = "done"]
  /\ Goto(t, "unload")
  /\ UNCHANGED <<poolVars, lockVars, want, held, detached, handleVars, slipped>>

FreerStep(t) == AwaitIdle(t) \/ UnloadAll(t) \/ ReleaseStep(t)

Next ==
  \/ \E t \in Requests : PrepareForLoad(t) \/ RequestStep(t) \/ ReloadLlama(t)
  \/ \E t \in Freers : PrepareGpuTask(t) \/ CancelAndUnload(t) \/ FreerStep(t)

\* Threads run, loads and generations end.  Every wait in the code is bounded
\* or for a lock whose owner goes on, and whoever waits for a lock gets it.
Fairness ==
  /\ \A t \in Requests : SF_vars(RequestStep(t))
  /\ \A t \in Freers : WF_vars(FreerStep(t))

Spec     == Init /\ [][Next]_vars
FairSpec == Spec /\ Fairness

-----------------------------------------------------------------------------
(* Properties.                                                             *)

\* Types of all variables.
TypeOK ==
  /\ active \in Handles \union {None}
  /\ refs \in Nat
  /\ pending \in BOOLEAN
  /\ resident \in BOOLEAN
  /\ depth \in Nat
  /\ loader \in Threads \union {Nobody}
  /\ llama \in Threads \union {Nobody}
  /\ pc \in [Threads -> {"start", "wait", "clear", "clearBusy", "close", "drop",
                         "begin", "llama", "switch", "locked", "fits", "load",
                         "install", "discarded", "use", "end", "unload", "give",
                         "await", "done"}]
  /\ next \in [Threads -> {"begin", "fits", "switch", "discarded", "give",
                           "await", "done"}]
  /\ want \in [Requests -> Models]
  /\ held \in [Threads -> Handles \union {None}]
  /\ detached \in [Threads -> Handles \union {None}]
  /\ loads \in 0 .. MaxLoads
  /\ closed \subseteq Handles
  /\ slipped \in BOOLEAN

\* A request that has a lease, and one that has given the reference back but
\* not yet its level of the GPU lock.
Referring == {t \in Requests : pc[t] \notin {"start", "begin", "give", "done"}
                               /\ next[t] \notin {"begin", "give"}}
Locking   == {t \in Requests : pc[t] \notin {"start", "begin", "done"}
                               /\ next[t] # "begin"}

\* References and GPU lock levels are neither lost nor given back twice on any
\* path through loads, failures, discards and unloads: every reference is a
\* request's, and the depth is the requests' levels and the resident model's.
Accounting ==
  /\ refs = Cardinality(Referring)
  /\ depth = Cardinality(Locking) + (IF resident THEN 1 ELSE 0)

LoadsAlone ==
  \A t, u \in Threads :
    pc[t] \in {"load", "install"} =>
      /\ loader = t
      /\ active = None
      /\ pc[u] \in {"load", "install"} => t = u

OffersOpen ==
  /\ active \notin closed
  /\ \A t, u \in Threads : detached[t] # None =>
       /\ detached[t] # active
       /\ detached[t] \notin closed
       /\ t # u => detached[u] # detached[t]

\* Every open handle has one place: it is loaded by one thread, with none in the
\* pool, so that the loser of two loads never overwrites the winner's; the pool
\* never offers a released one, and two threads never release the same one.
HandlesOwned == LoadsAlone /\ OffersOpen

\* A request's handle is not released under it: neither by an unload, a GPU
\* task, another request's switch or reload, whatever times out.  Except when a
\* lease began between a switch's wait for idle and its unload (slipped).
LeaseKeepsHandle ==
  ~slipped => \A t \in Requests : pc[t] = "use" => held[t] \notin closed

\* An unload that was asked for is done: a handle the pool offers while the
\* request is pending is released in the end, by the last lease if not before.
PendingUnloads ==
  \A h \in Handles : (pending /\ active = h) ~> (h \in closed)

\* Every request leaves the pool: no order of waits, leases and locks stops one
\* for good.
RequestsEnd == \A t \in Requests : pc[t] = "begin" ~> pc[t] = "done"

=============================================================================
