----------------------------- MODULE Generations ------------------------------
(***************************************************************************)
(* Who may use the chat model: the reservation of the one inference runner *)
(* by a user (forge/orchestrators/inference.py), the streaming chat route  *)
(* and the cancel routes (forge/api/routes/inference.py), the passes of a  *)
(* reply under the local inference lock, the producer thread with its lease *)
(* of the model pool (seiso/inference/runner.py) and the bounded queue     *)
(* between it and the event loop (seiso/inference/stream_bridge.py), next  *)
(* to GPU tasks, which exclude chat (forge/services/memory_release.py).    *)
(*                                                                         *)
(* Everything but the producers runs on one asyncio loop, so an action is  *)
(* the code between two awaits.  Chats that run as a job, through a        *)
(* provider or the router, and preloads, reserve in the same way and are   *)
(* left out.                                                               *)
(***************************************************************************)
EXTENDS Naturals, FiniteSets

CONSTANTS
  Users,
  Chats,       \* streaming chat requests
  Cancels,     \* POST /cancel and /cancel-generation requests
  TaskKinds,   \* GPU tasks that may run: "job", "download"
  QueueSize,   \* SEISO_STREAM_QUEUE_SIZE
  MaxParts,    \* bound: updates a producer publishes in one pass
  MaxPasses    \* bound: passes of one reply (auto-continue)

ASSUME ConstantsAssumption ==
  /\ IsFiniteSet(Chats)
  /\ TaskKinds \subseteq {"job", "download"}
  /\ QueueSize \in Nat \ {0}
  /\ MaxParts \in Nat
  /\ MaxPasses \in Nat \ {0}

Nobody == "nobody"
ASSUME NobodyAssumption == Nobody \notin Users \union Chats

VARIABLES
  userOf,      \* the user of a chat and of a cancel request
  owner,       \* _active_generation_user_id
  ownerEpoch,  \* _active_generation_epoch
  epoch,       \* _generation_epoch
  current,     \* the chat whose generation id is the pool's, if any
  localLock,   \* _local_inference_lock
  task,        \* the GPU task: "none", "job", or a download, "checking" or registered
  pc,          \* where a chat's coroutine is
  gen,         \* epoch that the route reserved
  inner,       \* epoch that stream_local_updates reserved, 0 for none
  leave,       \* how a pass leaves: "ok", "error" or "gone"
  passes,      \* passes begun
  prod,        \* where a chat's producer thread is
  parts,       \* updates published in this pass
  queue,       \* updates in the bridge's queue
  marker,      \* end marker in the queue: "none", "done" or "error"
  stopped,     \* bridge.cancel() was called
  stale,       \* producers of earlier passes that still have their lease
  cpc          \* where a cancel request is

ownerVars == <<owner, ownerEpoch, epoch>>
chatVars  == <<pc, gen, inner, leave, passes>>
prodVars  == <<prod, parts, queue, marker, stopped, stale>>
vars == <<userOf, ownerVars, current, localLock, task, chatVars, prodVars, cpc>>

Init ==
  /\ userOf     \in [Chats \union Cancels -> Users]
  /\ owner      = Nobody
  /\ ownerEpoch = 0
  /\ epoch      = 0
  /\ current    = Nobody
  /\ localLock  = Nobody
  /\ task       = "none"
  /\ pc         = [q \in Chats |-> "idle"]
  /\ gen        = [q \in Chats |-> 0]
  /\ inner      = [q \in Chats |-> 0]
  /\ leave      = [q \in Chats |-> "ok"]
  /\ passes     = [q \in Chats |-> 0]
  /\ prod       = [q \in Chats |-> "none"]
  /\ parts      = [q \in Chats |-> 0]
  /\ queue      = [q \in Chats |-> 0]
  /\ marker     = [q \in Chats |-> "none"]
  /\ stopped    = [q \in Chats |-> FALSE]
  /\ stale      = [q \in Chats |-> 0]
  /\ cpc        = [c \in Cancels |-> "idle"]

Goto(q, where) == pc' = [pc EXCEPT ![q] = where]

-----------------------------------------------------------------------------
(* The reservation.                                                        *)

\* Producers that hold a lease of the model pool (_inference_refs).
Leased == {q \in Chats : prod[q] \in {"leased", "putting"}}

PoolIdle == Leased = {} /\ \A q \in Chats : stale[q] = 0

\* Mutant: a registered GPU task is not looked at.
MayReserveBesideTask == owner = Nobody /\ PoolIdle

\* begin_generation_for_user: nobody has the runner, the pool is idle and no
\* GPU task is registered.
MayReserve == owner = Nobody /\ PoolIdle /\ task \in {"none", "checking"}

Reserve(u) ==
  /\ epoch' = epoch + 1
  /\ ownerEpoch' = epoch + 1
  /\ owner' = u

\* Mutant: the epoch is not compared.
EndEpochAny(u, e) ==
  /\ owner' = IF owner = u THEN Nobody ELSE owner
  /\ UNCHANGED <<ownerEpoch, epoch>>

\* end_generation_for_user with the epoch of the reservation,
EndEpoch(u, e) ==
  /\ owner' = IF e = ownerEpoch /\ owner = u THEN Nobody ELSE owner
  /\ UNCHANGED <<ownerEpoch, epoch>>

\* assert_generation_available_for_user.
AvailableTo(u) == owner \in {Nobody, u}

\* cancel_generation_for_user: the pool's generation is over, and so is
\* whatever reservation the user has; it raises when another user has the
\* runner.
CancelFor(u) ==
  IF AvailableTo(u)
  THEN /\ current' = Nobody
       /\ owner' = Nobody
       /\ UNCHANGED <<ownerEpoch, epoch>>
  ELSE UNCHANGED <<current, ownerVars>>

-----------------------------------------------------------------------------
(* The chat route and its stream.                                          *)

\* POST /chat: reserve before the response, or refuse the request.
BeginChat(q) ==
  /\ pc[q] = "idle"
  /\ IF MayReserve
     THEN /\ Reserve(userOf[q])
          /\ gen' = [gen EXCEPT ![q] = epoch + 1]
          /\ Goto(q, "pass")
     ELSE /\ Goto(q, "refused")
          /\ UNCHANGED <<ownerVars, gen>>
  /\ UNCHANGED <<userOf, current, localLock, task, inner, leave, passes, prodVars, cpc>>

\* The route's try begins after it has prepared the reply: what raises before,
\* or a client that is gone before the stream starts, leaves the reservation
\* where it is.
FailEarly(q) ==
  /\ pc[q] = "pass"
  /\ passes[q] = 0
  /\ Goto(q, "lost")
  /\ UNCHANGED <<userOf, ownerVars, current, localLock, task, gen, inner, leave,
                 passes, prodVars, cpc>>

\* stream_local_updates: a reservation that a cancel has ended is made once
\* more, or the pass raises and the route cancels.
BeginPass(q) ==
  /\ pc[q] = "pass"
  /\ passes[q] < MaxPasses
  /\ passes' = [passes EXCEPT ![q] = @ + 1]
  /\ \/ /\ owner # Nobody
        /\ Goto(q, "lock")
        /\ UNCHANGED <<ownerVars, current, inner>>
     \/ /\ MayReserve
        /\ Reserve(userOf[q])
        /\ inner' = [inner EXCEPT ![q] = epoch + 1]
        /\ Goto(q, "lock")
        /\ UNCHANGED current
     \/ /\ owner = Nobody /\ ~MayReserve
        /\ CancelFor(userOf[q])
        /\ Goto(q, "done")
        /\ UNCHANGED inner
  /\ UNCHANGED <<userOf, localLock, task, gen, leave, prodVars, cpc>>

TakeLocalLock(q) ==
  /\ pc[q] = "lock"
  /\ localLock = Nobody
  /\ localLock' = q
  /\ Goto(q, "prepare")
  /\ UNCHANGED <<userOf, ownerVars, current, task, gen, inner, leave, passes,
                 prodVars, cpc>>

\* _ensure_model_switch returns: a new generation id, a new bridge and a thread.
\* The thread of the pass before may be there still: its bridge is cancelled.
StartProducer(q) ==
  /\ pc[q] = "prepare"
  /\ current' = q
  /\ prod'    = [prod    EXCEPT ![q] = "spawned"]
  /\ parts'   = [parts   EXCEPT ![q] = 0]
  /\ queue'   = [queue   EXCEPT ![q] = 0]
  /\ marker'  = [marker  EXCEPT ![q] = "none"]
  /\ stopped' = [stopped EXCEPT ![q] = FALSE]
  /\ stale'   = [stale   EXCEPT ![q] = IF prod[q] \in {"spawned", "leased", "putting"}
                                       THEN @ + 1 ELSE @]
  /\ Goto(q, "consume")
  /\ UNCHANGED <<userOf, ownerVars, localLock, task, gen, inner, leave, passes, cpc>>

\* Mutant: a consumer that leaves does not cancel the bridge.
StopConsumingQuietly(q, how) ==
  /\ leave' = [leave EXCEPT ![q] = how]
  /\ UNCHANGED stopped
  /\ Goto(q, "stop")

\* The finally of stream_updates up to its await.
StopConsuming(q, how) ==
  /\ leave' = [leave EXCEPT ![q] = how]
  /\ stopped' = [stopped EXCEPT ![q] = TRUE]
  /\ Goto(q, "stop")

\* bridge.next(): an update, after which a stale generation id ends the loop,
\* or the marker that the producer is over or has failed.
Receive(q) ==
  /\ pc[q] = "consume"
  /\ \/ /\ queue[q] > 0
        /\ queue' = [queue EXCEPT ![q] = @ - 1]
        /\ IF current = q THEN UNCHANGED <<leave, stopped, pc>>
                          ELSE StopConsuming(q, "ok")
     \/ /\ queue[q] = 0
        /\ marker[q] # "none"
        /\ StopConsuming(q, IF marker[q] = "done" THEN "ok" ELSE "error")
        /\ UNCHANGED queue
  /\ UNCHANGED <<userOf, ownerVars, current, localLock, task, gen, inner, passes,
                 prod, parts, marker, stale, cpc>>

\* Mutant: the lock stays with a pass whose client is gone.
LeaveLockUnlessGone(q) ==
  localLock' = IF localLock = q /\ leave[q] # "gone" THEN Nobody ELSE localLock

LeaveLock(q) == localLock' = IF localLock = q THEN Nobody ELSE localLock

\* The pass ends the reservation it made itself.
EndInner(q) ==
  /\ inner' = [inner EXCEPT ![q] = 0]
  /\ IF inner[q] = 0 THEN UNCHANGED ownerVars ELSE EndEpoch(userOf[q], inner[q])

\* The route's handlers of an error or a disconnect.  What they cancel
\* includes the reservation of the pass, and any newer one of the user: no epoch
\* is compared.
GiveUp(q) ==
  /\ CancelFor(userOf[q])
  /\ inner' = [inner EXCEPT ![q] = 0]
  /\ Goto(q, "done")

\* wait_for_producer is over, or its second has passed, or it is cancelled
\* too: the lock is given back, and the next pass begins or the route gives up.
LeavePass(q) ==
  /\ pc[q] = "stop"
  /\ LeaveLock(q)
  /\ IF leave[q] = "ok"
     THEN /\ EndInner(q)
          /\ Goto(q, "pass")
          /\ UNCHANGED current
     ELSE GiveUp(q)
  /\ UNCHANGED <<userOf, task, gen, leave, passes, prodVars, cpc>>

\* The client disconnects while the chat is in an await: CancelledError there.
Disconnect(q) ==
  /\ \/ /\ pc[q] \in {"consume", "stop"}
        /\ StopConsuming(q, "gone")
        /\ UNCHANGED <<ownerVars, current, localLock, inner>>
     \/ /\ pc[q] \in {"lock", "prepare", "pass"}
        /\ passes[q] > 0
        /\ localLock' = IF localLock = q THEN Nobody ELSE localLock
        /\ leave' = [leave EXCEPT ![q] = "gone"]
        /\ GiveUp(q)
        /\ UNCHANGED stopped
  /\ UNCHANGED <<userOf, task, gen, passes, prod, parts, queue, marker, stale, cpc>>

\* Mutant: the finally of the route does not end the reservation.
FinishForgets(q) ==
  /\ pc[q] = "pass"
  /\ passes[q] > 0
  /\ Goto(q, "done")
  /\ UNCHANGED <<userOf, ownerVars, current, localLock, task, gen, inner, leave,
                 passes, prodVars, cpc>>

\* The reply is complete, or the client is found gone between two passes: the
\* route's finally ends its own reservation.
Finish(q) ==
  /\ pc[q] = "pass"
  /\ passes[q] > 0
  /\ EndEpoch(userOf[q], gen[q])
  /\ Goto(q, "done")
  /\ UNCHANGED <<userOf, current, localLock, task, gen, inner, leave, passes,
                 prodVars, cpc>>

\* The client disconnects while an update is on its way to it: the generators
\* are dropped and closed one by one, each by a task of its own, the route's
\* first.
Drop(q) ==
  /\ pc[q] = "consume"
  /\ parts[q] > 0
  /\ EndEpoch(userOf[q], gen[q])
  /\ Goto(q, "dropped")
  /\ UNCHANGED <<userOf, current, localLock, task, gen, inner, leave, passes,
                 prodVars, cpc>>

CloseDropped(q) ==
  /\ \/ /\ pc[q] = "dropped"
        /\ LeaveLock(q)
        /\ EndInner(q)
        /\ Goto(q, "closed")
        /\ UNCHANGED stopped
     \/ /\ pc[q] = "closed"
        /\ stopped' = [stopped EXCEPT ![q] = TRUE]
        /\ Goto(q, "done")
        /\ UNCHANGED <<localLock, ownerVars, inner>>
  /\ UNCHANGED <<userOf, current, task, gen, leave, passes, prod, parts, queue,
                 marker, stale, cpc>>

ChatStep(q) ==
  \/ BeginPass(q) \/ TakeLocalLock(q) \/ StartProducer(q) \/ Receive(q)
  \/ LeavePass(q) \/ Finish(q) \/ CloseDropped(q)

-----------------------------------------------------------------------------
(* The producer thread.                                                    *)

ProdRest == <<userOf, ownerVars, current, localLock, task, chatVars, cpc, stale>>

TakeLease(q) ==
  /\ prod[q] = "spawned"
  /\ prod' = [prod EXCEPT ![q] = "leased"]
  /\ UNCHANGED <<parts, queue, marker, stopped, ProdRest>>

\* should_stop().
ShouldStop(q) == stopped[q] \/ current # q

Produce(q) ==
  /\ prod[q] = "leased"
  /\ ~ShouldStop(q)
  /\ parts[q] < MaxParts
  /\ parts' = [parts EXCEPT ![q] = @ + 1]
  /\ prod'  = [prod  EXCEPT ![q] = "putting"]
  /\ UNCHANGED <<queue, marker, stopped, ProdRest>>

\* Mutant: the size of the queue is not a limit.
RoomAlways(q) == queue[q] >= 0

Room(q) == queue[q] < QueueSize

\* publish() waits for room in the queue or for the consumer to leave.
Put(q) ==
  /\ prod[q] = "putting"
  /\ \/ /\ Room(q)
        /\ queue' = [queue EXCEPT ![q] = @ + 1]
     \/ /\ stopped[q]
        /\ UNCHANGED queue
  /\ prod' = [prod EXCEPT ![q] = "leased"]
  /\ UNCHANGED <<parts, marker, stopped, ProdRest>>

\* The tokens are over, the producer was told to stop, or it failed: the lease
\* ends.
EndLease(q) ==
  /\ prod[q] = "leased"
  /\ prod' = [prod EXCEPT ![q] = "ending"]
  /\ UNCHANGED <<parts, queue, marker, stopped, ProdRest>>

\* The error, if it is still wanted, or producer_finished.
PutMarker(q) ==
  /\ prod[q] = "ending"
  /\ \/ /\ stopped[q]
        /\ UNCHANGED marker
     \/ /\ Room(q)
        /\ \/ marker' = [marker EXCEPT ![q] = "done"]
           \/ ~ShouldStop(q) /\ marker' = [marker EXCEPT ![q] = "error"]
  /\ prod' = [prod EXCEPT ![q] = "ended"]
  /\ UNCHANGED <<parts, queue, stopped, ProdRest>>

\* A producer of an earlier pass finds its bridge cancelled.
StaleEnds(q) ==
  /\ stale[q] > 0
  /\ stale' = [stale EXCEPT ![q] = @ - 1]
  /\ UNCHANGED <<userOf, ownerVars, current, localLock, task, chatVars, cpc,
                 prod, parts, queue, marker, stopped>>

ProducerStep(q) ==
  TakeLease(q) \/ Produce(q) \/ Put(q) \/ EndLease(q) \/ PutMarker(q)

-----------------------------------------------------------------------------
(* The cancel routes and GPU tasks.                                        *)

CancelRest == <<userOf, localLock, task, chatVars, prodVars>>

\* POST /cancel-generation has no await that suspends.
CancelGeneration(c) ==
  /\ cpc[c] = "idle"
  /\ CancelFor(userOf[c])
  /\ cpc' = [cpc EXCEPT ![c] = "done"]
  /\ UNCHANGED CancelRest

\* POST /cancel ends the generation, unloads and waits for idle in threads;
\* the reservation the user has by then is ended after that.
CancelAndUnload(c) ==
  /\ \/ /\ cpc[c] = "idle"
        /\ AvailableTo(userOf[c])
        /\ cpc' = [cpc EXCEPT ![c] = "unload"]
        /\ UNCHANGED <<current, ownerVars>>
     \/ /\ cpc[c] = "unload"
        /\ current' = Nobody
        /\ cpc' = [cpc EXCEPT ![c] = "wait"]
        /\ UNCHANGED ownerVars
     \/ /\ cpc[c] = "wait"
        /\ owner' = IF owner = userOf[c] THEN Nobody ELSE owner
        /\ cpc' = [cpc EXCEPT ![c] = "done"]
        /\ UNCHANGED <<current, ownerEpoch, epoch>>
  /\ UNCHANGED CancelRest

TaskRest == <<userOf, ownerVars, current, localLock, chatVars, prodVars, cpc>>

\* prepare_for_gpu_task: no reservation, and the pool is idle.
MayRunTask == owner = Nobody /\ PoolIdle

\* A job prepares on the loop, and registers without an await in between.
TaskBegin ==
  /\ "job" \in TaskKinds
  /\ task \in {"none", "checking"}
  /\ MayRunTask
  /\ task' = "job"
  /\ UNCHANGED TaskRest

\* A download prepares in a thread: what it checked may have changed when it
\* registers.  A job that has registered meanwhile makes it raise.
DownloadCheck ==
  /\ "download" \in TaskKinds
  /\ task = "none"
  /\ MayRunTask
  /\ task' = "checking"
  /\ UNCHANGED TaskRest

DownloadBegin ==
  /\ task = "checking"
  /\ task' = "download"
  /\ UNCHANGED TaskRest

TaskEnd ==
  /\ task # "none"
  /\ task' = "none"
  /\ UNCHANGED TaskRest

Next ==
  \/ \E q \in Chats : \/ BeginChat(q) \/ FailEarly(q) \/ Disconnect(q) \/ Drop(q)
                      \/ ChatStep(q) \/ ProducerStep(q) \/ StaleEnds(q)
  \/ \E c \in Cancels : CancelGeneration(c) \/ CancelAndUnload(c)
  \/ TaskBegin
  \/ DownloadCheck
  \/ DownloadBegin
  \/ TaskEnd

\* The loop runs every coroutine that can go on and asyncio's lock is handed
\* out in order; threads run.  Requests, cancels, disconnects and GPU tasks are
\* not promised.
Fairness ==
  \A q \in Chats : SF_vars(ChatStep(q)) /\ WF_vars(ProducerStep(q)) /\ WF_vars(StaleEnds(q))

Spec     == Init /\ [][Next]_vars
FairSpec == Spec /\ Fairness

-----------------------------------------------------------------------------
(* Properties.                                                             *)

Working == {"pass", "lock", "prepare", "consume", "stop", "dropped"}

\* Types of all variables; the queue is never longer than its size, the end
\* marker included.
TypeOK ==
  /\ userOf \in [Chats \union Cancels -> Users]
  /\ owner \in Users \union {Nobody}
  /\ ownerEpoch \in Nat
  /\ epoch \in Nat
  /\ current \in Chats \union {Nobody}
  /\ localLock \in Chats \union {Nobody}
  /\ task \in {"none", "job", "checking", "download"}
  /\ pc \in [Chats -> {"idle", "refused", "closed", "lost", "done"} \union Working]
  /\ gen \in [Chats -> Nat]
  /\ inner \in [Chats -> Nat]
  /\ leave \in [Chats -> {"ok", "error", "gone"}]
  /\ passes \in [Chats -> 0 .. MaxPasses]
  /\ prod \in [Chats -> {"none", "spawned", "leased", "putting", "ending", "ended"}]
  /\ parts \in [Chats -> 0 .. MaxParts]
  /\ queue \in [Chats -> 0 .. QueueSize]
  /\ marker \in [Chats -> {"none", "done", "error"}]
  /\ \A q \in Chats : queue[q] = QueueSize => marker[q] = "none"
  /\ stopped \in [Chats -> BOOLEAN]
  /\ stale \in [Chats -> Nat]
  /\ cpc \in [Cancels -> {"idle", "unload", "wait", "done"}]

\* A reservation belongs to a chat of its user that works, or that was lost
\* between its reservation and the route's try: from there on no reply, error,
\* disconnect or cancel, in any order, leaves a reservation behind.  That of a
\* lost chat stays until the user cancels.
OwnerIsWorking ==
  owner # Nobody =>
    \E q \in Chats : /\ userOf[q] = owner
                     /\ pc[q] \in Working \union {"lost"}
                     /\ ownerEpoch \in {gen[q], inner[q]}

\* A GPU job and a reservation never exist together, also when a reservation
\* is made again in the middle of a reply.
TaskOrReservation == task = "job" => owner = Nobody

\* Two producers never share the model, except when the consumer of one of
\* them has left: it has told its producer to stop, or is being closed.
OneLiveProducer ==
  \A p, q \in Leased :
    p # q => \E r \in {p, q} : stopped[r] \/ pc[r] \in {"dropped", "closed"}

\* A chat whose reply is complete, whose generators are dropped or which goes on
\* to its next pass does not end the reservation of another chat, not even when
\* its own was cancelled and its user has reserved the runner again since.  A chat
\* that ends by an error or a disconnect cancels without an epoch: it may end
\* such a newer reservation of its user, but never that of another user.
FinishKeepsOthers ==
  [][\A q \in Chats :
       /\ \A p \in Chats :
            /\ p # q /\ ownerEpoch \in {gen[p], inner[p]}
            /\ \/ Finish(q) \/ Drop(q) \/ CloseDropped(q)
               \/ LeavePass(q) /\ leave[q] = "ok"
            => owner' = owner
       /\ /\ owner \notin {Nobody, userOf[q]}
          /\ ChatStep(q) \/ Drop(q) \/ Disconnect(q)
          => owner' = owner]_vars

\* Every accepted chat is answered or given up, or lost before it began,
\* whatever is cancelled: no chat waits for ever for the lock, the queue or the
\* producer.
ChatEnds == \A q \in Chats : pc[q] = "pass" ~> pc[q] \in {"lost", "done"}

\* No producer waits for ever in a full queue, holding its lease of the model.
LeaseEnds ==
  \A q \in Chats :
    (q \in Leased \/ stale[q] > 0) ~> (q \notin Leased /\ stale[q] = 0)

=============================================================================
