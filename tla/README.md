# Verification of SeisoLocalAI

TLA+ models of the parts of SeisoLocalAI whose correctness depends on the order
in which coroutines, threads, requests and crashes meet, the TLC runs that check
them on small instances, and TLAPS proofs for every instance. Paths below are
relative to the repository.

## 1. The system

SeisoLocalAI trains, serves, compresses and exports language models on one
machine. *Forge* (`forge/`, FastAPI) is the local server; `seiso/` is the library
with the trainers, the inference backends and the *marketplace* (`seiso/pay/`),
which sells training jobs and inference calls for prepaid sats. `forge-ui/` is
the web and desktop interface, `contracts/` the on-chain router, `formal/` holds
Lean proofs about provenance (not about the code modelled here).

### Inventory

| Component | State it keeps | Operations | Hard behaviour | What makes it correct |
|---|---|---|---|---|
| Training jobs: `forge/api/routes/training.py`, `forge/orchestrators/base.py`, `training.py` | row of `training_jobs`; `JobRecord` (status, `cancel_requested`); asyncio task; worker future | create, background `_run`, `start`, `execute`, `cancel`, eviction | coroutines interleave at every await; cancel at any point; database errors; restart | a cancel is never overtaken by a success; a job ends once; every row ends; a completed row has a checkpoint |
| Cancel token: `seiso/training/cancel.py` | `_events`, `_pending_requests` | request, register, clear, poll | request before register, clear after | no cancel is lost |
| GPU task registry: `forge/services/memory_release.py`, `executors.py` | `_ACTIVE_GPU_TASKS`; one GPU thread | gate, register, release | two tasks at the gate; exits by exception; chats that reserve at the same time | one task at a time, none next to a chat, no entry leaks |
| Orchestrated jobs and events: `base.py`, `forge/services/job_events.py`, `forge/db/stores/job_events.py`, `forge/api/routes/_stream.py` | bounded buffers, subscriber queues, table `job_events` | emit, append, replay, stream | a stream opened, left or ended at any moment; eviction; restart | no line lost, doubled or out of order; no stream hangs; a replay ends as the job did |
| Inference orchestrator: `forge/orchestrators/inference.py`, `forge/api/routes/inference.py` | owner and epoch of the reservation, local lock, generation id | reserve, pass, end, cancel | late ends, disconnects, cancels between passes, failures before the first | one live producer; a reservation belongs to a chat that works; the end of a chat does not hit another's reservation |
| Stream bridge: `seiso/inference/stream_bridge.py` | bounded queue, end marker, cancelled flag | publish, next, cancel | full queue with a gone consumer | no stuck producer |
| Model pool: `seiso/inference/model_pool/pool.py`, `seiso/inference/runner.py` | loaded handle, references, pending unload, resident GPU lock | begin/end inference, switch, unload, reload | unload while referenced; concurrent loads; timeouts | a handle in use is never released; every reference and lock level is given back once |
| GPU resource lock: `seiso/memory/gpu_resource_lock.py` | file lock, depth, guard | acquire, release, probe | threads and processes; timeouts; death of a holder; a file that cannot be opened | mutual exclusion of the processes that lock one file |
| Marketplace jobs: `seiso/pay/jobs.py`, `store.py`, `ark.py` | session file, job files, ledger; `_RUNNING`, `_JOB_LOCK` | start, hold, train, settle, refund, cancel | threads with stale copies of a job; exceptions and crashes between two file writes | every sat is accounted for; a job is refunded at most once, and what was taken; receipts are true; one trainer |
| Marketplace app: `seiso/pay/app.py`, `inference.py` | none of its own | preflight, upstream call, debit | balance read long before it is debited | no overdraft, and a served call is billed or refused |
| Funding challenges: `seiso/pay/l402.py`, `x402.py`, `seiso_cli/commands/pay.py` | challenge files, fund ids in the session file | mint, complete | crash between credit and settlement, or inside a write; retries; a second process on the same files | a payment credits once, and a settled one has its credit |
| Instance lock: `forge/instance_lock.py` | lock file | acquire, take over a stale lock | two servers starting | one server |
| Mesh coordinator: `seiso/mesh/coordinator.py` | plan with rank claims | publish, claim, heartbeat | peers merge copies by hand | one worker per rank |
| Token revocation, rate limits, caches | maps with expiry | put, get, expire | none: one step each | an entry is there until it expires |
| Swarm: `seiso/agent/swarm`, `forge-ui/src-tauri/src/swarm.rs` | process table | spawn, poll, stop | limit check before spawn | limit respected |
| Contracts: `contracts/src` | paid ids, balances | pay, withdraw, set price | order of transactions | an id is paid once |
| Trainers, kernels, catalog, UI | numerical or presentation state | | | out of scope |

### How the modelled parts interact

`POST /jobs` writes the row, creates the record and spawns `_run()` on the event
loop. `_run()` marks the row running, starts the orchestrator task and waits for
it. The task waits for `_HF_TOKEN_LOCK`, passes the GPU gate, registers in
`_ACTIVE_GPU_TASKS` and in the cancel token, and awaits a call on the single GPU
thread. `POST /jobs/{id}/cancel` sets the token, then cancels and awaits the
task, and writes the row. The row, the record and the registry are written by
three different actors, which is why the order matters. What the job says goes
to buffers and queues for the open streams, and by one task per event to the
table from which later streams are replayed.

The GPU gate also looks at the chat side: a chat reserves the one inference
runner (owner and epoch), refuses when a GPU task is registered, takes the local
lock for each pass of its reply and starts a producer thread, which holds a lease
of the model pool and talks to the event loop through a bounded queue. The pool
keeps one model loaded; a request switches it, a cancel or a GPU job unloads it.
Whatever uses the GPU counts a level of the GPU resource lock, a file lock that
keeps a second process (a command line training) out.

In the marketplace each request runs in a thread. A runner creates a job file,
takes the quote out of the session balance (escrow), trains in a subprocess and
settles or refunds; a cancel thread flags the job file and refunds. `store._lock`
protects one store call at a time; the job file is rewritten from each thread's
own copy. Chat calls and payments use the same session balance; a payment is a
challenge file that is minted, paid and completed, by the server or by a run of
the command line, which is another process.

## 2. Modules

| Module | Content |
|---|---|
| `TrainingJobs.tla` | training jobs, cancel token, GPU registry and thread, worker processes, cancel requests, restart |
| `AbstractJobs.tla` | a job as its owner sees it; implemented by `TrainingJobs` |
| `JobEvents.tla` | what a job emits, the table of its events, log and metric streams |
| `Generations.tla` | the reservation of the runner, chats and their passes, the stream bridge, cancels, GPU tasks |
| `ModelPool.tla` | the loaded model, leases, switch, unload, reload, the resident GPU lock |
| `GpuResourceLock.tla` | file locks, guard and depth of several processes and their threads |
| `ExclusiveLock.tla` | what the lock of one file promises; implemented by `GpuResourceLock` for each of its files |
| `PayEscrow.tla` | one session's ledger, job runners, cancels, chat calls, exceptions, crashes |
| `PayFunding.tla` | challenges, the session file and its locks in two processes, torn files |
| `MC*.tla` | constants and symmetry for TLC, one per module that is run |
| `TrainingJobs_proofs`, `TrainingCancel_proofs`, `JobEvents_proofs`, `Generations_proofs`, `ModelPool_proofs`, `GpuResourceLock_proofs`, `PayEscrow_proofs`, `PayFunding_proofs` | the theorems |

Definitions that begin with "Mutant:" in their comment are faulty variants of the
definition after them. They are used nowhere: put in its place, each makes a
property fail, which shows that the property depends on that code.

### TrainingJobs, AbstractJobs

All code but the GPU workers runs on one asyncio loop, so an action is the code
between two awaits that may suspend. `run[j]` is the point at which the route's
`_run()` is suspended, `task[j]` that of the orchestrator's task, `req[c]` that
of a cancel request; `row`, `rec`, `event`, `sticky` and `gpu` are the database
column, `JobRecord.status`, the token's event, its `_pending_requests` and the
training entries of `_ACTIVE_GPU_TASKS`.

* `CreateJob` is the row, the record and the start of `_run()` in one step: the one
  database connection is locked until the row is committed, and whoever waits for
  the lock runs after the step that makes the record.
* The synchronous part of `_execute_training`, from the validation of the config
  to the submission to the GPU thread or the launch, is one action (`BeginTraining`)
  with three ends: the gate refuses, something else raises, the worker is submitted. The
  first two leave before the `try` whose `finally` clears the token.
* `FinishTask` is the end of `Orchestrator._run`, in the same loop turn as the
  end of `execute()`.
* `killed[j]` is a `task.cancel()` that has been called and not yet delivered. A
  task cancelled before its first step (`AbortUnstarted`) runs no handler at all.
* `CancelTraining` follows asyncio: cancelling the task cancels the awaited
  executor future, a queued call is dropped, a running one goes on alone.
* `GPU_EXECUTOR` has one thread: `WorkerStart` needs no other running call.
* A distributed plan (`Distributed`) trains in a worker process: being launched,
  running, then ended with a checkpoint or an error. `cancel()` marks the record,
  signals the process (`SignalProcess`) and waits for it; after its end or 5 s, when
  it is killed (`CancelGrace`), it cancels the task, or finds the job over. A process
  that fails to start, or whose output cannot be read, ends the task
  (`DistributedFails`); in the second case, and after a crash of the server, it goes
  on as an `"orphan"`.
* `OtherGpuBegin`/`OtherGpuEnd` stand for the other GPU jobs (export, compress,
  distill), which pass the same gate.
* A database statement may raise (`MaxFaults`), in `_run()`, in its `except`
  block, in the metrics write and in the cancel route. `Restart` is a crash and
  the `reconcile_stale_jobs` of the next start; it counts as a fault too.

`AbstractJobs` says what an owner may rely on: a job is pending, running, then
terminal; a terminal state changes only to cancelled, when the database knows a
cancel that the table missed (`Correct`); a job is forgotten only after its end or
by a restart, and a cancel that was asked for while it ran excludes `completed`.
The mapping is the record, its cancel flag and nothing of the coroutines.

Abstractions. `_HF_TOKEN_LOCK` hands over in FIFO order; the model lets any waiter
win. Eviction takes the oldest finished record; the model takes any. Awaiting an
uncontended asyncio lock does not suspend, and `resource_key` is `None` in every
orchestrator, so `start()` is one action. Another job of the same kind is in the
model, one other GPU task at a time is enough since the gate admits one.

### JobEvents

One job, its record (`kept`), its status and its worker; how it comes to its end
is `TrainingJobs`, here it ends in any way, and a cancelled job's worker may go
on speaking. `buffer` is the deque with a maximal length, `queue` the queue of a
stream, `tasks` the created `append_job_event` tasks, which get the connection in
order, `rows` the table. An action of a stream is the code between two of its
yields or awaits; a metric stream runs as a task of `stream_training`, which
forwards to an unbounded queue without a suspension, a log stream goes at the
speed of its client.

Lines are numbers, so that order, loss and doubling are visible: `got` is what a
stream has yielded, `from` the last line that was gone when it attached. A stream
looks at its job every 0.05 s; the model has no such step, and no stream needs it
to end (`StreamsEnd`): the end mark is put into every queue.

### Generations

`owner`, `ownerEpoch` and `epoch` are the reservation of
`InferenceOrchestrator`, `current` is the chat whose generation id the pool has,
`pc[q]` where the coroutine of a chat is, from its reservation over the passes of
the reply to its end. The producer thread of a pass takes a lease, puts updates
in the queue and leaves an end marker; `stale[q]` counts producers of earlier
passes that are told to stop and have not yet noticed. A client may disconnect in
any await (`Disconnect`, a `CancelledError`) or while an update is on its way to
it (`Drop`: the generators are closed one by one, the inner ones later).
`CancelGeneration` and `CancelAndUnload` are the two cancel routes; the second
has awaits. A GPU job prepares and registers without a suspension, a download
checks in a thread and registers later.

The route reserves the runner (line 578) long before its `try` (line 705). What
raises in between, or a client that is gone before the generator starts, is
`FailEarly`: the chat is `"lost"` and its reservation stays until its user cancels.
`OwnerIsWorking` names these chats, and says that no other path leaves a
reservation behind. Ends with an epoch (`Finish`, `Drop`) and without one (`GiveUp`,
the cancel routes) are kept apart in `FinishKeepsOthers`: the first never touch
another chat's reservation, the second never another user's.

Left out: chats that run as a job, through a provider or the router, and preloads.
They reserve and end in the same way. What the text is, and how it continues in
the next pass, is not the model's.

### ModelPool

A request makes room, takes a lease (`refs`, a level of the GPU lock), gets the
model by `switch()`, generates, and gives everything back; a freer cancels and
unloads or empties the pool for a GPU job. An action is the code between two uses
of a lock. `next[t]` is where a thread returns to after a release or an unload,
`detached[t]` the handle it has taken out of the pool and will close, `closed` the
handles that were closed.

* A wait for idle may time out at any time (`WaitIdle`).
* Generation ids are left out (they are in `Generations`), and the GPU lock is its
  depth in this process: `GpuResourceLock` shows that the depth is exclusive.
* `slipped` notes that a lease began between a switch's wait for idle and its
  detaching of the handle, two steps with no lock between them.
  `LeaseKeepsHandle` excludes that case, in which the handle is released under
  the new lease.
* The level a GPU job holds for itself is not counted.
* An exception inside the release of a handle (line 257, an external engine) is not
  modelled, nor is the tool path of `runner.chat`, which on a cancel ends its lease
  while its executor thread may still generate: `LeaseKeepsHandle` is about the
  streaming path.

### GpuResourceLock, ExclusiveLock

Threads of several processes acquire and release (`_guard`, `_depth`, the
`flock`), time out, probe for another holder, and die. A use may be given back by
another thread than the one that took it. The kernel's lock is modelled from its
use: it belongs to an open file, is refused to any other one, and is dropped at
the death of the process.

A call that cannot open the configured file falls back to one in the temporary
directory (lines 51-53, 111-113), so there are two files (`Files`), and each call
gets either of them or, in the end, an exception (`OpenFails`, `ProbeTry`). Which
one is a free choice at every call. The code therefore does not keep two
processes off the GPU in all cases: one that could not open the shared file runs
beside one that has it, and a probe of the one does not see the other. What it
does keep, and what is stated, is about one file: a process that uses the GPU has
the lock of the file it opened (`UseIsLocked`), a probe's no is true of the file
it looked at (`NoMeansFree`), and the depths counted on a file implement
`ExclusiveLock` (`held <- HeldThrough(f)`), in which only one process has any uses.

### PayEscrow

An action is one critical section of `store._lock`, one read of a job file, or a
step of the trainer. `pc[t]` is where a runner (named by its job) or a cancel thread
is, `mine[t]` is its own copy of the job, `file[j]` the job file. `held`, `settles`,
`debited` are the `escrow_hold`, `job_settle` and `debit` entries of the ledger;
`taken` and `unlisted` are history: the quotes and bills that the session file has
paid, which it does not list itself. `SaveStep` is a save of the thread's copy over
the file, whatever the file says: the overwrites that the code can do are all there.

`ThreadFault` is an exception that escapes a store call (disk error, a JSON file
read while it is being rewritten): the thread unwinds through the `finally` of
`start_job` or the `with _JOB_LOCK`. `Crash` ends all threads; files stay and
nothing repairs them. Both may fall between the save of the session and the ledger
entry of one store call (`SavedOnly`, `BillSavedOnly`): the sats have then moved and
the ledger does not say so.

`Books` has three parts. `SessionBooks`: paid in plus refunded is what is left plus
what was taken and billed. `RefundsReturn`: a refund returns a quote that was taken,
unless a cancel made it, since a cancel that comes before the hold, or after a
refused one, credits sats nobody paid (run `pay_unheld_refund`). `LedgerLists`: the
ledger has all of it unless a fault fell between the two files.

A payment (`Activate`) is the credit of `activate_session` with its fund id; an id
credited before is no step. A dry run and a real run are both covered (`dry` is
chosen at the start).

Abstractions. One session; all quotes have the same price; `Bills` is what a chat
call can cost; spent counters are one number. Log lines are left out but their
saves are kept. File writes are atomic, except that a reader may get an exception.

### PayFunding

The files of one session and its challenges, accessed by threads of two
processes: an action is one access to a file. `rail` and `store` are the locks of
`l402.py` (or `x402.py`, which has the same shape) and of `store.py`, each one per
process. A completing thread loads the challenge under the rail's lock, credits
the session in its own read and write, and settles the challenge; a client may
complete a challenge any number of times. `write_text` empties a file before it
writes: a death of the process may leave the challenge torn, or the session empty,
its balance and fund ids gone (`EmptySession`, `torn`), and a read of such a file or
beside another process's write raises (`ReadRaises`). The code has no copy of an
emptied session: `NothingLost` lets that step lose credits and no other, and
`SettledIsCredited` excludes what follows it.
`overlapped` notes that two processes were between read and write at once: with
locks that belong to one process a write can then undo another, and
`SettledIsCredited` and `NothingLost` exclude it. `SessionAdds` does not.

The checks of macaroons, preimages and signatures are a completion that is
accepted; one that is not accepted has no effect.

## 3. Runs

Deadlock checking is on for `gpu_lock` only, whose threads can go on for ever. In
the other models jobs, requests and payments are finite and the system stops when
they are used up; that nothing waits for ever is what the liveness properties say.

| Run | Instance | Shows |
|---|---|---|
| `training_safety` | 2 jobs, one of them distributed, 2 cancels, 1 fault or crash, a job table with room for one, so that finished records are evicted | `TypeOK`, `GpuRegistry`, `CompletedHasCheckpoint`, and the record of every job implements `AbstractJobs` (`ImplementsJobs`) |
| `training_liveness` | 2 jobs, one of them distributed, 1 cancel, 2 faults or crashes, no eviction, fair | `AckedCancelNotCompleted`, `EventuallySettled`, `CancelAnswered` |
| `job_events` | a log and a metric stream, buffers of 2 with 3 lines, so that they wrap; 1 failed append or restart; fair readers | `TypeOK`, `StreamsAreRuns`, `StreamsAreComplete`, `ReplayTellsTheEnd`, `StreamsEnd` |
| `generations` | 2 users, 2 chats with up to 2 passes that may fail early, 1 cancel, a GPU job or a download, a queue of 1 | `TypeOK`, `OwnerIsWorking`, `TaskOrReservation`, `OneLiveProducer`, `FinishKeepsOthers` |
| `generations_liveness` | 1 user, 2 chats with 1 pass of 2 updates for a queue of 1, 1 cancel, fair | `ChatEnds`, `LeaseEnds` |
| `model_pool` | 2 requests for any of 2 models, one of them in llama.cpp, 1 freer, 3 successful loads, fair | `TypeOK`, `Accounting`, `HandlesOwned`, `LeaseKeepsHandle`, `PendingUnloads`, `RequestsEnd` |
| `gpu_lock` | a process with 2 threads and one with 1, the shared file and the fallback, 2 nested uses, 1 death, fair | `TypeOK`, `UseIsLocked`, `NoMeansFree`, `CallsReturn`, `ImplementsExclusiveLock` |
| `pay_escrow` | 2 jobs, 1 cancel, 1 chat call, 1 payment of a quote and a call, 1 fault or crash, fair | `TypeOK` (no overdraft), `Books`, `ReceiptBacked`, `OneTrainer`, `EscrowResolved` |
| `pay_funding` | 2 challenges over HTTP and 1 of the command line, a completing and a debiting thread in the server, 1 run of the command line, 1 death, fair | `TypeOK`, `SessionAdds`, `SettledIsCredited`, `NothingLost`, `PaymentsSettle` |

Why the bounds are enough. Two jobs and two cancels are the smallest instance in
which two jobs compete for the GPU while each of two cancels may hit either (also
the same one twice). One fault or restart at any step gives every single failure
point, two of them a failure of the code that handles one. Two chats of possibly the
same user make late ends and cancels meet a newer reservation, and a queue of one is
full after one update. A payment of one quote and one call makes two jobs and a call
ask for more than there is; a second quote is taken after a refund, and the loser of
the GPU gate is such a job. Two requests and a freer are enough for every pair of a
switch, a lease and an unload, and three loads for a reload after a replacement. A
wrapped buffer needs one line more than its length. What happens in larger
instances, and with combinations of failures, is what the proofs are for.

Three runs are expected to find a violation. They state what the sources say and the
code does not keep:

| Run | Statement | What happens |
|---|---|---|
| `training_gpu_release` | `orchestrators/training.py:187` "Await completion before GPU release in finally (no timeout)." | the future that is shielded is already cancelled, so the wait ends at once and the registry entry goes while the worker thread trains; `clear()` also forgets the cancel, so the worker may not stop |
| `pay_unheld_refund` | `jobs.py:68` "Return escrowed sats to session balance; idempotent per job." | a cancel of a job that is pending, before its `escrow_hold` or after it was refused, credits the quote |
| `pay_paid_and_refunded` | `jobs.py:261` "Cancel won the race — do not settle as paid after refund." | the runner's saves overwrite the flag, or the cancel falls after the last check |

### What else the models show

Behaviours that the models have, that somebody reading the code may not expect,
and about which no property is claimed:

* `base.py:437`: `cancel()` awaits the task "so GPU release / resource unlock
  finish", but a task that was cancelled before its first step has no `finally`;
  its record stays running and keeps the gate closed for others until the
  background coroutine has ended.
* A worker process that writes a line over 64 KiB or one that is not UTF-8 fails its
  job and trains on, outside the GPU registry; so does one that survives a crash of
  the server, in a session of its own. Nobody stops either.
* `routes/training.py:465`, "Never overwrite a sticky terminal cancel": the first
  statement of `_run()` does, and such a row ends failed or cancelled, never
  completed (`AckedCancelNotCompleted`).
* A finished record that is evicted before `_run()` wakes up leaves its row
  running until the next start; a cancel answered from the database alone, for an
  evicted record, can be overwritten by the completed row. Both need a full table of
  500 jobs; `AckedCancelNotCompleted` and `EventuallySettled` are claimed without
  eviction.
* `pay/jobs.py:72`: a refund that was cut by a crash is not retried, because the
  cancel returns early once the status is cancelled. `pay/app.py:340`: an escrow or
  another debit can fall between the preflight and the debit of a chat call; the
  debit then fails and nothing is overdrawn.
* `pay/l402.py:338` says that a retry after a crash settles the challenge; after
  its expiry the retry is refused, and the challenge stays pending with its credit
  in the session.
* `cancel_generation_for_user` passes no epoch, and a chat that ends by an error or a
  disconnect calls it (`routes/inference.py:979-987`), as the cancel routes do. It ends
  whatever reservation the user has by then, also a newer one: TLC finds it in five
  steps (a chat begins its pass, a cancel ends its reservation, the user begins a
  second chat, the first client disconnects). `orchestrators/inference.py:107` says
  that the epoch is there "so a stale stream ``finally`` cannot clear a newer
  reservation"; the `finally` clears it on these two ways out.
  `FinishKeepsOthers` claims what holds: not another user's.
* `routes/inference.py:578` reserves before the `try` of line 705: a chat that fails in
  between keeps the runner reserved until its user cancels.
* `gpu_resource_lock.py:52`: processes that lock different files do not exclude each
  other (section 2).
* `base.py:425`: when a worker process cannot be read any more, a cancel does not find
  it although its task persists; in the model such a process is an orphan from the
  end of the task on. No property is about the difference.
* For a distributed job "ok" is the exit code of the worker process
  (`CompletedHasCheckpoint`); whether it left an artifact is not in the model.
* `model_download.py:251` checks for a reservation in a thread and registers later,
  so a download can run beside a chat, where `memory_release.py:302` says that they
  exclude each other.
* `list_job_events` lists the first 5000 rows: the replay of a longer job ends
  without its last lines, its status and its result (`ReplayTellsTheEnd` is claimed
  up to the limit).
* A metric stream whose job is evicted between the look at the record and the start
  of its task never ends on its own (`StreamsEnd` leaves it out); the client's
  disconnect ends it.
* In the pool, a lease that begins between a switch's wait for idle and its unload
  loses its handle (`slipped`), and a release that ends after the next load has
  begun gives back the resident level of the new model: the GPU lock is then
  held by the leases only (`Accounting` still adds up).

### Fairness

*TrainingJobs.* Weak fairness for each job's own steps and for each cancel
request that has begun: the event loop runs every ready coroutine, and a training
call or a worker process ends (by itself, by an error, at a poll of the token or on
a signal). New requests,
crashes, faults and the other GPU task are not promised. *PayEscrow.* Weak
fairness for each runner and each cancel thread that has begun: threads are
scheduled and `subprocess.run` has a timeout. `EscrowResolved` is claimed until the
first fault: after an exception between the hold and the settlement the code has nothing
that would return the escrow.
*Generations, ModelPool, GpuResourceLock, PayFunding.* Strong fairness for
whoever has begun a call and may have to wait for a lock: asyncio hands its locks
out in order, waiters of a Python lock queue in the operating system; loads and
generations return. *PayFunding* also assumes that a client which has paid
completes its challenge until it is answered. *JobEvents.* Weak fairness for the
steps of a stream: its client reads. Whether a job ends is not promised there.

`EventuallySettled` leaves out two cases in which no code is left to write the
row: the `except` block of `_run()` raises itself, or the last write of a cancel
request raises.

## 4. Proofs

TLAPS proves, for all constants that satisfy the modules' assumptions (finite sets
of jobs, chats and challenges, positive prices and sizes, bounds that are natural
numbers):

| Module | Theorems | Argument |
|---|---|---|
| `TrainingJobs_proofs` | `TypeCorrect`, `GpuExclusive`, `CheckpointBacked`, `CancelAlwaysWins`, `Refines` | The inductive invariant is the types, `Lifecycle` (which points of `_run()`, the task, the worker process and the record occur together), `Checkpoint` and `Waited` (a cancel waits for the process of a job that has trained). The registry is kept by every step given this (`GpuOfNext`): that no second job is in it follows from the gate and from which points of the task have an entry. `Refines` maps every action to a step or a stutter of `AbstractJobs`; `CancelAlwaysWins` is the same fact without the mapping |
| `TrainingCancel_proofs` | `CancelsAreDelivered`; `AckedCancelHolds` and `RowsAreOwned`, if the table has room for every job (`Room`) | A cancel marks the record, which then ends other than completed or goes in a crash (`Stopped`); no step of an abstract job undoes that, so `Refines` carries it (`StoppedStays`). `Kept`: a record stays until `_run()` is over, and what it writes is the record's status; `Answered`: a request that waits or is answered has stopped its job. With an eviction the record can go, and the property fails. `Killing`: a `cancel()` that is not yet delivered has its request waiting and a live task. `Orphaned`: a task that died before its first step leaves its row to that request |
| `JobEvents_proofs` | `TypeCorrect`, `StreamsRun`, `StreamsComplete`, `StreamsAreTold`, `ReplayTells` | `Stream` accounts for every line of the job: what a stream has yielded, what is left of the copied buffer and what waits in its queue follow each other, up to the last line emitted, or up to the job's end with the end mark behind it (`Queued`). `Noted`: once the job is over, a stream that waits has the end mark in its queue. Lemmas about one queue (`GoingLine`, `GoingEnd`, `ClosedReceive`, ...) are stated apart from the state. `Counters` bounds the numbers of the lines. `Table` orders the lines of the stored events and of the append tasks behind them, and bounds them by what the buffer of a gone record has dropped, so that a stream which reads the table and then the buffer still yields rising numbers (`Reading`). `Told` says what rows and tasks amount to together while nothing has failed: every line at its place, the last status, a result or none; an append only moves the border between the two. The lines of a kind are the ones that have a rank among the places of that kind (`Places`, `Rank`, `Nth`), and the lemmas `Ranks` and `NthPlace` show that this order has no gap |
| `PayEscrow_proofs` | `TypeCorrect`, `SatsAccounted`, `ReceiptsTrue`, `OneTrainerAtATime`, `EscrowIsOwned` | A save may overwrite the job file with an old copy, so the sums rest on the session and the ledger, not on job files: `Paid` says at which points a runner has taken its quote, `CopyBacked` that a copy which says paid has a settlement in the ledger, `LockInv` who has `_JOB_LOCK` and `_RUNNING`. There are four invariants: for the books, the receipts, the gate and the owners of escrows. The sums change by one entry at a time (`AddOne`). `Owed`: a job file, or a copy of it, that tells of a cancel or a refund belongs to a refund that is made or under way (`Refunding`), so a runner that leaves an escrow leaves it to someone |
| `PayFunding_proofs` | `TypeCorrect`, `AddsUp`, `SettledCredited`, `NothingIsLost`, `LocksAreOwned` | `Places` says which challenge a thread works on and that its debit is covered, `CopiesAdd` that the copy it is about to write adds up. `StoreKept` and `Alone` say who is between read and write of the session file, `Fresh` that what it has read is still there unless another process overlapped, `TornAlone` that nobody is about to write over an emptied file, `Settling` that a thread settles after its credit. `RailOwned` and `StoreOwned` pair the locks with the places of their owners |
| `Generations_proofs` | `TypeCorrect`, `ChatExcludesJobs`, `OwnerWorks`, `OneLive`, `FinishKeeps`, `NobodyIsLeft` | `TaskOrReservation` and `OwnerIsWorking` are part of the invariant. `Epochs` and `Distinct`: no two chats have the same epoch, and none a later one than the counter; `LockHeld`, `LiveConsumes`, `InnerOver` and `DroppedEnded` tie a producer that is not told to stop to the chat with the local lock. `ReadsUnstopped`, that a pass reads until it leaves, makes `PartnersStay` inductive |
| `ModelPool_proofs` | `TypeCorrect`, `Accounts`, `HandlesAreOwned`, `LeaseKeeps`, `UnloadIsOwned`, `LocksAreOrdered` | `Flow` says where a thread returns to after a release, `LoaderHas` who is inside the load lock, `Emptied` that the pool is empty while it loads, `Detaching` and `Numbered` that a detached handle is one thread's and older than the next load, `LlamaHas` and `UsersHave` that whoever generates uses what the pool offers. References are counted by the sets of requests that hold one, which change by one element |
| `GpuResourceLock_proofs` | `TypeCorrect`, `DepthIsCount`, `UseLocked`, `NoIsFree`, `GuardIsKept`, `Refines` | `Counted` ties the depth to the uses of a process, `FileOwner` the kernel's lock of each file to a process that has it as its handle or to a thread that probes it, `GuardKept` who has the guard |

`IInv` is the inductive invariant of a module (`BooksInv`, `ReceiptInv`, `GateInv`
and `EscrowInv` in `PayEscrow_proofs`, `AckInv`, `DeliveryInv` and `RowInv` in
`TrainingCancel_proofs`; `NotedInv` and `PartnersInv` add to `IInv` what the theorems
about waiting need). A lemma for the initial
states and lemmas with one step per action make it an invariant, and the theorems
follow.

Every invariant, action property and refinement that a passing run checks is
proved. Only model-checked are the liveness properties: liveness under fairness is
out of the prover's reach. What is proved of them is their safety half, the part
that breaks when somebody who must act is gone: as long as something is awaited, the
actor that ends the wait exists and can be named. That this actor then acts is what
fairness says, and stays with TLC:

| Liveness property (TLC) | Safety half (theorem) |
|---|---|
| `EventuallySettled` | `RowsAreOwned`: a row in flight has a coroutine or a request about to write it |
| `CancelAnswered` | `CancelsAreDelivered`: the task that a request waits for is over, about to be, or has a `cancel()` on the way |
| `EscrowResolved` | `EscrowIsOwned`: a held escrow has a thread on the way to settle or refund it |
| `StreamsEnd` | `StreamsAreTold`: the end mark is in the queue of a stream that waits for a job that is over |
| `ChatEnds`, `LeaseEnds` | `NobodyIsLeft`: streams have producers, producers readers, and the local lock an owner that goes on |
| `PendingUnloads` | `UnloadIsOwned`: an unload that was asked for has someone to do it |
| `RequestsEnd` | `LocksAreOrdered`: no circle of threads that wait for each other's locks |
| `PaymentsSettle` | `LocksAreOwned`: no lock stays behind a payment |
| `CallsReturn` | `GuardIsKept`: nobody keeps the guard but a thread that polls |

They are theorems of `Spec` without fairness, so they hold of every prefix of a run,
for any number of actors. TLC has checked each on the bounds of the runs before it
was proved.

## 5. Not modelled, and why

* Export on complete, which begins another job at the end of `_run()`.
* The loaders of the model pool, the sizing of a load (`ensure_load_fits` is a step
  that may raise) and the external engines behind `llamaswap.py`: HTTP to another
  program.
* `job_runtime.py`, the shared runner of export, compress and distill jobs: the
  steps of the training coroutine without its cancel route.
* Job files of the marketplace torn by a crash, and the command line as a second
  process on job files; for sessions and challenges both are modelled.
  Per-request payments are reached by no route or command.
* The instance lock: one attempt per server start, decided by process ids and by
  which file an unlink hits.
* The mesh coordinator: copies of a plan that peers merge by hand; the code has no
  rule that decides between two claims of a rank.
* Token revocation, rate limits, caches: dictionaries with expiry on one event
  loop, every operation is one step.
* The agent swarm spawns and polls operating system processes. The Solidity
  contracts are atomic on chain, one `require` per rule.
* Trainers, kernels, evaluation, catalogs, hardware probes, chat templates, export
  formats, UI: numerical code, tables and presentation, without interleaving state
  of their own. They are most of the repository's lines.

## 6. What is left

In this order: export on complete in `TrainingJobs`; job files torn by a crash in
`PayEscrow`; preloads and provider chats in `Generations`.
