------------------------------ MODULE PayEscrow ------------------------------
(***************************************************************************)
(* The marketplace ledger (seiso/pay/store.py), the job runner that        *)
(* escrows a quote, trains and settles or refunds it (seiso/pay/jobs.py),  *)
(* cancel requests, and metered inference calls (seiso/pay/app.py,         *)
(* inference.py), for one prepaid session.                                 *)
(*                                                                         *)
(* The endpoints are synchronous and run in a thread pool.  The session    *)
(* file, each job file and the ledger are separate files: store._lock      *)
(* makes one store call atomic and nothing more, and every thread works on *)
(* its own copy of the job between two calls.  An action is one store      *)
(* call, one read of a job file, or one step of the external trainer; a    *)
(* store call that raises or dies between its save of the session and its  *)
(* ledger entry is an action of its own.                                   *)
(***************************************************************************)
EXTENDS Naturals, FiniteSets

CONSTANTS
  Jobs,       \* POST /pay/v1/jobs calls; a job id names its runner thread too
  Cancels,    \* threads that serve POST /pay/v1/jobs/{id}/cancel
  Calls,      \* proxied chat completions
  Funds,      \* fund ids of payments that credit the session
  Price,      \* total_sats of a job's quote
  FundSats,   \* sats credited by a payment
  CallSats,   \* preflight quote of a chat call
  Bills,      \* what the reported usage of a chat call can cost
  MaxFaults   \* bound: exceptions that escape a thread, and process crashes

ASSUME PayAssumption ==
  /\ IsFiniteSet(Jobs) /\ IsFiniteSet(Funds)
  /\ Jobs \intersect Cancels = {}
  /\ Price \in Nat \ {0} /\ FundSats \in Nat \ {0}
  /\ Bills \subseteq Nat \ {0} /\ CallSats \in Bills
  /\ MaxFaults \in Nat

VARIABLES
  \* sessions/<id>.json
  balance, funded, refunded, spent, fundIds, refundIds,
  \* what that file has paid, which it does not say (history)
  taken,     \* jobs whose quote escrow_hold took from the balance
  unlisted,  \* sats of bills it paid without a debit entry
  file,      \* jobs/<id>.json: status and settlement
  \* ledger/*.jsonl, by kind of entry
  held,      \* jobs with an escrow_hold entry
  settles,   \* jobs with a job_settle entry
  debited,   \* sum of the debit entries
  pc,        \* where a runner or cancel thread is
  mine,      \* the thread's own job dict
  target,    \* the job a cancel thread names
  dry,       \* start_job's dry_run
  running,   \* _RUNNING
  lock,      \* the runner that holds _JOB_LOCK across store calls
  call,      \* where a chat call is
  faults

session  == <<balance, funded, refunded, spent, fundIds, refundIds, taken, unlisted>>
ledger   == <<held, settles, debited>>
gateVars == <<running, lock>>
vars == <<session, file, ledger, pc, mine, target, dry, gateVars, call, faults>>

Threads == Jobs \union Cancels
Record  == [status : {"none", "pending", "running", "completed", "failed", "cancelled"},
            settlement : {"none", "settled", "refunded"}]
NoFile  == [status |-> "none", settlement |-> "none"]
Active  == funded > 0              \* session status "active"

JobOf(t) == IF t \in Jobs THEN t ELSE target[t]

Init ==
  /\ balance = 0 /\ funded = 0 /\ refunded = 0 /\ spent = 0
  /\ fundIds = {} /\ refundIds = {} /\ taken = {} /\ unlisted = 0
  /\ file = [j \in Jobs |-> NoFile]
  /\ held = {} /\ settles = {} /\ debited = 0
  /\ pc = [t \in Threads |-> "idle"]
  /\ mine = [t \in Threads |-> NoFile]
  /\ target \in [Cancels -> Jobs]
  /\ dry \in [Jobs -> BOOLEAN]
  /\ running = FALSE /\ lock = {}
  /\ call = [k \in Calls |-> "idle"]
  /\ faults = 0

-----------------------------------------------------------------------------
(* Store calls.  Each is one critical section of store._lock.              *)

\* activate_session: a payment that was credited before is not credited again.
Activate(f) ==
  /\ f \notin fundIds
  /\ balance' = balance + FundSats
  /\ funded'  = funded + FundSats
  /\ fundIds' = fundIds \union {f}
  /\ UNCHANGED <<refunded, spent, refundIds, taken, unlisted, file, ledger, pc,
                 mine, target, dry, gateVars, call, faults>>

\* The save of escrow_hold.
TakeQuote(j) ==
  /\ balance' = balance - Price
  /\ taken' = taken \union {j}
  /\ UNCHANGED <<funded, refunded, spent, fundIds, refundIds, unlisted>>

EscrowHold(j) ==
  /\ TakeQuote(j)
  /\ held' = held \union {j}

\* Mutant: a job that was refunded before is credited again.
EscrowRefundAgain(j) ==
  /\ balance'   = balance + Price
  /\ refunded'  = refunded + Price
  /\ refundIds' = refundIds \union {j}
  /\ UNCHANGED <<funded, spent, fundIds, taken, unlisted>>

\* escrow_release_refund: idempotent per job.
EscrowRefund(j) ==
  IF j \in refundIds THEN UNCHANGED session
  ELSE /\ balance'   = balance + Price
       /\ refunded'  = refunded + Price
       /\ refundIds' = refundIds \union {j}
       /\ UNCHANGED <<funded, spent, fundIds, taken, unlisted>>

-----------------------------------------------------------------------------
(* Steps of a thread.                                                      *)

Goto(t, label) == pc' = [pc EXCEPT ![t] = label]

\* save_job of the thread's copy, changed to rec.
Save(t, rec) ==
  /\ mine' = [mine EXCEPT ![t] = rec]
  /\ file' = [file EXCEPT ![JobOf(t)] = rec]

Rest == <<target, dry, call, faults>>

\* A step that touches no file.
Local(t, label) ==
  /\ Goto(t, label)
  /\ UNCHANGED <<session, file, ledger, mine, gateVars, Rest>>

SaveStep(t, from, rec, label) ==
  /\ pc[t] = from
  /\ Save(t, rec)
  /\ Goto(t, label)
  /\ UNCHANGED <<session, ledger, gateVars, Rest>>

Refunded(rec)           == rec.settlement = "refunded"
CancelledOrRefunded(rec) == rec.status = "cancelled" \/ Refunded(rec)

\* Mutant: start_job returns without its finally.
LeaveWithoutFinally(j) == IF dry[j] THEN "end" ELSE "end"

\* A dry run is over when it returns; any other has the finally of start_job.
Leave(j) == IF dry[j] THEN "end" ELSE "finally"

-----------------------------------------------------------------------------
(* start_job.                                                              *)

CreateJob(j) ==
  SaveStep(j, "idle", [status |-> "pending", settlement |-> "none"], "hold")

\* Mutant: the balance is not compared with the quote.
HoldUnchecked(j) ==
  /\ pc[j] = "hold"
  /\ IF Active
     THEN /\ EscrowHold(j)
          /\ Goto(j, "mark")
     ELSE /\ Goto(j, "end")
          /\ UNCHANGED <<session, held>>
  /\ UNCHANGED <<file, settles, debited, mine, gateVars, Rest>>

\* An unfunded or too small balance raises: the job file stays pending.
Hold(j) ==
  /\ pc[j] = "hold"
  /\ IF Active /\ balance >= Price
     THEN /\ EscrowHold(j)
          /\ Goto(j, "mark")
     ELSE /\ Goto(j, "end")
          /\ UNCHANGED <<session, held>>
  /\ UNCHANGED <<file, settles, debited, mine, gateVars, Rest>>

\* status = "running", whatever the file says by now.
MarkRunning(j) ==
  SaveStep(j, "mark", [mine[j] EXCEPT !.status = "running"],
           IF dry[j] THEN "complete" ELSE "gate")

\* Only one marketplace GPU job at a time; the loser is failed and refunded
\* while _JOB_LOCK is held.
Gate(j) ==
  /\ pc[j] = "gate"
  /\ lock = {}
  /\ IF running
     THEN /\ mine' = [mine EXCEPT ![j].status = "failed"]
          /\ lock' = {j}
          /\ Goto(j, "refund")
          /\ UNCHANGED running
     ELSE /\ running' = TRUE
          /\ Goto(j, "artifact")
          /\ UNCHANGED <<mine, lock>>
  /\ UNCHANGED <<session, file, ledger, Rest>>

ReleaseGate(j) ==
  /\ pc[j] = "finally"
  /\ lock = {}
  /\ running' = FALSE
  /\ Goto(j, "end")
  /\ UNCHANGED <<session, file, ledger, mine, lock, Rest>>

-----------------------------------------------------------------------------
(* _execute_job.                                                           *)

SaveArtifact(j) == SaveStep(j, "artifact", mine[j], "precheck")

\* Re-read the file: a cancelled job returns, a job whose command cannot be
\* built fails.
Precheck(j) ==
  /\ pc[j] = "precheck"
  /\ \E next \in {"logcmd", "fail"} :
       Local(j, IF CancelledOrRefunded(file[j]) THEN Leave(j) ELSE next)

LogCommand(j) == SaveStep(j, "logcmd", mine[j], "train")

\* The trainer fails to start, runs out of time, or exits: then the file is
\* read again and a cancelled job is not settled.
Trained(j) ==
  /\ pc[j] = "train"
  /\ \/ Local(j, "fail")
     \/ /\ CancelledOrRefunded(file[j])
        /\ mine' = [mine EXCEPT ![j] = file[j]]
        /\ Goto(j, "latelog")
        /\ UNCHANGED <<session, file, ledger, gateVars, Rest>>
     \/ /\ ~CancelledOrRefunded(file[j])
        /\ Local(j, "log")

\* Output of the trainer, saved line by line with the copy in hand, or none.
LogOutput(j) ==
  \/ SaveStep(j, "latelog", mine[j], "latelog")
  \/ pc[j] = "latelog" /\ Local(j, Leave(j))
  \/ SaveStep(j, "log", mine[j], "log")
  \/ \E exit \in {"complete", "fail"} : pc[j] = "log" /\ Local(j, exit)

-----------------------------------------------------------------------------
(* _complete_job.                                                          *)

\* Re-read, then settle_split, which may raise.
Settle(j) ==
  /\ pc[j] = "complete"
  /\ \E next \in {"recheck", "fail"} :
       Local(j, IF CancelledOrRefunded(file[j]) THEN Leave(j) ELSE next)

Recheck(j) ==
  /\ pc[j] = "recheck"
  /\ Local(j, IF CancelledOrRefunded(file[j]) THEN Leave(j) ELSE "spend")

RecordSpend(j) ==
  /\ pc[j] = "spend"
  /\ spent' = spent + Price
  /\ Goto(j, "ledger")
  /\ UNCHANGED <<balance, funded, refunded, fundIds, refundIds, taken, unlisted,
                 file, ledger, mine, gateVars, Rest>>

LedgerSettle(j) ==
  /\ pc[j] = "ledger"
  /\ settles' = settles \union {j}
  /\ Goto(j, "settled")
  /\ UNCHANGED <<session, file, held, debited, mine, gateVars, Rest>>

Completed == [status |-> "completed", settlement |-> "settled"]

\* A dry run saves twice: once with its log line.
SaveCompleted(j) ==
  \/ SaveStep(j, "settled", Completed, IF dry[j] THEN "resave" ELSE Leave(j))
  \/ SaveStep(j, "resave", Completed, Leave(j))

-----------------------------------------------------------------------------
(* _fail_job and _refund_escrow, which cancel_job calls too.               *)

FailCheck(j) ==
  /\ pc[j] = "fail"
  /\ Local(j, IF CancelledOrRefunded(file[j]) THEN Leave(j) ELSE "faillog")

\* Mutant: a failed job keeps its escrow.
FailLogNoRefund(j) ==
  SaveStep(j, "faillog", [mine[j] EXCEPT !.status = "failed"], "failed")

FailLog(j) == SaveStep(j, "faillog", [mine[j] EXCEPT !.status = "failed"], "refund")

\* Where a thread goes when its refund is done.
AfterRefund(t) == IF t \in Jobs THEN "failed" ELSE "answered"

\* Mutant: the markers are saved before the session is credited.
RefundCheckMarksFirst(t) ==
  /\ pc[t] = "refund"
  /\ Save(t, [mine[t] EXCEPT !.settlement = "refunded"])
  /\ Goto(t, "credit")
  /\ UNCHANGED <<session, ledger, gateVars, Rest>>

\* A job file that has the markers already gives them to the thread's copy.
RefundCheck(t) ==
  /\ pc[t] = "refund"
  /\ IF Refunded(file[JobOf(t)])
     THEN /\ mine' = [mine EXCEPT ![t].settlement = "refunded"]
          /\ Goto(t, AfterRefund(t))
     ELSE /\ Goto(t, "credit")
          /\ UNCHANGED mine
  /\ UNCHANGED <<session, file, ledger, gateVars, Rest>>

Credit(t) ==
  /\ pc[t] = "credit"
  /\ EscrowRefund(JobOf(t))
  /\ Goto(t, "marker")
  /\ UNCHANGED <<file, ledger, mine, gateVars, Rest>>

SaveMarker(t) ==
  SaveStep(t, "marker", [mine[t] EXCEPT !.settlement = "refunded"], AfterRefund(t))

\* The last save of a failed job; the loser of the gate gives up _JOB_LOCK.
SaveFailed(j) ==
  /\ pc[j] = "failed"
  /\ Save(j, mine[j])
  /\ lock' = lock \ {j}
  /\ Goto(j, IF j \in lock THEN "end" ELSE Leave(j))
  /\ UNCHANGED <<session, ledger, running, Rest>>

RefundStep(t) == RefundCheck(t) \/ Credit(t) \/ SaveMarker(t)

RunnerStep(j) ==
  \/ Hold(j) \/ MarkRunning(j) \/ Gate(j) \/ ReleaseGate(j)
  \/ SaveArtifact(j) \/ Precheck(j) \/ LogCommand(j) \/ Trained(j) \/ LogOutput(j)
  \/ Settle(j) \/ Recheck(j) \/ RecordSpend(j) \/ LedgerSettle(j) \/ SaveCompleted(j)
  \/ FailCheck(j) \/ FailLog(j) \/ RefundStep(j) \/ SaveFailed(j)

-----------------------------------------------------------------------------
(* cancel_job.                                                             *)

\* A finished job is returned as it is.
CancelLoad(c) ==
  /\ pc[c] = "idle"
  /\ file[target[c]].status # "none"
  /\ IF file[target[c]].status \in {"pending", "running"}
     THEN /\ mine' = [mine EXCEPT ![c] = [file[target[c]] EXCEPT !.status = "cancelled"]]
          /\ Goto(c, "flag")
     ELSE /\ Goto(c, "answered")
          /\ UNCHANGED mine
  /\ UNCHANGED <<session, file, ledger, gateVars, Rest>>

\* The durable cancel flag, before the refund.
CancelFlag(c) == SaveStep(c, "flag", mine[c], "refund")

CancelStep(c) == CancelFlag(c) \/ RefundStep(c)

-----------------------------------------------------------------------------
(* A proxied chat call: the balance is checked, the upstream call made, and *)
(* the session debited when the answer is complete.                         *)

CallRest == <<session, file, ledger, pc, mine, target, dry, gateVars, faults>>

Preflight(k) ==
  /\ call[k] = "idle"
  /\ Active
  /\ call' = [call EXCEPT ![k] = IF balance >= CallSats THEN "upstream" ELSE "refused"]
  /\ UNCHANGED CallRest

\* The save of debit_session.
PayBill(bill) ==
  /\ balance >= bill
  /\ balance' = balance - bill
  /\ spent'   = spent + bill
  /\ UNCHANGED <<funded, refunded, fundIds, refundIds, taken>>

\* The upstream call fails, or its cost is debited if the balance still
\* covers it.
EndCall(k) ==
  /\ call[k] = "upstream"
  /\ \/ /\ call' = [call EXCEPT ![k] = "failed"]
        /\ UNCHANGED CallRest
     \/ \E bill \in Bills :
          \/ /\ PayBill(bill)
             /\ call' = [call EXCEPT ![k] = "billed"]
             /\ debited' = debited + bill
             /\ UNCHANGED <<unlisted, file, held, settles, pc, mine, target, dry,
                            gateVars, faults>>
          \/ /\ balance < bill
             /\ call' = [call EXCEPT ![k] = "unbilled"]
             /\ UNCHANGED CallRest

-----------------------------------------------------------------------------
(* Exceptions and crashes.                                                 *)

Live(t)   == pc[t] \notin {"idle", "end", "answered", "lost"}
InGate(j) == ~dry[j] /\ j \notin lock /\ pc[j] \notin {"hold", "mark", "gate"} /\ Live(j)

\* Between _save_session and _append_ledger of a thread's store call: the quote
\* is taken or the refund credited, and the ledger does not say so.  (A payment
\* without its session_fund entry is Activate: no variable has those entries.)
SavedOnly(t) ==
  \/ /\ t \in Jobs /\ pc[t] = "hold"
     /\ Active /\ balance >= Price
     /\ TakeQuote(t)
  \/ /\ pc[t] = "credit"
     /\ EscrowRefund(JobOf(t))

BillSavedOnly(k) ==
  /\ call[k] = "upstream"
  /\ \E bill \in Bills : PayBill(bill) /\ unlisted' = unlisted + bill

\* A store call raises (disk, a file read while it is rewritten), before it has
\* changed anything or between session and ledger: the thread unwinds, through
\* the finally of start_job or the with of _JOB_LOCK.
ThreadFault(t) ==
  /\ Live(t) /\ pc[t] # "finally"
  /\ faults < MaxFaults
  /\ faults' = faults + 1
  /\ UNCHANGED session \/ SavedOnly(t)
  /\ Goto(t, IF t \in Cancels THEN "lost" ELSE IF InGate(t) THEN "finally" ELSE "end")
  /\ lock' = lock \ {t}
  /\ UNCHANGED <<file, ledger, mine, target, dry, running, call>>

\* The debit of a chat call raises after it has saved the session.
CallFault(k) ==
  /\ faults < MaxFaults
  /\ faults' = faults + 1
  /\ BillSavedOnly(k)
  /\ call' = [call EXCEPT ![k] = "failed"]
  /\ UNCHANGED <<file, ledger, pc, mine, target, dry, gateVars>>

\* The process dies, perhaps in the middle of one store call; the files stay, and
\* nothing reconciles them at a restart.  A file that dies with it, emptied by
\* write_text and not written, is the subject of PayFunding.
Crash ==
  /\ faults < MaxFaults
  /\ faults' = faults + 1
  /\ \/ UNCHANGED session
     \/ \E t \in Threads : SavedOnly(t)
     \/ \E k \in Calls : BillSavedOnly(k)
  /\ pc' = [t \in Threads |-> IF ~Live(t) THEN pc[t]
                             ELSE IF t \in Jobs THEN "end" ELSE "lost"]
  /\ call' = [k \in Calls |-> IF call[k] = "upstream" THEN "failed" ELSE call[k]]
  /\ running' = FALSE
  /\ lock' = {}
  /\ UNCHANGED <<file, ledger, mine, target, dry>>

Next ==
  \/ \E f \in Funds : Activate(f)
  \/ \E j \in Jobs : CreateJob(j) \/ RunnerStep(j)
  \/ \E c \in Cancels : CancelLoad(c) \/ CancelStep(c)
  \/ \E k \in Calls : Preflight(k) \/ EndCall(k) \/ CallFault(k)
  \/ \E t \in Threads : ThreadFault(t)
  \/ Crash

\* Threads are scheduled and the trainer has a wall-clock timeout.
Fairness ==
  /\ \A j \in Jobs : WF_vars(RunnerStep(j))
  /\ \A c \in Cancels : WF_vars(CancelStep(c))

Spec     == Init /\ [][Next]_vars
FairSpec == Spec /\ Fairness

-----------------------------------------------------------------------------
(* Properties.                                                             *)

Labels == {"idle", "hold", "mark", "gate", "artifact", "precheck", "logcmd", "train",
           "latelog", "log", "complete", "recheck", "spend", "ledger", "settled",
           "resave", "fail", "faillog", "refund", "credit", "marker", "failed",
           "flag", "finally", "end", "answered", "lost"}

\* Types of all variables; the sats counters never go below zero.
TypeOK ==
  /\ balance \in Nat /\ funded \in Nat /\ refunded \in Nat /\ spent \in Nat
  /\ fundIds \subseteq Funds /\ refundIds \subseteq Jobs
  /\ taken \subseteq Jobs /\ unlisted \in Nat
  /\ file \in [Jobs -> Record]
  /\ held \subseteq Jobs /\ settles \subseteq Jobs /\ debited \in Nat
  /\ pc \in [Threads -> Labels]
  /\ mine \in [Threads -> Record]
  /\ target \in [Cancels -> Jobs]
  /\ dry \in [Jobs -> BOOLEAN]
  /\ running \in BOOLEAN /\ lock \subseteq Jobs
  /\ call \in [Calls -> {"idle", "upstream", "refused", "failed", "billed", "unbilled"}]
  /\ faults \in 0..MaxFaults

\* Where the sats of the session are: what was paid in and refunded is what is
\* left, what escrow_hold took, and what calls paid, under every race of runner
\* and cancels and across faults.  A payment credits once, and a job is refunded
\* at most once.
SessionBooks ==
  /\ balance + Price * Cardinality(taken) + debited + unlisted = funded + refunded
  /\ funded = FundSats * Cardinality(fundIds)
  /\ refunded = Price * Cardinality(refundIds)

\* A refund returns a quote that was taken, except that of a cancel: one that
\* comes before escrow_hold, or for a job whose escrow_hold was refused, credits
\* sats that nobody paid.  No runner ever does.
RefundsReturn ==
  \A j \in refundIds \ taken : \E c \in Cancels : target[c] = j /\ pc[c] # "idle"

\* The ledger lists what the session paid.  An entry is missing only after a
\* fault between the two files, which nothing repairs.
LedgerLists ==
  /\ held \subseteq taken
  /\ faults = 0 => held = taken /\ unlisted = 0

Books == SessionBooks /\ RefundsReturn /\ LedgerLists

\* The buyer's receipt is backed by the ledger after any crash: refunded only
\* after the session was credited, settled only after job_settle.
ReceiptBacked ==
  \A j \in Jobs :
    /\ file[j].settlement = "refunded" => j \in refundIds
    /\ file[j].settlement = "settled"  => j \in settles

\* At most one runner is between the gate and its finally, and _RUNNING says
\* whether there is one: no exit path leaks it.
OneTrainer ==
  /\ \A i, j \in Jobs : InGate(i) /\ InGate(j) => i = j
  /\ running <=> \E j \in Jobs : InGate(j)

\* Escrow never stays: every held quote is settled or refunded in the end, also
\* that of a job which fails, loses the gate or is cancelled, unless a fault
\* interrupts it.
EscrowResolved ==
  \A j \in Jobs : (j \in held) ~> (j \in refundIds \union settles \/ faults > 0)

\* What the sources state and the code does not keep.

\* "Return escrowed sats to session balance": what a refund credits was in escrow.
OnlyEscrowReturned == refundIds \subseteq taken

\* "Cancel won the race - do not settle as paid after refund".
NoSettleAfterRefund ==
  [][\A j \in Jobs : j \in refundIds /\ j \in settles' => j \in settles]_vars

=============================================================================
