-------------------------- MODULE PayEscrow_proofs --------------------------
(***************************************************************************)
(* Proofs about PayEscrow, for any jobs, cancel threads, calls, fund ids   *)
(* and prices, and any number of faults and crashes.                       *)
(***************************************************************************)
EXTENDS PayEscrow, FiniteSetTheorems, TLAPS

\* A quote is taken once, and a runner that goes on has taken it: one whose
\* escrow_hold raised is at the end.
Paid ==
  \A j \in Jobs :
    /\ pc[j] \in {"idle", "hold"} => j \notin taken
    /\ pc[j] \notin {"idle", "hold", "end"} => j \in taken

\* What a thread's own copy says, and what it is about to write, is backed.
CopyBacked ==
  /\ \A t \in Threads :
       /\ mine[t].settlement = "refunded" => JobOf(t) \in refundIds
       /\ mine[t].settlement = "settled"  => JobOf(t) \in settles
       /\ pc[t] = "marker" => JobOf(t) \in refundIds
  /\ \A j \in Jobs : pc[j] \in {"settled", "resave"} => j \in settles

\* Only the loser of the gate holds _JOB_LOCK across store calls, and a dry run
\* never comes to the finally of start_job.
LockInv ==
  /\ \A j \in lock : ~dry[j] /\ pc[j] \in {"refund", "credit", "marker", "failed"}
  /\ \A i, j \in lock : i = j
  /\ \A j \in Jobs : pc[j] \in {"gate", "finally"} => ~dry[j] /\ j \notin lock

-----------------------------------------------------------------------------
(* Type correctness.                                                       *)

\* The initial states are well typed.
LEMMA InitTypeOK == Init => TypeOK
<1> SUFFICES ASSUME Init PROVE TypeOK
  OBVIOUS
<1>1. NoFile \in Record
  BY DEF NoFile, Record
<1>2. file \in [Jobs -> Record] /\ mine \in [Threads -> Record]
  BY <1>1 DEF Init
<1>3. pc \in [Threads -> Labels]
  BY DEF Init, Labels
<1>4. faults \in 0..MaxFaults
  BY PayAssumption DEF Init
<1> QED
  BY <1>2, <1>3, <1>4 DEF Init, TypeOK

\* A runner works on its own job, a cancel thread on the one it has loaded.
LEMMA JobOfType == ASSUME TypeOK, NEW t \in Threads PROVE JobOf(t) \in Jobs
  BY DEF TypeOK, Threads, JobOf

\* A save of a record into the job file keeps the types.
LEMMA TypeOfSave ==
  ASSUME TypeOK, NEW t \in Threads, NEW from, NEW rec \in Record, NEW label \in Labels,
         SaveStep(t, from, rec, label)
  PROVE  TypeOK'
  BY JobOfType DEF SaveStep, Save, Goto, TypeOK, session, ledger, gateVars, Rest

\* So does a step that changes only where a thread is.
LEMMA TypeOfLocal ==
  ASSUME TypeOK, NEW t \in Threads, NEW label \in Labels, Local(t, label)
  PROVE  TypeOK'
  BY DEF Local, Goto, TypeOK, session, ledger, gateVars, Rest

\* The changes the code makes to a record leave it a record.
LEMMA RecordExcept ==
  ASSUME NEW r \in Record
  PROVE  /\ \A s \in {"running", "failed", "cancelled"} :
              /\ [r EXCEPT !.status = s] \in Record
              /\ [r EXCEPT !.status = s].settlement = r.settlement
         /\ [r EXCEPT !.settlement = "refunded"] \in Record
         /\ [r EXCEPT !.settlement = "refunded"].settlement = "refunded"
  BY DEF Record

\* Whatever a thread makes of its copy or of the file is a record.
LEMMA CopyType ==
  ASSUME TypeOK, NEW t \in Threads
  PROVE  /\ mine[t] \in Record /\ file[JobOf(t)] \in Record
         /\ [mine[t] EXCEPT !.status = "running"] \in Record
         /\ [mine[t] EXCEPT !.status = "failed"] \in Record
         /\ [mine[t] EXCEPT !.settlement = "refunded"] \in Record
         /\ [file[JobOf(t)] EXCEPT !.status = "cancelled"] \in Record
<1>1. mine[t] \in Record /\ file[JobOf(t)] \in Record
  BY JobOfType DEF TypeOK
<1> QED
  BY <1>1, RecordExcept

\* The types of the session.
SessionType ==
  /\ balance \in Nat /\ funded \in Nat /\ refunded \in Nat /\ spent \in Nat
  /\ fundIds \subseteq Funds /\ refundIds \subseteq Jobs
  /\ taken \subseteq Jobs /\ unlisted \in Nat

\* A store call that raises before or after its save of the session keeps them.
LEMMA SessionOfSaved ==
  ASSUME TypeOK, NEW t \in Threads, UNCHANGED session \/ SavedOnly(t)
  PROVE  SessionType'
<1>0. SessionType
  BY DEF TypeOK, SessionType
<1>1. CASE UNCHANGED session
  BY <1>0, <1>1 DEF SessionType, session
<1>2. CASE t \in Jobs /\ balance >= Price /\ TakeQuote(t)
  BY <1>0, <1>2, PayAssumption DEF SessionType, TakeQuote
<1>3. CASE EscrowRefund(JobOf(t))
  BY <1>0, <1>3, JobOfType, PayAssumption DEF SessionType, EscrowRefund, session
<1> QED
  BY <1>1, <1>2, <1>3 DEF SavedOnly

\* So does a bill.
LEMMA SessionOfBill ==
  ASSUME TypeOK, NEW bill \in Bills, PayBill(bill),
         unlisted' = unlisted \/ unlisted' = unlisted + bill
  PROVE  SessionType'
  BY PayAssumption DEF TypeOK, SessionType, PayBill

\* Every step of a refund keeps the types.
LEMMA TypeOfRefund ==
  ASSUME TypeOK, NEW t \in Threads, RefundStep(t)
  PROVE  TypeOK'
<1>1. CASE RefundCheck(t)
  BY <1>1, CopyType DEF RefundCheck, AfterRefund, Labels, Goto, TypeOK, session, ledger,
                        gateVars, Rest
<1>2. CASE Credit(t)
  BY <1>2, JobOfType, PayAssumption
     DEF Credit, EscrowRefund, Labels, Goto, TypeOK, session, ledger, gateVars, Rest
<1>3. CASE SaveMarker(t)
  <2>1. AfterRefund(t) \in Labels
    BY DEF AfterRefund, Labels
  <2> QED
    BY <1>3, <2>1, CopyType, TypeOfSave DEF SaveMarker
<1> QED
  BY <1>1, <1>2, <1>3 DEF RefundStep

\* Every step of a runner keeps the types.
LEMMA TypeOfRunner ==
  ASSUME TypeOK, NEW j \in Jobs, RunnerStep(j)
  PROVE  TypeOK'
<1>0. j \in Threads /\ JobOf(j) = j /\ Leave(j) \in Labels
  BY DEF Threads, JobOf, Leave, Labels
<1> USE <1>0 DEF Labels
<1>1. CASE Hold(j)
  BY <1>1, PayAssumption
     DEF Hold, EscrowHold, TakeQuote, Goto, TypeOK, session, ledger, gateVars, Rest
<1>2. CASE MarkRunning(j)   BY <1>2, CopyType, TypeOfSave DEF MarkRunning
<1>3. CASE Gate(j)
  BY <1>3, CopyType DEF Gate, Goto, TypeOK, session, ledger, gateVars, Rest
<1>4. CASE ReleaseGate(j)
  BY <1>4 DEF ReleaseGate, Goto, TypeOK, session, ledger, gateVars, Rest
<1>5. CASE SaveArtifact(j)  BY <1>5, CopyType, TypeOfSave DEF SaveArtifact
<1>6. CASE Precheck(j)      BY <1>6, TypeOfLocal DEF Precheck
<1>7. CASE LogCommand(j)    BY <1>7, CopyType, TypeOfSave DEF LogCommand
<1>8. CASE Trained(j)
  <2>1. CASE \E label \in {"fail", "log"} : Local(j, label)
    BY <2>1, TypeOfLocal
  <2>2. CASE ~\E label \in {"fail", "log"} : Local(j, label)
    BY <1>8, <2>2, CopyType DEF Trained, Goto, TypeOK, session, ledger, gateVars, Rest
  <2> QED
    BY <2>1, <2>2
<1>9. CASE LogOutput(j)     BY <1>9, CopyType, TypeOfSave, TypeOfLocal DEF LogOutput
<1>10. CASE Settle(j)       BY <1>10, TypeOfLocal DEF Settle
<1>11. CASE Recheck(j)      BY <1>11, TypeOfLocal DEF Recheck
<1>12. CASE RecordSpend(j)
  BY <1>12, PayAssumption DEF RecordSpend, Goto, TypeOK, session, ledger, gateVars, Rest
<1>13. CASE LedgerSettle(j)
  BY <1>13 DEF LedgerSettle, Goto, TypeOK, session, ledger, gateVars, Rest
<1>14. CASE SaveCompleted(j)
  <2>1. Completed \in Record
    BY DEF Completed, Record
  <2> QED
    BY <1>14, <2>1, TypeOfSave DEF SaveCompleted
<1>15. CASE FailCheck(j)    BY <1>15, TypeOfLocal DEF FailCheck
<1>16. CASE FailLog(j)      BY <1>16, CopyType, TypeOfSave DEF FailLog
<1>17. CASE SaveFailed(j)
  BY <1>17, CopyType DEF SaveFailed, Save, Goto, TypeOK, session, ledger, gateVars, Rest
<1> QED
  BY <1>1, <1>2, <1>3, <1>4, <1>5, <1>6, <1>7, <1>8, <1>9, <1>10, <1>11, <1>12, <1>13,
     <1>14, <1>15, <1>16, <1>17, TypeOfRefund DEF RunnerStep

\* Every step keeps the types.
LEMMA TypeOfNext == TypeOK /\ [Next]_vars => TypeOK'
<1> SUFFICES ASSUME TypeOK, [Next]_vars PROVE TypeOK'
  OBVIOUS
<1> USE PayAssumption
<1>1. ASSUME NEW f \in Funds, Activate(f) PROVE TypeOK'
  BY <1>1 DEF Activate, TypeOK, ledger, gateVars
<1>2. ASSUME NEW j \in Jobs, CreateJob(j) PROVE TypeOK'
  <2> DEFINE new == [status |-> "pending", settlement |-> "none"]
  <2>1. new \in Record /\ j \in Threads
    BY DEF Record, Threads
  <2>2. SaveStep(j, "idle", new, "hold")
    BY <1>2 DEF CreateJob
  <2> HIDE DEF new
  <2> QED
    BY <2>1, <2>2, TypeOfSave DEF Labels
<1>3. ASSUME NEW c \in Cancels, CancelLoad(c) PROVE TypeOK'
  <2>1. c \in Threads /\ c \notin Jobs /\ JobOf(c) = target[c]
    BY DEF Threads, JobOf
  <2>2. [file[target[c]] EXCEPT !.status = "cancelled"] \in Record
    BY <2>1, CopyType
  <2>3. mine' \in [Threads -> Record] /\ pc' \in [Threads -> Labels]
    BY <1>3, <2>2 DEF CancelLoad, Goto, Labels, TypeOK
  <2>4. UNCHANGED <<session, file, ledger, gateVars, Rest>>
    BY <1>3 DEF CancelLoad
  <2> HIDE <1>3
  <2> QED
    BY <2>3, <2>4 DEF TypeOK, session, ledger, gateVars, Rest
<1>4. ASSUME NEW c \in Cancels, CancelStep(c) PROVE TypeOK'
  BY <1>4, CopyType, TypeOfSave, TypeOfRefund DEF CancelStep, CancelFlag, Labels, Threads
<1>5. ASSUME NEW k \in Calls, Preflight(k) PROVE TypeOK'
  BY <1>5 DEF Preflight, CallRest, TypeOK, session, ledger, gateVars
<1>6. ASSUME NEW k \in Calls, EndCall(k) PROVE TypeOK'
  <2>1. CASE UNCHANGED CallRest
    BY <1>6, <2>1 DEF EndCall, CallRest, TypeOK, session, ledger, gateVars
  <2>2. CASE ~UNCHANGED CallRest
    <3>1. PICK bill \in Bills : /\ PayBill(bill) /\ unlisted' = unlisted
                               /\ call' = [call EXCEPT ![k] = "billed"]
                               /\ debited' = debited + bill
      BY <1>6, <2>2 DEF EndCall
    <3>2. UNCHANGED <<file, held, settles, pc, mine, target, dry, gateVars, faults>>
      BY <1>6, <2>2 DEF EndCall
    <3>3. SessionType'
      BY <3>1, SessionOfBill
    <3> QED
      BY <3>1, <3>2, <3>3 DEF SessionType, TypeOK, gateVars
  <2> QED
    BY <2>1, <2>2
<1>7. ASSUME NEW k \in Calls, CallFault(k) PROVE TypeOK'
  <2>1. PICK bill \in Bills : PayBill(bill) /\ unlisted' = unlisted + bill
    BY <1>7 DEF CallFault, BillSavedOnly
  <2>2. SessionType'
    BY <2>1, SessionOfBill
  <2>3. /\ faults < MaxFaults /\ faults' = faults + 1
        /\ call' = [call EXCEPT ![k] = "failed"]
        /\ UNCHANGED <<file, ledger, pc, mine, target, dry, gateVars>>
    BY <1>7 DEF CallFault
  <2> QED
    BY <2>2, <2>3 DEF SessionType, TypeOK, ledger, gateVars
<1>8. ASSUME NEW t \in Threads, ThreadFault(t) PROVE TypeOK'
  <2>1. SessionType'
    BY <1>8, SessionOfSaved DEF ThreadFault
  <2>2. PICK label \in {"lost", "finally", "end"} : Goto(t, label)
    BY <1>8 DEF ThreadFault
  <2>3. /\ faults < MaxFaults /\ faults' = faults + 1 /\ lock' = lock \ {t}
        /\ UNCHANGED <<file, ledger, mine, target, dry, running, call>>
    BY <1>8 DEF ThreadFault
  <2> QED
    BY <2>1, <2>2, <2>3 DEF SessionType, Goto, Labels, TypeOK, ledger
<1>9. CASE Crash
  <2>1. pc' \in [Threads -> Labels]
    BY <1>9 DEF Crash, Labels, TypeOK
  <2>2. call' \in [Calls -> {"idle", "upstream", "refused", "failed", "billed", "unbilled"}]
    BY <1>9 DEF Crash, TypeOK
  <2>3. faults' \in 0..MaxFaults /\ running' = FALSE /\ lock' = {}
    BY <1>9 DEF Crash, TypeOK
  <2>4. UNCHANGED <<file, ledger, mine, target, dry>>
    BY <1>9 DEF Crash
  <2>5. SessionType'
    <3>1. CASE \E t \in Threads : SavedOnly(t)
      BY <3>1, SessionOfSaved
    <3>2. CASE \E k \in Calls : BillSavedOnly(k)
      BY <3>2, SessionOfBill DEF BillSavedOnly
    <3>3. CASE UNCHANGED session
      BY <3>3 DEF session, SessionType, TypeOK
    <3> QED
      BY <1>9, <3>1, <3>2, <3>3 DEF Crash
  <2> HIDE <1>9
  <2> QED
    BY <2>1, <2>2, <2>3, <2>4, <2>5 DEF SessionType, TypeOK, ledger
<1>10. CASE UNCHANGED vars
  BY <1>10 DEF vars, TypeOK, session, ledger, gateVars
<1> QED
  BY <1>1, <1>2, <1>3, <1>4, <1>5, <1>6, <1>7, <1>8, <1>9, <1>10, TypeOfRunner DEF Next

\* Every variable keeps its type; the balance and the counters of the session
\* never go below zero.
THEOREM TypeCorrect == Spec => []TypeOK
  BY InitTypeOK, TypeOfNext, PTL DEF Spec

-----------------------------------------------------------------------------
(* The books.  A step adds at most one element to taken, refundIds or      *)
(* fundIds, and moves the balance and the counters by its price.           *)

\* One more entry in a ledger counts one more.
LEMMA AddOne ==
  ASSUME NEW S, NEW U, IsFiniteSet(U), S \subseteq U, NEW x \in U, x \notin S
  PROVE  /\ Cardinality(S) \in Nat
         /\ Cardinality(S \union {x}) = Cardinality(S) + 1
  BY FS_Subset, FS_AddElement, FS_CardinalityType

BooksInv == TypeOK /\ Paid /\ Books

BookVars == <<balance, funded, refunded, fundIds, refundIds, taken, unlisted, held, debited>>

\* Cardinalities in the books are natural numbers, and their products with prices.
LEMMA BookTypes ==
  ASSUME TypeOK
  PROVE  /\ Price * Cardinality(taken) \in Nat
         /\ Price * Cardinality(refundIds) \in Nat
         /\ FundSats * Cardinality(fundIds) \in Nat
<1>1. IsFiniteSet(taken) /\ IsFiniteSet(refundIds) /\ IsFiniteSet(fundIds)
  BY FS_Subset, PayAssumption DEF TypeOK
<1>2. /\ Cardinality(taken) \in Nat /\ Cardinality(refundIds) \in Nat
      /\ Cardinality(fundIds) \in Nat
  BY <1>1, FS_CardinalityType
<1> QED
  BY <1>2, PayAssumption

\* A refund credits the session once.
LEMMA BooksOfCredit ==
  ASSUME TypeOK, SessionBooks, NEW j \in Jobs, EscrowRefund(j), debited' = debited
  PROVE  SessionBooks'
<1>1. CASE j \in refundIds
  BY <1>1 DEF EscrowRefund, SessionBooks, session
<1>2. CASE j \notin refundIds
  <2>1. /\ balance' = balance + Price /\ refunded' = refunded + Price
        /\ refundIds' = refundIds \union {j}
        /\ UNCHANGED <<funded, fundIds, taken, unlisted>>
    BY <1>2 DEF EscrowRefund
  <2>2. Cardinality(refundIds) \in Nat /\ Cardinality(refundIds') = Cardinality(refundIds) + 1
    BY <1>2, <2>1, AddOne, PayAssumption DEF TypeOK
  <2>3. Price * Cardinality(refundIds') = Price * Cardinality(refundIds) + Price
    BY <2>2, PayAssumption
  <2> QED
    BY <2>1, <2>3, BookTypes, PayAssumption DEF SessionBooks, TypeOK
<1> QED
  BY <1>1, <1>2

\* escrow_hold takes its sats from the balance once.
LEMMA BooksOfTake ==
  ASSUME TypeOK, SessionBooks, NEW j \in Jobs, j \notin taken, TakeQuote(j),
         debited' = debited
  PROVE  SessionBooks'
<1>1. /\ balance' = balance - Price /\ taken' = taken \union {j}
      /\ UNCHANGED <<funded, refunded, fundIds, refundIds, unlisted>>
  BY DEF TakeQuote
<1>2. Cardinality(taken) \in Nat /\ Cardinality(taken') = Cardinality(taken) + 1
  BY <1>1, AddOne, PayAssumption DEF TypeOK
<1>3. Price * Cardinality(taken') = Price * Cardinality(taken) + Price
  BY <1>2, PayAssumption
<1> QED
  BY <1>1, <1>3, BookTypes, PayAssumption DEF SessionBooks, TypeOK

\* A bill is in the debit entries, or it is unlisted.
LEMMA BooksOfBill ==
  ASSUME TypeOK, SessionBooks, NEW bill \in Bills, PayBill(bill),
         \/ debited' = debited + bill /\ unlisted' = unlisted
         \/ debited' = debited /\ unlisted' = unlisted + bill
  PROVE  SessionBooks'
<1>1. /\ balance' = balance - bill
      /\ UNCHANGED <<funded, refunded, fundIds, refundIds, taken>>
  BY DEF PayBill
<1> QED
  BY <1>1, BookTypes, PayAssumption DEF SessionBooks, TypeOK

\* A payment credits the session once.
LEMMA BooksOfFund ==
  ASSUME TypeOK, SessionBooks, NEW f \in Funds, Activate(f)
  PROVE  SessionBooks'
<1>1. /\ f \notin fundIds
      /\ balance' = balance + FundSats /\ funded' = funded + FundSats
      /\ fundIds' = fundIds \union {f}
      /\ UNCHANGED <<refunded, refundIds, taken, unlisted, debited>>
  BY DEF Activate, ledger
<1>2. Cardinality(fundIds) \in Nat /\ Cardinality(fundIds') = Cardinality(fundIds) + 1
  BY <1>1, AddOne, PayAssumption DEF TypeOK
<1>3. FundSats * Cardinality(fundIds') = FundSats * Cardinality(fundIds) + FundSats
  BY <1>2, PayAssumption
<1> QED
  BY <1>1, <1>3, BookTypes, PayAssumption DEF SessionBooks, TypeOK

\* A store call that raises or dies after its save of the session keeps the books,
\* and takes a quote only for a runner at escrow_hold.
LEMMA BooksOfSaved ==
  ASSUME TypeOK, Paid, SessionBooks, NEW t \in Threads, SavedOnly(t), debited' = debited
  PROVE  /\ SessionBooks'
         /\ taken \subseteq taken'
         /\ \A j \in Jobs : j \in taken' => j \in taken \/ (j = t /\ pc[j] = "hold")
<1>1. CASE t \in Jobs /\ pc[t] = "hold" /\ TakeQuote(t)
  BY <1>1, BooksOfTake DEF Paid, TakeQuote
<1>2. CASE EscrowRefund(JobOf(t))
  BY <1>2, JobOfType, BooksOfCredit DEF EscrowRefund, session
<1> QED
  BY <1>1, <1>2 DEF SavedOnly

\* A runner takes its quote by its hold alone.
LEMMA PaidByRunner ==
  ASSUME TypeOK, Paid, NEW j \in Jobs, CreateJob(j) \/ RunnerStep(j), ~Hold(j)
  PROVE  Paid' /\ UNCHANGED <<taken, unlisted, held, faults>>
<1>1. j \in Threads /\ JobOf(j) = j
  BY DEF Threads, JobOf
<1>2. UNCHANGED <<taken, unlisted, held, faults>>
  BY DEF CreateJob, RunnerStep, MarkRunning, Gate, ReleaseGate, SaveArtifact, Precheck,
         LogCommand, Trained, LogOutput, Settle, Recheck, RecordSpend, LedgerSettle,
         SaveCompleted, FailCheck, FailLog, RefundStep, RefundCheck, Credit, EscrowRefund,
         SaveMarker, SaveFailed, SaveStep, Local, session, ledger, Rest
<1>3. PICK label : /\ Goto(j, label)
                   /\ \/ pc[j] = "idle" /\ label = "hold"
                      \/ pc[j] \notin {"idle", "hold", "end"} /\ label \notin {"idle", "hold"}
  BY DEF CreateJob, RunnerStep, MarkRunning, Gate, ReleaseGate, SaveArtifact, Precheck,
         LogCommand, Trained, LogOutput, Settle, Recheck, RecordSpend, LedgerSettle,
         SaveCompleted, FailCheck, FailLog, RefundStep, RefundCheck, Credit, SaveMarker,
         SaveFailed, SaveStep, Local, Leave, AfterRefund
<1> QED
  BY <1>1, <1>2, <1>3 DEF Paid, Goto, TypeOK

\* A hold takes the quote and lists it, or ends its runner.
LEMMA BooksOfHold ==
  ASSUME TypeOK, Paid, SessionBooks, LedgerLists, NEW j \in Jobs, Hold(j)
  PROVE  Paid' /\ SessionBooks' /\ LedgerLists'
<1>1. /\ pc[j] = "hold" /\ j \notin taken /\ j \in Threads
      /\ faults' = faults /\ debited' = debited
  BY DEF Hold, Paid, Rest, Threads
<1>2. CASE UNCHANGED <<session, held>> /\ Goto(j, "end")
  BY <1>1, <1>2 DEF SessionBooks, LedgerLists, session, Paid, Goto, TypeOK, Threads
<1>3. CASE EscrowHold(j) /\ Goto(j, "mark")
  <2>1. TakeQuote(j) /\ held' = held \union {j}
    BY <1>3 DEF EscrowHold
  <2>2. SessionBooks'
    BY <1>1, <2>1, BooksOfTake
  <2>3. taken' = taken \union {j} /\ unlisted' = unlisted
    BY <2>1 DEF TakeQuote
  <2>4. LedgerLists'
    BY <1>1, <2>1, <2>3 DEF LedgerLists
  <2>5. Paid'
    BY <1>1, <1>3, <2>3 DEF Paid, Goto, TypeOK, Threads
  <2> QED
    BY <2>2, <2>4, <2>5
<1> QED
  BY <1>2, <1>3 DEF Hold

\* A fault leaves in the ledger what was in it, and nothing more in the session
\* than the books have.
LEMMA BooksOfFault ==
  ASSUME TypeOK, Paid, SessionBooks, LedgerLists, UNCHANGED ledger, faults' = faults + 1,
         \/ UNCHANGED session
         \/ \E t \in Threads : SavedOnly(t)
         \/ \E k \in Calls : BillSavedOnly(k)
  PROVE  SessionBooks' /\ LedgerLists' /\ taken \subseteq taken'
<1>1. SessionBooks' /\ taken \subseteq taken'
  <2>1. CASE UNCHANGED session
    BY <2>1 DEF session, ledger, SessionBooks
  <2>2. CASE \E t \in Threads : SavedOnly(t)
    BY <2>2, BooksOfSaved DEF ledger
  <2>3. CASE \E k \in Calls : BillSavedOnly(k)
    BY <2>3, BooksOfBill DEF BillSavedOnly, PayBill, ledger
  <2> QED
    BY <2>1, <2>2, <2>3
<1>2. faults' # 0 /\ held' = held
  BY PayAssumption DEF TypeOK, ledger
<1> QED
  BY <1>1, <1>2 DEF LedgerLists

\* No step credits a job that was not paid for, but the refund of a cancel: a
\* runner that refunds has taken the quote.
LEMMA RefundsOfNext ==
  ASSUME TypeOK, Paid, RefundsReturn, [Next]_vars
  PROVE  RefundsReturn'
<1>1. taken \subseteq taken'
  <2>1. ASSUME NEW t \in Threads, RefundStep(t) \/ SavedOnly(t) PROVE taken \subseteq taken'
    BY <2>1 DEF RefundStep, RefundCheck, Credit, EscrowRefund, SaveMarker, SaveStep, SavedOnly,
                TakeQuote, session
  <2>2. ASSUME NEW j \in Jobs, CreateJob(j) \/ RunnerStep(j) PROVE taken \subseteq taken'
    BY <2>2, PaidByRunner DEF Hold, EscrowHold, TakeQuote, session
  <2>3. ASSUME NEW c \in Cancels, CancelLoad(c) \/ CancelStep(c) PROVE taken \subseteq taken'
    BY <2>1, <2>3 DEF CancelLoad, CancelStep, CancelFlag, SaveStep, session, Threads
  <2> QED
    BY <2>1, <2>2, <2>3
       DEF Next, Activate, Preflight, EndCall, CallFault, PayBill, BillSavedOnly, ThreadFault,
           Crash, CallRest, session, vars
<1>2. ASSUME NEW j \in refundIds', j \notin refundIds
      PROVE  \E t \in Threads : JobOf(t) = j /\ pc[t] = "credit"
  <2>1. ASSUME NEW t \in Threads, RefundStep(t) \/ SavedOnly(t)
        PROVE  \E u \in Threads : JobOf(u) = j /\ pc[u] = "credit"
    BY <1>2, <2>1 DEF RefundStep, RefundCheck, Credit, EscrowRefund, SaveMarker, SaveStep,
                SavedOnly, TakeQuote, session
  <2>2. ASSUME NEW i \in Jobs, CreateJob(i) \/ RunnerStep(i), ~RefundStep(i) PROVE FALSE
    BY <1>2, <2>2
       DEF CreateJob, RunnerStep, Hold, EscrowHold, TakeQuote, MarkRunning, Gate, ReleaseGate,
           SaveArtifact, Precheck, LogCommand, Trained, LogOutput, Settle, Recheck, RecordSpend,
           LedgerSettle, SaveCompleted, FailCheck, FailLog, SaveFailed, SaveStep, Local, session
  <2>3. ASSUME NEW c \in Cancels, CancelLoad(c) \/ CancelStep(c), ~RefundStep(c) PROVE FALSE
    BY <1>2, <2>3 DEF CancelLoad, CancelStep, CancelFlag, SaveStep, session
  <2> QED
    BY <1>2, <2>1, <2>2, <2>3
       DEF Next, Activate, Preflight, EndCall, CallFault, PayBill, BillSavedOnly, ThreadFault,
           Crash, CallRest, session, vars, Threads
<1>3. ASSUME NEW c \in Cancels, pc[c] # "idle" PROVE pc'[c] # "idle" /\ target' = target
  <2>1. c \in Threads /\ c \notin Jobs
    BY PayAssumption DEF Threads
  <2>2. ASSUME NEW j \in Jobs, CreateJob(j) \/ RunnerStep(j)
        PROVE  pc'[c] # "idle" /\ target' = target
    <3>1. target' = target /\ \E label : Goto(j, label)
      BY <2>2 DEF CreateJob, RunnerStep, Hold, MarkRunning, Gate, ReleaseGate,
         SaveArtifact, Precheck, LogCommand, Trained, LogOutput, Settle, Recheck, RecordSpend,
         LedgerSettle, SaveCompleted, FailCheck, FailLog, RefundStep, RefundCheck, Credit,
         SaveMarker, SaveFailed, SaveStep, Local, Rest
    <3> QED
      BY <1>3, <2>1, <3>1 DEF Goto, TypeOK
  <2>3. ASSUME NEW d \in Cancels, CancelLoad(d) \/ CancelStep(d)
        PROVE  pc'[c] # "idle" /\ target' = target
    <3>1. target' = target /\ \E label : Goto(d, label) /\ label # "idle"
      BY <2>3 DEF CancelLoad, CancelStep, CancelFlag, RefundStep, RefundCheck, Credit,
         SaveMarker, SaveStep, AfterRefund, Rest
    <3> QED
      BY <1>3, <2>1, <3>1 DEF Goto, TypeOK
  <2>4. ASSUME NEW t \in Threads, ThreadFault(t)
        PROVE  pc'[c] # "idle" /\ target' = target
    BY <1>3, <2>1, <2>4 DEF ThreadFault, Goto, TypeOK
  <2>5. CASE Crash
    BY <1>3, <2>1, <2>5 DEF Crash
  <2>6. CASE \/ \E f \in Funds : Activate(f)
             \/ \E k \in Calls : Preflight(k) \/ EndCall(k) \/ CallFault(k)
             \/ UNCHANGED vars
    BY <1>3, <2>6 DEF Activate, Preflight, EndCall, CallFault, CallRest, vars
  <2> QED
    BY <2>2, <2>3, <2>4, <2>5, <2>6 DEF Next
<1>4. ASSUME NEW j \in refundIds' \ taken'
      PROVE  \E c \in Cancels : target'[c] = j /\ pc'[c] # "idle"
  <2>1. CASE j \in refundIds
    <3>1. PICK c \in Cancels : target[c] = j /\ pc[c] # "idle"
      BY <1>1, <1>4, <2>1 DEF RefundsReturn
    <3> QED
      BY <1>3, <3>1
  <2>2. CASE j \notin refundIds
    <3>1. PICK t \in Threads : JobOf(t) = j /\ pc[t] = "credit"
      BY <1>2, <1>4, <2>2
    <3>2. t \notin Jobs
      BY <1>1, <1>4, <3>1 DEF Paid, JobOf
    <3>3. t \in Cancels /\ target[t] = j /\ pc[t] # "idle"
      BY <3>1, <3>2 DEF Threads, JobOf
    <3> QED
      BY <1>3, <3>3
  <2> QED
    BY <2>1, <2>2
<1> QED
  BY <1>4 DEF RefundsReturn

\* Every step keeps the books.
LEMMA BooksOfNext == BooksInv /\ [Next]_vars => BooksInv'
<1> SUFFICES ASSUME TypeOK, Paid, SessionBooks, LedgerLists, [Next]_vars
             PROVE  Paid' /\ SessionBooks' /\ LedgerLists'
  BY TypeOfNext, RefundsOfNext DEF BooksInv, Books
<1>0. ASSUME UNCHANGED BookVars, faults' = faults PROVE SessionBooks' /\ LedgerLists'
  BY <1>0 DEF SessionBooks, LedgerLists, BookVars
<1>1. ASSUME NEW f \in Funds, Activate(f) PROVE Paid' /\ SessionBooks' /\ LedgerLists'
  <2>1. UNCHANGED <<taken, unlisted, held, pc, faults>>
    BY <1>1 DEF Activate, ledger
  <2> QED
    BY <1>1, <2>1, BooksOfFund DEF Paid, LedgerLists
<1>2. ASSUME NEW j \in Jobs, CreateJob(j) \/ RunnerStep(j)
      PROVE  Paid' /\ SessionBooks' /\ LedgerLists'
  <2>1. CASE Hold(j)
    BY <2>1, BooksOfHold
  <2>2. CASE ~Hold(j)
    <3>1. Paid' /\ LedgerLists'
      BY <1>2, <2>2, PaidByRunner DEF LedgerLists
    <3>2. CASE Credit(j)
      BY <3>1, <3>2, BooksOfCredit DEF Credit, JobOf, ledger
    <3>3. CASE ~Credit(j)
      <4>1. UNCHANGED <<balance, funded, refunded, fundIds, refundIds, taken, unlisted, debited>>
        BY <1>2, <2>2, <3>3
           DEF CreateJob, RunnerStep, MarkRunning, Gate, ReleaseGate, SaveArtifact, Precheck,
               LogCommand, Trained, LogOutput, Settle, Recheck, RecordSpend, LedgerSettle,
               SaveCompleted, FailCheck, FailLog, RefundStep, RefundCheck, SaveMarker,
               SaveFailed, SaveStep, Local, ledger, session
      <4> QED
        BY <3>1, <4>1 DEF SessionBooks
    <3> QED
      BY <3>2, <3>3
  <2> QED
    BY <2>1, <2>2
<1>3. ASSUME NEW c \in Cancels, CancelLoad(c) \/ CancelStep(c)
      PROVE  Paid' /\ SessionBooks' /\ LedgerLists'
  <2>0. c \in Threads /\ c \notin Jobs /\ JobOf(c) \in Jobs
    BY PayAssumption DEF Threads, JobOf, TypeOK
  <2>1. UNCHANGED <<ledger, taken, unlisted, faults>> /\ \E label : Goto(c, label)
    BY <1>3 DEF CancelLoad, CancelStep, CancelFlag, RefundStep, RefundCheck, Credit,
                EscrowRefund, SaveMarker, SaveStep, session, Rest
  <2>2. Paid' /\ LedgerLists'
    BY <2>0, <2>1 DEF Paid, LedgerLists, Goto, TypeOK, ledger
  <2>3. CASE Credit(c)
    BY <2>0, <2>1, <2>2, <2>3, BooksOfCredit DEF Credit, ledger
  <2>4. CASE ~Credit(c)
    <3>1. UNCHANGED session
      BY <1>3, <2>4 DEF CancelLoad, CancelStep, CancelFlag, RefundStep, RefundCheck,
                        SaveMarker, SaveStep
    <3> QED
      BY <2>1, <2>2, <3>1 DEF session, ledger, SessionBooks
  <2> QED
    BY <2>3, <2>4
<1>4. ASSUME NEW k \in Calls, Preflight(k) \/ EndCall(k)
      PROVE  Paid' /\ SessionBooks' /\ LedgerLists'
  <2>1. CASE UNCHANGED CallRest
    BY <2>1, <1>0 DEF CallRest, session, ledger, BookVars, Paid
  <2>2. CASE ~UNCHANGED CallRest
    <3>1. PICK bill \in Bills : PayBill(bill) /\ debited' = debited + bill
      BY <1>4, <2>2 DEF Preflight, EndCall
    <3>2. UNCHANGED <<unlisted, held, pc, faults>>
      BY <1>4, <2>2 DEF Preflight, EndCall
    <3>3. taken' = taken
      BY <3>1 DEF PayBill
    <3>4. SessionBooks'
      BY <3>1, <3>2, BooksOfBill
    <3> QED
      BY <3>2, <3>3, <3>4 DEF LedgerLists, Paid
  <2> QED
    BY <2>1, <2>2
<1>5. ASSUME NEW k \in Calls, CallFault(k) PROVE Paid' /\ SessionBooks' /\ LedgerLists'
  <2>1. SessionBooks' /\ LedgerLists'
    BY <1>5, BooksOfFault DEF CallFault
  <2>2. UNCHANGED <<taken, pc>>
    BY <1>5 DEF CallFault, BillSavedOnly, PayBill
  <2> QED
    BY <2>1, <2>2 DEF Paid
<1>6. ASSUME NEW t \in Threads, ThreadFault(t) PROVE Paid' /\ SessionBooks' /\ LedgerLists'
  <2>1. SessionBooks' /\ LedgerLists' /\ taken \subseteq taken'
    BY <1>6, BooksOfFault DEF ThreadFault
  <2>2. \A j \in Jobs : j \in taken' => j \in taken \/ (j = t /\ pc[j] = "hold")
    BY <1>6, BooksOfSaved DEF ThreadFault, ledger, session
  <2>3. /\ pc[t] \notin {"idle", "end"} /\ t \in Threads
        /\ \A u \in Threads : u # t => pc'[u] = pc[u]
        /\ t \in Jobs => pc'[t] = "end" \/ (pc'[t] = "finally" /\ InGate(t))
    BY <1>6, PayAssumption DEF ThreadFault, Live, Goto, TypeOK
  <2> QED
    BY <2>1, <2>2, <2>3 DEF Paid, InGate, Live, Threads
<1>7. CASE Crash
  <2>1. SessionBooks' /\ LedgerLists' /\ taken \subseteq taken'
    BY <1>7, BooksOfFault DEF Crash
  <2>2. \A j \in Jobs : j \in taken' => j \in taken \/ pc[j] = "hold"
    BY <1>7, BooksOfSaved DEF Crash, BillSavedOnly, PayBill, ledger, session
  <2>3. \A j \in Jobs : pc'[j] = "end" \/ (pc'[j] = pc[j] /\ ~Live(j))
    BY <1>7 DEF Crash, Threads
  <2> QED
    BY <2>1, <2>2, <2>3 DEF Paid, Live
<1>8. CASE UNCHANGED vars
  BY <1>8, <1>0 DEF vars, session, ledger, BookVars, Paid
<1> QED
  BY <1>1, <1>2, <1>3, <1>4, <1>5, <1>6, <1>7, <1>8 DEF Next

\* Where the sats of a session are, after any race, exception or crash: what was
\* paid in and refunded is what is left, what escrow_hold took and what calls paid;
\* a payment credits once, a job is refunded once, and what is refunded had been
\* taken, except by a cancel; the ledger lists all of it, except after a fault.
THEOREM SatsAccounted == Spec => []Books
<1>1. Init => BooksInv
  <2>1. ASSUME Init PROVE Paid /\ Books
    BY <2>1, FS_EmptySet, PayAssumption
       DEF Init, Paid, Books, SessionBooks, RefundsReturn, LedgerLists, Threads
  <2> QED
    BY <2>1, InitTypeOK DEF BooksInv
<1>2. BooksInv => Books
  BY DEF BooksInv
<1> QED
  BY <1>1, <1>2, BooksOfNext, PTL DEF Spec

-----------------------------------------------------------------------------
(* Receipts.                                                               *)

ReceiptInv == TypeOK /\ CopyBacked /\ ReceiptBacked

\* Refunds and settlements in the ledger are never taken back.
LEMMA Grows ==
  ASSUME TypeOK, [Next]_vars
  PROVE  refundIds \subseteq refundIds' /\ settles \subseteq settles'
<1>1. ASSUME NEW t \in Threads, RefundStep(t)
      PROVE  refundIds \subseteq refundIds' /\ settles \subseteq settles'
  BY <1>1 DEF RefundStep, RefundCheck, Credit, EscrowRefund, SaveMarker, SaveStep, session, ledger
<1>2. ASSUME NEW j \in Jobs, CreateJob(j) \/ RunnerStep(j)
      PROVE  refundIds \subseteq refundIds' /\ settles \subseteq settles'
  BY <1>1, <1>2
     DEF CreateJob, RunnerStep, Hold, EscrowHold, TakeQuote, MarkRunning, Gate, ReleaseGate,
         SaveArtifact, Precheck,
         LogCommand, Trained, LogOutput, Settle, Recheck, RecordSpend, LedgerSettle,
         SaveCompleted, FailCheck, FailLog, SaveFailed, SaveStep, Local, ledger, session,
         Threads
<1>3. ASSUME NEW c \in Cancels, CancelLoad(c) \/ CancelStep(c)
      PROVE  refundIds \subseteq refundIds' /\ settles \subseteq settles'
  BY <1>1, <1>3 DEF CancelLoad, CancelStep, CancelFlag, SaveStep, ledger, session, Threads
<1>4. ASSUME UNCHANGED session \/ (\E t \in Threads : SavedOnly(t))
               \/ (\E k \in Calls : BillSavedOnly(k)),
             UNCHANGED ledger
      PROVE  refundIds \subseteq refundIds' /\ settles \subseteq settles'
  BY <1>4 DEF SavedOnly, TakeQuote, EscrowRefund, BillSavedOnly, PayBill, session, ledger
<1>5. ASSUME NEW k \in Calls, Preflight(k) \/ EndCall(k)
      PROVE  refundIds \subseteq refundIds' /\ settles \subseteq settles'
  BY <1>5 DEF Preflight, EndCall, PayBill, CallRest, session, ledger
<1>6. CASE (\E t \in Threads : ThreadFault(t)) \/ (\E k \in Calls : CallFault(k)) \/ Crash
  BY <1>4, <1>6 DEF ThreadFault, CallFault, Crash
<1> QED
  BY <1>2, <1>3, <1>5, <1>6 DEF Next, Activate, vars, session, ledger

\* A save publishes the thread's copy, changed in its status or by a settlement
\* that is backed.
LEMMA BackedSave ==
  ASSUME ReceiptInv, NEW t \in Threads, NEW rec \in Record, NEW from, NEW label,
         SaveStep(t, from, rec, label),
         rec.settlement = "refunded" => JobOf(t) \in refundIds,
         rec.settlement = "settled" => JobOf(t) \in settles,
         label # "marker",
         label \in {"settled", "resave"} => t \in settles
  PROVE  CopyBacked' /\ ReceiptBacked'
<1>1. JobOf(t) \in Jobs
  BY JobOfType DEF ReceiptInv
<1>2. /\ mine' = [mine EXCEPT ![t] = rec] /\ file' = [file EXCEPT ![JobOf(t)] = rec]
      /\ pc' = [pc EXCEPT ![t] = label]
      /\ UNCHANGED <<refundIds, settles, target>>
  BY DEF SaveStep, Save, Goto, session, ledger, Rest
<1>3. ReceiptBacked'
  BY <1>1, <1>2 DEF ReceiptInv, ReceiptBacked, TypeOK
<1>4. CopyBacked'
  BY <1>1, <1>2 DEF ReceiptInv, CopyBacked, TypeOK, JobOf
<1> QED
  BY <1>3, <1>4

\* A step that saves nothing and keeps the copies.
LEMMA BackedGoto ==
  ASSUME ReceiptInv, NEW t \in Threads, NEW label, Goto(t, label),
         UNCHANGED <<file, mine, target>>,
         refundIds \subseteq refundIds', settles \subseteq settles',
         label = "marker" => JobOf(t) \in refundIds',
         label \in {"settled", "resave"} => t \in settles'
  PROVE  CopyBacked' /\ ReceiptBacked'
<1>1. ReceiptBacked'
  BY DEF ReceiptInv, ReceiptBacked
<1>2. CopyBacked'
  BY DEF ReceiptInv, CopyBacked, TypeOK, JobOf, Goto, Threads
<1> QED
  BY <1>1, <1>2

\* A step that takes over the file, changed at most in its status, or changes
\* the thread's copy.
TakeCopy(t, rec, label) ==
  /\ Goto(t, label)
  /\ mine' = [mine EXCEPT ![t] = rec]
  /\ UNCHANGED <<file, target, refundIds, settles>>

\* A copy taken from the file, or kept, is backed by the ledger as they were.
LEMMA BackedCopy ==
  ASSUME ReceiptInv, NEW t \in Threads, NEW label, NEW rec \in Record,
         TakeCopy(t, rec, label),
         rec.settlement \in {mine[t].settlement, file[JobOf(t)].settlement},
         label \notin {"marker", "settled", "resave"}
  PROVE  CopyBacked' /\ ReceiptBacked'
<1>0. /\ Goto(t, label) /\ mine' = [mine EXCEPT ![t] = rec]
      /\ UNCHANGED <<file, target, refundIds, settles>>
  BY DEF TakeCopy
<1>1. ReceiptBacked'
  BY <1>0 DEF ReceiptInv, ReceiptBacked
<1>2. JobOf(t) \in Jobs
  BY JobOfType DEF ReceiptInv
<1>3. /\ rec.settlement = "refunded" => JobOf(t) \in refundIds
      /\ rec.settlement = "settled"  => JobOf(t) \in settles
  BY <1>2 DEF ReceiptInv, CopyBacked, ReceiptBacked
<1>4. CopyBacked'
  BY <1>0, <1>3 DEF ReceiptInv, CopyBacked, TypeOK, JobOf, Goto, Threads
<1> QED
  BY <1>1, <1>4

\* A refund writes "refunded" after its entry in the ledger.
LEMMA BackedRefund ==
  ASSUME ReceiptInv, NEW t \in Threads, RefundStep(t)
  PROVE  CopyBacked' /\ ReceiptBacked'
<1>0. AfterRefund(t) \notin {"marker", "settled", "resave"}
  BY DEF AfterRefund
<1> DEFINE marked == [mine[t] EXCEPT !.settlement = "refunded"]
<1>m. marked \in Record /\ marked.settlement = "refunded"
  BY CopyType, RecordExcept DEF ReceiptInv
<1>1. CASE RefundCheck(t)
  <2>1. CASE Refunded(file[JobOf(t)])
    <3>1. TakeCopy(t, marked, AfterRefund(t))
      BY <1>1, <2>1 DEF RefundCheck, TakeCopy, session, ledger, Rest
    <3>3. marked.settlement = file[JobOf(t)].settlement
      BY <1>m, <2>1 DEF Refunded
    <3> HIDE DEF marked
    <3> QED
      BY <3>1, <3>3, <1>0, <1>m, BackedCopy
  <2>2. CASE ~Refunded(file[JobOf(t)])
    BY <1>1, <2>2, BackedGoto DEF RefundCheck, session, ledger, Rest
  <2> QED
    BY <2>1, <2>2
<1>2. CASE Credit(t)
  <2>1. JobOf(t) \in refundIds' /\ refundIds \subseteq refundIds'
    BY <1>2 DEF Credit, EscrowRefund, session
  <2> QED
    BY <1>2, <2>1, BackedGoto DEF Credit, ledger, Rest
<1>3. CASE SaveMarker(t)
  <2>1. JobOf(t) \in refundIds
    BY <1>3 DEF SaveMarker, SaveStep, ReceiptInv, CopyBacked
  <2>2. SaveStep(t, "marker", marked, AfterRefund(t))
    BY <1>3 DEF SaveMarker
  <2> HIDE DEF marked
  <2> QED
    BY <1>0, <1>m, <2>1, <2>2, BackedSave
<1> QED
  BY <1>1, <1>2, <1>3 DEF RefundStep

\* Saves of the copy in hand with another status.
LEMMA BackedStatus ==
  ASSUME ReceiptInv, NEW t \in Threads, NEW rec \in Record, NEW from, NEW label,
         SaveStep(t, from, rec, label), rec.settlement = mine[t].settlement,
         label \notin {"marker", "settled", "resave"}
  PROVE  CopyBacked' /\ ReceiptBacked'
<1>1. /\ rec.settlement = "refunded" => JobOf(t) \in refundIds
      /\ rec.settlement = "settled"  => JobOf(t) \in settles
  BY DEF ReceiptInv, CopyBacked
<1> QED
  BY <1>1, BackedSave

\* A step that writes no record keeps every copy backed.
LEMMA BackedLocal ==
  ASSUME ReceiptInv, NEW t \in Threads, NEW label, Local(t, label),
         label \notin {"marker", "settled", "resave"}
  PROVE  CopyBacked' /\ ReceiptBacked'
  BY BackedGoto DEF Local, session, ledger, Rest

\* A runner writes "settled" after its entry in the ledger.
LEMMA BackedRunner ==
  ASSUME ReceiptInv, NEW j \in Jobs, RunnerStep(j)
  PROVE  CopyBacked' /\ ReceiptBacked'
<1>0. /\ j \in Threads /\ JobOf(j) = j
      /\ Leave(j) \notin {"marker", "settled", "resave"}
  BY DEF Threads, JobOf, Leave
<1>c. /\ mine[j] \in Record /\ file[j] \in Record
      /\ \A s \in {"running", "failed"} :
           /\ [mine[j] EXCEPT !.status = s] \in Record
           /\ [mine[j] EXCEPT !.status = s].settlement = mine[j].settlement
  BY <1>0, CopyType, RecordExcept DEF ReceiptInv
<1> USE <1>0, <1>c
<1>1. CASE Hold(j)
  <2>1. \E label \in {"mark", "end"} : Goto(j, label)
    BY <1>1 DEF Hold
  <2>2. UNCHANGED <<file, mine, target, refundIds, settles>>
    BY <1>1 DEF Hold, EscrowHold, TakeQuote, session, Rest
  <2> QED
    BY <2>1, <2>2, BackedGoto
<1>2. CASE MarkRunning(j)
  <2> DEFINE rec == [mine[j] EXCEPT !.status = "running"]
  <2>1. rec \in Record /\ rec.settlement = mine[j].settlement
    OBVIOUS
  <2>2. \E label \in {"complete", "gate"} : SaveStep(j, "mark", rec, label)
    BY <1>2 DEF MarkRunning
  <2> HIDE DEF rec
  <2> QED
    BY <2>1, <2>2, BackedStatus
<1>3. CASE Gate(j)
  <2>1. CASE running
    <3> DEFINE loser == [mine[j] EXCEPT !.status = "failed"]
    <3>1. TakeCopy(j, loser, "refund")
      BY <1>3, <2>1 DEF Gate, TakeCopy, session, ledger, Rest
    <3>3. loser \in Record /\ loser.settlement = mine[j].settlement
      OBVIOUS
    <3> HIDE DEF loser
    <3> QED
      BY <3>1, <3>3, BackedCopy
  <2>2. CASE ~running
    BY <1>3, <2>2, BackedGoto DEF Gate, session, ledger, Rest
  <2> QED
    BY <2>1, <2>2
<1>4. CASE ReleaseGate(j)
  BY <1>4, BackedGoto DEF ReleaseGate, session, ledger, Rest
<1>5. CASE SaveArtifact(j)  BY <1>5, BackedStatus DEF SaveArtifact
<1>6. CASE Precheck(j)      BY <1>6, BackedLocal DEF Precheck
<1>7. CASE LogCommand(j)    BY <1>7, BackedStatus DEF LogCommand
<1>8. CASE Trained(j)
  <2>1. CASE \E label \in {"fail", "log"} : Local(j, label)
    BY <2>1, BackedLocal
  <2>2. CASE ~\E label \in {"fail", "log"} : Local(j, label)
    <3>1. TakeCopy(j, file[j], "latelog")
      BY <1>8, <2>2 DEF Trained, TakeCopy, session, ledger, Rest
    <3> QED
      BY <3>1, BackedCopy
  <2> QED
    BY <2>1, <2>2
<1>9. CASE LogOutput(j)     BY <1>9, BackedStatus, BackedLocal DEF LogOutput
<1>10. CASE Settle(j)       BY <1>10, BackedLocal DEF Settle
<1>11. CASE Recheck(j)      BY <1>11, BackedLocal DEF Recheck
<1>12. CASE RecordSpend(j)
  BY <1>12, BackedGoto DEF RecordSpend, ledger, Rest
<1>13. CASE LedgerSettle(j)
  BY <1>13, BackedGoto DEF LedgerSettle, session, Rest
<1>14. CASE SaveCompleted(j)
  <2>1. Completed \in Record /\ Completed.settlement = "settled"
    BY DEF Completed, Record
  <2>2. j \in settles
    BY <1>14 DEF SaveCompleted, SaveStep, ReceiptInv, CopyBacked
  <2> QED
    BY <1>14, <2>1, <2>2, BackedSave DEF SaveCompleted
<1>15. CASE FailCheck(j)    BY <1>15, BackedLocal DEF FailCheck
<1>16. CASE FailLog(j)
  <2> DEFINE rec == [mine[j] EXCEPT !.status = "failed"]
  <2>1. rec \in Record /\ rec.settlement = mine[j].settlement
    OBVIOUS
  <2>2. SaveStep(j, "faillog", rec, "refund")
    BY <1>16 DEF FailLog
  <2> HIDE DEF rec
  <2> QED
    BY <2>1, <2>2, BackedStatus
<1>17. CASE SaveFailed(j)
  <2>1. \E label \in {"end", Leave(j)} : Goto(j, label)
    BY <1>17 DEF SaveFailed
  <2>2. /\ mine' = [mine EXCEPT ![j] = mine[j]] /\ file' = [file EXCEPT ![j] = mine[j]]
        /\ UNCHANGED <<refundIds, settles, target>>
    BY <1>17 DEF SaveFailed, Save, session, ledger, Rest
  <2>3. ReceiptBacked'
    BY <2>2 DEF ReceiptInv, ReceiptBacked, CopyBacked, TypeOK
  <2>4. CopyBacked'
    BY <2>1, <2>2 DEF ReceiptInv, CopyBacked, TypeOK, JobOf, Goto
  <2> QED
    BY <2>3, <2>4
<1> QED
  BY <1>1, <1>2, <1>3, <1>4, <1>5, <1>6, <1>7, <1>8, <1>9, <1>10, <1>11, <1>12, <1>13,
     <1>14, <1>15, <1>16, <1>17, BackedRefund DEF RunnerStep

\* Every step keeps the receipts backed.
LEMMA ReceiptOfNext == ReceiptInv /\ [Next]_vars => ReceiptInv'
<1> SUFFICES ASSUME ReceiptInv, [Next]_vars PROVE CopyBacked' /\ ReceiptBacked'
  BY TypeOfNext DEF ReceiptInv
<1>1. ASSUME UNCHANGED <<file, mine, pc, target>> PROVE CopyBacked' /\ ReceiptBacked'
  BY <1>1, Grows DEF ReceiptInv, CopyBacked, ReceiptBacked, JobOf
<1>2. ASSUME NEW j \in Jobs, CreateJob(j) PROVE CopyBacked' /\ ReceiptBacked'
  <2> DEFINE new == [status |-> "pending", settlement |-> "none"]
  <2>1. new \in Record /\ new.settlement = "none" /\ j \in Threads
    BY DEF Record, Threads
  <2>2. SaveStep(j, "idle", new, "hold")
    BY <1>2 DEF CreateJob
  <2> HIDE DEF new
  <2> QED
    BY <2>1, <2>2, BackedSave
<1>3. ASSUME NEW c \in Cancels, CancelLoad(c) PROVE CopyBacked' /\ ReceiptBacked'
  <2>1. c \in Threads /\ JobOf(c) = target[c]
    BY PayAssumption DEF Threads, JobOf
  <2> DEFINE rec == [file[target[c]] EXCEPT !.status = "cancelled"]
  <2>2. rec \in Record /\ rec.settlement = file[JobOf(c)].settlement
    BY <2>1, CopyType, RecordExcept DEF ReceiptInv
  <2>3. UNCHANGED <<file, target, refundIds, settles>>
    BY <1>3 DEF CancelLoad, session, ledger, Rest
  <2>4. CASE mine' = [mine EXCEPT ![c] = rec] /\ Goto(c, "flag")
    <3>1. TakeCopy(c, rec, "flag")
      BY <2>3, <2>4 DEF TakeCopy
    <3> HIDE DEF rec
    <3> QED
      BY <2>1, <2>2, <3>1, BackedCopy
  <2>5. CASE UNCHANGED mine /\ Goto(c, "answered")
    BY <2>1, <2>3, <2>5, BackedGoto
  <2> QED
    BY <1>3, <2>4, <2>5 DEF CancelLoad
<1>4. ASSUME NEW c \in Cancels, CancelStep(c) PROVE CopyBacked' /\ ReceiptBacked'
  <2>1. c \in Threads /\ mine[c] \in Record
    BY CopyType DEF Threads, ReceiptInv
  <2> QED
    BY <1>4, <2>1, BackedStatus, BackedRefund DEF CancelStep, CancelFlag
<1>5. ASSUME NEW t \in Threads, ThreadFault(t) PROVE CopyBacked' /\ ReceiptBacked'
  <2>1. \E label \in {"lost", "finally", "end"} : Goto(t, label)
    BY <1>5 DEF ThreadFault
  <2>2. refundIds \subseteq refundIds' /\ settles \subseteq settles'
    BY Grows DEF ReceiptInv
  <2> QED
    BY <1>5, <2>1, <2>2, BackedGoto DEF ThreadFault
<1>6. CASE Crash
  <2>1. /\ UNCHANGED <<file, mine, target>>
        /\ refundIds \subseteq refundIds' /\ settles \subseteq settles'
    BY <1>6, Grows DEF Crash, ReceiptInv
  <2>2. \A t \in Threads : pc'[t] \in {pc[t], "end", "lost"}
    BY <1>6 DEF Crash
  <2> QED
    BY <2>1, <2>2 DEF ReceiptInv, CopyBacked, ReceiptBacked, JobOf, Threads
<1>7. CASE \/ \E f \in Funds : Activate(f)
           \/ \E k \in Calls : Preflight(k) \/ EndCall(k) \/ CallFault(k)
           \/ UNCHANGED vars
  BY <1>1, <1>7 DEF Activate, Preflight, EndCall, CallFault, CallRest, vars
<1> QED
  BY <1>2, <1>3, <1>4, <1>5, <1>6, <1>7, BackedRunner DEF Next

\* What the buyer's receipt claims is in the books, after any crash: a refunded
\* job was credited, a settled job has its job_settle entry.
THEOREM ReceiptsTrue == Spec => []ReceiptBacked
<1>1. Init => ReceiptInv
  <2>1. ASSUME Init PROVE CopyBacked /\ ReceiptBacked
    BY <2>1 DEF Init, CopyBacked, ReceiptBacked, NoFile, Threads
  <2> QED
    BY <2>1, InitTypeOK DEF ReceiptInv
<1>2. ReceiptInv => ReceiptBacked
  BY DEF ReceiptInv
<1> QED
  BY <1>1, <1>2, ReceiptOfNext, PTL DEF Spec

-----------------------------------------------------------------------------
(* The gate.                                                               *)

GateInv == TypeOK /\ LockInv /\ OneTrainer

\* A step that moves a thread and leaves the gate alone.
LEMMA GateOfGoto ==
  ASSUME GateInv, NEW t \in Threads, NEW label \in Labels, Goto(t, label),
         UNCHANGED <<dry, running, lock>>,
         t \in Jobs => /\ label \in {"gate", "finally"} => ~dry[t] /\ t \notin lock
                       /\ t \in lock => label \in {"refund", "credit", "marker", "failed"}
                       /\ ~dry[t] /\ t \notin lock
                          => (InGate(t) <=> label \notin {"idle", "hold", "mark", "gate", "end",
                                                           "answered", "lost"})
  PROVE  LockInv' /\ OneTrainer'
<1>1. pc' = [pc EXCEPT ![t] = label] /\ \A j \in Jobs : j \in Threads
  BY DEF Goto, Threads
<1>2. LockInv'
  BY <1>1 DEF GateInv, LockInv, TypeOK
<1>3. \A j \in Jobs : InGate(j)' <=> InGate(j)
  BY <1>1 DEF GateInv, TypeOK, InGate, Live
<1>4. OneTrainer'
  BY <1>3 DEF GateInv, OneTrainer
<1> QED
  BY <1>2, <1>4

\* Labels between the gate and the finally, and of them the refund.
RefundPc == {"refund", "credit", "marker", "failed"}
MiddlePc == {"artifact", "precheck", "logcmd", "train", "latelog", "log", "complete",
             "recheck", "spend", "ledger", "settled", "resave", "fail", "faillog"}
            \union RefundPc

\* A runner past the gate keeps its place in _RUNNING until it leaves.
LEMMA GateOfMiddle ==
  ASSUME GateInv, NEW j \in Jobs, NEW label \in MiddlePc \union {Leave(j)}, Goto(j, label),
         UNCHANGED <<dry, running, lock>>,
         pc[j] \in MiddlePc, pc[j] \in RefundPc => label \in RefundPc
  PROVE  LockInv' /\ OneTrainer'
<1>1. j \in Threads /\ label \in Labels
  BY DEF Threads, MiddlePc, RefundPc, Leave, Labels
<1>2. /\ label \in {"gate", "finally"} => ~dry[j] /\ j \notin lock
      /\ j \in lock => label \in {"refund", "credit", "marker", "failed"}
  BY DEF GateInv, LockInv, MiddlePc, RefundPc, Leave
<1>3. ~dry[j] /\ j \notin lock => InGate(j)
  BY DEF InGate, Live, MiddlePc, RefundPc
<1>4. ~dry[j] => label \notin {"idle", "hold", "mark", "gate", "end", "answered", "lost"}
  BY DEF MiddlePc, RefundPc, Leave
<1> QED
  BY <1>1, <1>2, <1>3, <1>4, GateOfGoto

\* Every step of a runner keeps one trainer behind the gate.
LEMMA GateOfRunner ==
  ASSUME GateInv, NEW j \in Jobs, CreateJob(j) \/ RunnerStep(j)
  PROVE  LockInv' /\ OneTrainer'
<1>0. j \in Threads
  BY DEF Threads
<1>1. CASE CreateJob(j) \/ Hold(j) \/ MarkRunning(j)
  <2>1. PICK label \in {"hold", "mark", "complete", "gate", "end"} :
          /\ Goto(j, label) /\ pc[j] \in {"idle", "hold", "mark"}
          /\ label = "complete" => dry[j]
          /\ label = "gate" => ~dry[j]
    BY <1>1 DEF CreateJob, Hold, MarkRunning, SaveStep, GateInv, TypeOK
  <2>2. UNCHANGED <<dry, running, lock>>
    BY <1>1 DEF CreateJob, Hold, MarkRunning, SaveStep, gateVars, Rest
  <2>3. j \notin lock /\ ~InGate(j)
    BY <2>1 DEF GateInv, LockInv, InGate, Live
  <2>4. label \in Labels
    BY DEF Labels
  <2> QED
    BY <1>0, <2>1, <2>2, <2>3, <2>4, GateOfGoto
<1>2. CASE Gate(j)
  <2>1. /\ pc[j] = "gate" /\ lock = {} /\ ~dry[j] /\ ~InGate(j) /\ dry' = dry
    BY <1>2 DEF Gate, Rest, GateInv, LockInv, InGate
  <2>2. CASE running
    <3>1. running' = running /\ lock' = {j} /\ pc' = [pc EXCEPT ![j] = "refund"]
      BY <1>2, <2>2 DEF Gate, Goto
    <3>2. LockInv'
      BY <1>0, <2>1, <3>1 DEF LockInv, GateInv, TypeOK, Threads
    <3>3. \A i \in Jobs : InGate(i)' <=> InGate(i)
      BY <1>0, <2>1, <3>1 DEF InGate, Live, GateInv, TypeOK, Threads
    <3> QED
      BY <3>1, <3>2, <3>3 DEF GateInv, OneTrainer
  <2>3. CASE ~running
    <3>1. running' = TRUE /\ lock' = lock /\ pc' = [pc EXCEPT ![j] = "artifact"]
      BY <1>2, <2>3 DEF Gate, Goto
    <3>2. LockInv'
      BY <1>0, <2>1, <3>1 DEF LockInv, GateInv, TypeOK, Threads
    <3>3. \A i \in Jobs : ~InGate(i)
      BY <2>3 DEF GateInv, OneTrainer
    <3>4. \A i \in Jobs : InGate(i)' <=> i = j
      BY <1>0, <2>1, <3>1, <3>3 DEF InGate, Live, GateInv, TypeOK, Threads
    <3> QED
      BY <3>1, <3>2, <3>4 DEF OneTrainer
  <2> QED
    BY <2>2, <2>3
<1>3. CASE ReleaseGate(j)
  <2>1. /\ pc[j] = "finally" /\ lock = {} /\ lock' = lock /\ dry' = dry /\ running' = FALSE
        /\ pc' = [pc EXCEPT ![j] = "end"]
    BY <1>3 DEF ReleaseGate, Rest, Goto
  <2>2. InGate(j)
    BY <2>1 DEF InGate, Live, GateInv, LockInv
  <2>3. LockInv'
    BY <1>0, <2>1 DEF LockInv, GateInv, TypeOK, Threads
  <2>4. \A i \in Jobs : ~InGate(i)'
    BY <1>0, <2>1, <2>2 DEF InGate, Live, GateInv, OneTrainer, TypeOK, Threads
  <2> QED
    BY <2>1, <2>3, <2>4 DEF OneTrainer
<1>4. CASE SaveFailed(j)
  <2>1. /\ pc[j] = "failed" /\ lock' = lock \ {j} /\ dry' = dry /\ running' = running
        /\ pc' = [pc EXCEPT ![j] = IF j \in lock THEN "end" ELSE Leave(j)]
    BY <1>4 DEF SaveFailed, Rest, Goto
  <2>2. LockInv'
    BY <1>0, <2>1 DEF LockInv, GateInv, TypeOK, Threads, Leave
  <2>3. \A i \in Jobs : InGate(i)' <=> InGate(i)
    BY <1>0, <2>1 DEF InGate, Live, GateInv, TypeOK, Threads, Leave
  <2> QED
    BY <2>1, <2>2, <2>3 DEF OneTrainer, GateInv
<1>5. CASE ~(\/ CreateJob(j) \/ Hold(j) \/ MarkRunning(j) \/ Gate(j) \/ ReleaseGate(j)
            \/ SaveFailed(j))
  <2>1. PICK label \in MiddlePc \union {Leave(j)} :
          /\ Goto(j, label)
          /\ pc[j] \in MiddlePc
          /\ pc[j] \in RefundPc => label \in RefundPc
    BY <1>5 DEF RunnerStep, SaveArtifact, Precheck, LogCommand, Trained, LogOutput, Settle,
                Recheck, RecordSpend, LedgerSettle, SaveCompleted, FailCheck, FailLog,
                RefundStep, RefundCheck, Credit, SaveMarker, SaveStep, Local, AfterRefund,
                MiddlePc, RefundPc
  <2>2. UNCHANGED <<dry, running, lock>>
    BY <1>5 DEF RunnerStep, SaveArtifact, Precheck, LogCommand, Trained, LogOutput, Settle,
                Recheck, RecordSpend, LedgerSettle, SaveCompleted, FailCheck, FailLog,
                RefundStep, RefundCheck, Credit, SaveMarker, SaveStep, Local, gateVars, Rest
  <2> QED
    BY <2>1, <2>2, GateOfMiddle
<1> QED
  BY <1>1, <1>2, <1>3, <1>4, <1>5

\* So does every other step.
LEMMA GateOfNext == GateInv /\ [Next]_vars => GateInv'
<1> SUFFICES ASSUME GateInv, [Next]_vars PROVE LockInv' /\ OneTrainer'
  BY TypeOfNext DEF GateInv
<1>1. ASSUME UNCHANGED <<pc, dry, gateVars>> PROVE LockInv' /\ OneTrainer'
  BY <1>1 DEF GateInv, LockInv, OneTrainer, InGate, Live, gateVars
<1>2. ASSUME NEW c \in Cancels, CancelLoad(c) \/ CancelStep(c) PROVE LockInv' /\ OneTrainer'
  <2>1. c \in Threads /\ c \notin Jobs
    BY PayAssumption DEF Threads
  <2>2. UNCHANGED <<dry, running, lock>>
    BY <1>2 DEF CancelLoad, CancelStep, CancelFlag, RefundStep, RefundCheck, Credit,
                SaveMarker, SaveStep, gateVars, Rest
  <2>3. \E label \in Labels : Goto(c, label)
    BY <1>2 DEF CancelLoad, CancelStep, CancelFlag, RefundStep, RefundCheck, Credit,
                SaveMarker, SaveStep, AfterRefund, Labels
  <2> QED
    BY <2>1, <2>2, <2>3, GateOfGoto
<1>3. ASSUME NEW t \in Threads, ThreadFault(t) PROVE LockInv' /\ OneTrainer'
  <2>1. /\ pc[t] # "finally" /\ lock' = lock \ {t} /\ UNCHANGED <<dry, running>>
        /\ pc' = [pc EXCEPT ![t] = IF t \in Cancels THEN "lost"
                                   ELSE IF InGate(t) THEN "finally" ELSE "end"]
    BY <1>3 DEF ThreadFault, Goto
  <2>2. \A j \in Jobs : j \in Threads /\ j \notin Cancels
    BY PayAssumption DEF Threads
  <2>3. LockInv'
    BY <2>1, <2>2 DEF LockInv, GateInv, TypeOK, InGate
  <2>4. \A j \in Jobs : InGate(j)' <=> InGate(j)
    BY <2>1, <2>2 DEF InGate, Live, GateInv, LockInv, TypeOK
  <2> QED
    BY <2>1, <2>3, <2>4 DEF OneTrainer, GateInv
<1>4. CASE Crash
  <2>1. running' = FALSE /\ lock' = {} /\ dry' = dry
    BY <1>4 DEF Crash
  <2>2. \A j \in Jobs : pc'[j] \in {"idle", "end", "answered", "lost"}
    BY <1>4 DEF Crash, Live, Threads
  <2> QED
    BY <2>1, <2>2 DEF LockInv, OneTrainer, InGate, Live
<1>5. CASE \/ \E f \in Funds : Activate(f)
           \/ \E k \in Calls : Preflight(k) \/ EndCall(k) \/ CallFault(k)
           \/ UNCHANGED vars
  BY <1>1, <1>5 DEF Activate, Preflight, EndCall, CallFault, CallRest, vars
<1> QED
  BY <1>2, <1>3, <1>4, <1>5, GateOfRunner DEF Next

\* At most one runner is between the gate and its finally, and no exit path,
\* exception or crash leaves _RUNNING set without one.
THEOREM OneTrainerAtATime == Spec => []OneTrainer
<1>1. Init => GateInv
  <2>1. ASSUME Init PROVE LockInv /\ OneTrainer
    BY <2>1 DEF Init, LockInv, OneTrainer, InGate, Live, Threads
  <2> QED
    BY <2>1, InitTypeOK DEF GateInv
<1>2. GateInv => OneTrainer
  BY DEF GateInv
<1> QED
  BY <1>1, <1>2, GateOfNext, PTL DEF Spec

-----------------------------------------------------------------------------
(* Who returns an escrow.  While nothing fails, a runner that leaves a job *)
(* to a cancel does so because the job file says that the cancel has come, *)
(* and a file that says so belongs to a refund made or under way.          *)

\* The refund of a job is made, or a cancel thread is about to make it.
Refunding(j) ==
  j \in refundIds \/ \E c \in Cancels : target[c] = j /\ pc[c] \in {"refund", "credit"}

\* Where a runner goes on to settle or to refund what it holds.
Carries == {"mark", "gate", "artifact", "precheck", "logcmd", "train", "log", "complete",
            "recheck", "spend", "ledger", "fail", "faillog", "refund", "credit"}

EscrowOwned ==
  faults = 0 => \A j \in held : j \in settles \/ Refunding(j) \/ pc[j] \in Carries

\* What the file and the runner's copy say of a refund is so, and a held quote is
\* settled, refunded or carried on.
Owed(j) ==
  /\ CancelledOrRefunded(file[j]) \/ CancelledOrRefunded(mine[j]) => Refunding(j)
  /\ j \in held => j \in settles \/ Refunding(j) \/ pc[j] \in Carries

EscrowInv ==
  TypeOK /\ CopyBacked /\ ReceiptBacked /\ (faults = 0 => \A j \in Jobs : Owed(j))

\* Steps that are not a failure.
Orderly ==
  \/ \E f \in Funds : Activate(f)
  \/ \E j \in Jobs : CreateJob(j) \/ RunnerStep(j)
  \/ \E c \in Cancels : CancelLoad(c) \/ CancelStep(c)
  \/ \E k \in Calls : Preflight(k) \/ EndCall(k)
  \/ UNCHANGED vars

\* No failure yet, so none before.
LEMMA NoFaults ==
  ASSUME TypeOK, [Next]_vars, faults' = 0
  PROVE  faults = 0 /\ Orderly
<1>1. ~Crash /\ ~(\E t \in Threads : ThreadFault(t)) /\ ~\E k \in Calls : CallFault(k)
  <2>1. faults + 1 # 0
    BY PayAssumption DEF TypeOK
  <2> QED
    BY <2>1 DEF Crash, ThreadFault, CallFault
<1>2. Orderly
  BY <1>1 DEF Next, Orderly
<1>3. faults' = faults
  BY <1>2 DEF Orderly, Activate, CreateJob, RunnerStep, Hold, MarkRunning, Gate, ReleaseGate,
     SaveArtifact, Precheck, LogCommand, Trained, LogOutput, Settle, Recheck, RecordSpend,
     LedgerSettle, SaveCompleted, FailCheck, FailLog, RefundStep, RefundCheck, Credit,
     SaveMarker, SaveFailed, CancelLoad, CancelStep, CancelFlag, Preflight, EndCall,
     SaveStep, Local, CallRest, Rest, vars
<1> QED
  BY <1>2, <1>3

\* A step of a runner moves no other thread and no other job's file.
LEMMA RunnerAlone ==
  ASSUME TypeOK, NEW j \in Jobs, CreateJob(j) \/ RunnerStep(j)
  PROVE  /\ target' = target
         /\ \A t \in Threads \ {j} : pc'[t] = pc[t] /\ mine'[t] = mine[t]
         /\ \A k \in Jobs \ {j} : file'[k] = file[k] /\ (k \in held' => k \in held)
<1>0. j \in Threads /\ JobOf(j) = j
  BY DEF Threads, JobOf
<1>1. target' = target
  BY DEF CreateJob, RunnerStep, Hold, MarkRunning, Gate, ReleaseGate,
     SaveArtifact, Precheck, LogCommand, Trained, LogOutput, Settle, Recheck, RecordSpend,
     LedgerSettle, SaveCompleted, FailCheck, FailLog, RefundStep, RefundCheck, Credit,
     SaveMarker, SaveFailed, SaveStep, Local, Rest
<1>2. \E label : Goto(j, label)
  BY DEF CreateJob, RunnerStep, Hold, MarkRunning, Gate, ReleaseGate,
     SaveArtifact, Precheck, LogCommand, Trained, LogOutput, Settle, Recheck, RecordSpend,
     LedgerSettle, SaveCompleted, FailCheck, FailLog, RefundStep, RefundCheck, Credit,
     SaveMarker, SaveFailed, SaveStep, Local
<1>3. file' = file \/ \E rec : file' = [file EXCEPT ![j] = rec]
  BY <1>0 DEF CreateJob, RunnerStep, Hold, MarkRunning, Gate, ReleaseGate,
     SaveArtifact, Precheck, LogCommand, Trained, LogOutput, Settle, Recheck, RecordSpend,
     LedgerSettle, SaveCompleted, FailCheck, FailLog, RefundStep, RefundCheck, Credit,
     SaveMarker, SaveFailed, SaveStep, Save, Local
<1>4. mine' = mine \/ \E rec : mine' = [mine EXCEPT ![j] = rec]
  <2>1. CASE Gate(j)
    BY <2>1 DEF Gate
  <2>2. CASE RefundCheck(j)
    BY <2>2 DEF RefundCheck
  <2>3. CASE ~Gate(j) /\ ~RefundCheck(j)
    BY <2>3 DEF CreateJob, RunnerStep, Hold, MarkRunning, ReleaseGate,
     SaveArtifact, Precheck, LogCommand, Trained, LogOutput, Settle, Recheck, RecordSpend,
     LedgerSettle, SaveCompleted, FailCheck, FailLog, RefundStep, Credit,
     SaveMarker, SaveFailed, SaveStep, Save, Local, Rest
  <2> QED
    BY <2>1, <2>2, <2>3
<1>5. held' \subseteq held \union {j}
  BY DEF CreateJob, RunnerStep, Hold, EscrowHold, MarkRunning, Gate, ReleaseGate,
     SaveArtifact, Precheck, LogCommand, Trained, LogOutput, Settle, Recheck, RecordSpend,
     LedgerSettle, SaveCompleted, FailCheck, FailLog, RefundStep, RefundCheck, Credit,
     SaveMarker, SaveFailed, SaveStep, Local, ledger
<1> QED
  BY <1>0, <1>1, <1>2, <1>3, <1>4, <1>5 DEF Goto, TypeOK

\* A refund under way goes on until it is made.
LEMMA RefundingStays ==
  ASSUME TypeOK, ReceiptBacked, [Next]_vars, Orderly, NEW k \in Jobs, Refunding(k)
  PROVE  Refunding(k)'
<1>1. refundIds \subseteq refundIds'
  BY Grows
<1>2. ASSUME NEW c \in Cancels, target[c] = k, pc[c] \in {"refund", "credit"}
      PROVE  k \in refundIds' \/ (target'[c] = k /\ pc'[c] \in {"refund", "credit"})
  <2>0. c \in Threads /\ c \notin Jobs /\ JobOf(c) = k
    BY <1>2, PayAssumption DEF Threads, JobOf
  <2>1. ASSUME NEW j \in Jobs, CreateJob(j) \/ RunnerStep(j)
        PROVE  target'[c] = target[c] /\ pc'[c] = pc[c]
    BY <2>0, <2>1, RunnerAlone
  <2>2. ASSUME NEW d \in Cancels, d # c, CancelLoad(d) \/ CancelStep(d)
        PROVE  target'[c] = target[c] /\ pc'[c] = pc[c]
    <3>1. target' = target /\ \E label : Goto(d, label)
      BY <2>2 DEF CancelLoad, CancelStep, CancelFlag, RefundStep, RefundCheck, Credit,
         SaveMarker, SaveStep, Rest
    <3> QED
      BY <2>0, <2>2, <3>1 DEF Goto, TypeOK
  <2>3. ~CancelLoad(c) /\ ~CancelFlag(c) /\ ~SaveMarker(c)
    BY <1>2 DEF CancelLoad, CancelFlag, SaveMarker, SaveStep
  <2>4. CASE RefundCheck(c)
    <3>1. Refunded(file[k]) => k \in refundIds
      BY DEF ReceiptBacked, Refunded
    <3>2. target' = target /\ (~Refunded(file[k]) => Goto(c, "credit"))
      BY <2>0, <2>4 DEF RefundCheck, Rest
    <3> QED
      BY <1>1, <1>2, <2>0, <3>1, <3>2 DEF Goto, TypeOK
  <2>5. CASE Credit(c)
    BY <2>0, <2>5 DEF Credit, EscrowRefund, session
  <2>6. CASE \/ \E f \in Funds : Activate(f)
             \/ \E i \in Calls : Preflight(i) \/ EndCall(i)
             \/ UNCHANGED vars
    BY <1>2, <2>6 DEF Activate, Preflight, EndCall, CallRest, vars
  <2> QED
    BY <1>2, <2>1, <2>2, <2>3, <2>4, <2>5, <2>6 DEF Orderly, CancelStep, RefundStep
<1> QED
  BY <1>1, <1>2 DEF Refunding

\* A job whose file, copy and place stay is owed what it was.
LEMMA OwedKept ==
  ASSUME EscrowInv, faults = 0, NEW k \in Jobs, file'[k] = file[k], mine'[k] = mine[k],
         k \in held' => k \in held, pc'[k] = pc[k], settles \subseteq settles',
         Refunding(k) => Refunding(k)'
  PROVE  Owed(k)'
BY DEF EscrowInv, Owed, CancelledOrRefunded, Refunded

\* A step of the runner itself: what it saves or takes over tells of a refund only
\* if the file or its copy did or the refund is made, and it leaves what it carries
\* only for that reason, or when it has settled.
LEMMA OwedMove ==
  ASSUME EscrowInv, faults = 0, NEW j \in Jobs, NEW label, Goto(j, label),
         settles \subseteq settles', refundIds \subseteq refundIds',
         Refunding(j) => Refunding(j)',
         \/ CancelledOrRefunded(file[j]) \/ CancelledOrRefunded(mine[j]) \/ j \in refundIds
         \/ ~CancelledOrRefunded(file'[j]) /\ ~CancelledOrRefunded(mine'[j]),
         \/ label \in Carries
         \/ pc[j] \notin Carries /\ (j \in held' => j \in held)
         \/ CancelledOrRefunded(file[j]) \/ j \in settles' \/ j \in refundIds'
  PROVE  Owed(j)'
<1>1. pc'[j] = label
  BY DEF Goto, EscrowInv, TypeOK, Threads
<1>2. /\ CancelledOrRefunded(file[j]) \/ CancelledOrRefunded(mine[j]) => Refunding(j)
      /\ j \in held => j \in settles \/ Refunding(j) \/ pc[j] \in Carries
  BY DEF EscrowInv, Owed
<1>3. j \in refundIds => Refunding(j)
  BY DEF Refunding
<1>4. j \in refundIds' => Refunding(j)'
  BY DEF Refunding
<1>5. CancelledOrRefunded(file[j])' \/ CancelledOrRefunded(mine[j])' => Refunding(j)'
  BY <1>2, <1>3 DEF CancelledOrRefunded, Refunded
<1>6. j \in held' => j \in settles' \/ Refunding(j)' \/ pc'[j] \in Carries
  BY <1>1, <1>2, <1>4
<1> QED
  BY <1>5, <1>6 DEF Owed

\* A runner that leaves its escrow leaves it to a refund.
LEMMA OwedOfRunner ==
  ASSUME EscrowInv, faults = 0, [Next]_vars, Orderly, NEW j \in Jobs,
         CreateJob(j) \/ RunnerStep(j)
  PROVE  Owed(j)'
<1>0. /\ j \in Threads /\ JobOf(j) = j
      /\ settles \subseteq settles' /\ refundIds \subseteq refundIds'
      /\ Refunding(j) => Refunding(j)'
  BY Grows, RefundingStays DEF Threads, JobOf, EscrowInv
<1>r. mine[j] \in Record /\ file[j] \in Record
  BY <1>0 DEF EscrowInv, TypeOK
<1>1. ASSUME NEW from, NEW rec, NEW label, SaveStep(j, from, rec, label),
             ~CancelledOrRefunded(rec) \/ CancelledOrRefunded(mine[j]) \/ j \in refundIds,
             label \in Carries \/ from \notin Carries
      PROVE  Owed(j)'
  <2>1. /\ file'[j] = rec /\ mine'[j] = rec /\ held' = held /\ pc[j] = from /\ Goto(j, label)
    BY <1>0, <1>1 DEF SaveStep, Save, ledger, EscrowInv, TypeOK
  <2> QED
    BY <1>0, <1>1, <2>1, OwedMove
<1>2. ASSUME NEW label, Local(j, label),
             label \in Carries \/ pc[j] \notin Carries \/ CancelledOrRefunded(file[j])
      PROVE  Owed(j)'
  <2>1. UNCHANGED <<file, mine, held>> /\ Goto(j, label)
    BY <1>2 DEF Local, ledger
  <2> QED
    BY <1>0, <1>2, <2>1, OwedMove
<1>3. ASSUME NEW s \in {"running", "failed"}, NEW rec,
             rec = [mine[j] EXCEPT !.status = s]
      PROVE  CancelledOrRefunded(rec) => CancelledOrRefunded(mine[j])
  BY <1>r, <1>3 DEF CancelledOrRefunded, Refunded, Record
<1>4. CASE CreateJob(j)
  <2>1. ~CancelledOrRefunded([status |-> "pending", settlement |-> "none"])
    BY DEF CancelledOrRefunded, Refunded
  <2> QED
    BY <1>1, <1>4, <2>1 DEF CreateJob, Carries
<1>5. CASE Hold(j)
  <2>1. UNCHANGED <<file, mine>> /\ pc[j] = "hold"
    BY <1>5 DEF Hold, Rest
  <2>2. Goto(j, "mark") \/ (Goto(j, "end") /\ held' = held)
    BY <1>5 DEF Hold
  <2> QED
    BY <1>0, <2>1, <2>2, OwedMove DEF Carries
<1>6. CASE MarkRunning(j)
  BY <1>1, <1>3, <1>6 DEF MarkRunning, Carries
<1>7. CASE Gate(j)
  <2>1. UNCHANGED <<file, held>> /\ (Goto(j, "refund") \/ Goto(j, "artifact"))
    BY <1>7 DEF Gate, ledger
  <2>2. mine' = mine \/ mine' = [mine EXCEPT ![j] = [mine[j] EXCEPT !.status = "failed"]]
    BY <1>7 DEF Gate
  <2>3. CancelledOrRefunded(mine'[j]) => CancelledOrRefunded(mine[j])
    BY <1>0, <1>3, <2>2 DEF EscrowInv, TypeOK
  <2> QED
    BY <1>0, <2>1, <2>3, OwedMove DEF Carries
<1>8. CASE ReleaseGate(j)
  <2>1. UNCHANGED <<file, mine, held>> /\ Goto(j, "end") /\ pc[j] = "finally"
    BY <1>8 DEF ReleaseGate, ledger
  <2> QED
    BY <1>0, <2>1, OwedMove DEF Carries
<1>9. CASE SaveArtifact(j) \/ LogCommand(j)
  BY <1>1, <1>9 DEF SaveArtifact, LogCommand, Carries
<1>10. CASE Precheck(j) \/ Settle(j) \/ Recheck(j) \/ FailCheck(j)
  BY <1>2, <1>10 DEF Precheck, Settle, Recheck, FailCheck, Carries
<1>11. CASE Trained(j)
  <2>1. CASE Local(j, "fail") \/ Local(j, "log")
    BY <1>2, <2>1 DEF Carries
  <2>2. CASE /\ CancelledOrRefunded(file[j]) /\ Goto(j, "latelog")
             /\ UNCHANGED <<file, held>>
    BY <1>0, <2>2, OwedMove
  <2> QED
    BY <1>11, <2>1, <2>2 DEF Trained, ledger
<1>12. CASE LogOutput(j)
  BY <1>1, <1>2, <1>12 DEF LogOutput, Carries
<1>13. CASE RecordSpend(j)
  <2>1. UNCHANGED <<file, mine, held>> /\ Goto(j, "ledger")
    BY <1>13 DEF RecordSpend, ledger
  <2> QED
    BY <1>0, <2>1, OwedMove DEF Carries
<1>14. CASE LedgerSettle(j)
  <2>1. UNCHANGED <<file, mine, held>> /\ Goto(j, "settled") /\ j \in settles'
    BY <1>14 DEF LedgerSettle
  <2> QED
    BY <1>0, <2>1, OwedMove
<1>15. CASE SaveCompleted(j)
  <2>1. ~CancelledOrRefunded(Completed)
    BY DEF Completed, CancelledOrRefunded, Refunded
  <2> QED
    BY <1>1, <1>15, <2>1 DEF SaveCompleted, Carries
<1>16. CASE FailLog(j)
  BY <1>1, <1>3, <1>16 DEF FailLog, Carries
<1>17. CASE SaveFailed(j)
  <2>1. /\ file'[j] = mine[j] /\ mine'[j] = mine[j] /\ held' = held /\ pc[j] = "failed"
        /\ \E label : Goto(j, label)
    BY <1>0, <1>17 DEF SaveFailed, Save, ledger, EscrowInv, TypeOK
  <2> QED
    BY <1>0, <2>1, OwedMove DEF Carries
<1>18. CASE RefundCheck(j)
  <2>1. UNCHANGED <<file, held>>
    BY <1>18 DEF RefundCheck, ledger
  <2>2. CASE Refunded(file[j])
    <3>1. j \in refundIds /\ \E label : Goto(j, label)
      BY <1>0, <1>18, <2>2 DEF RefundCheck, Refunded, EscrowInv, ReceiptBacked
    <3> QED
      BY <1>0, <3>1, OwedMove
  <2>3. CASE ~Refunded(file[j])
    <3>1. Goto(j, "credit") /\ mine' = mine
      BY <1>0, <1>18, <2>3 DEF RefundCheck
    <3> QED
      BY <1>0, <2>1, <3>1, OwedMove DEF Carries
  <2> QED
    BY <2>2, <2>3
<1>19. CASE Credit(j)
  <2>1. UNCHANGED <<file, mine, held>> /\ Goto(j, "marker") /\ j \in refundIds'
    BY <1>0, <1>19 DEF Credit, EscrowRefund, ledger, session
  <2> QED
    BY <1>0, <2>1, OwedMove
<1>20. CASE SaveMarker(j)
  <2>1. j \in refundIds
    BY <1>0, <1>20 DEF SaveMarker, SaveStep, EscrowInv, CopyBacked
  <2> QED
    BY <1>1, <1>20, <2>1 DEF SaveMarker, Carries
<1> QED
  BY <1>4, <1>5, <1>6, <1>7, <1>8, <1>9, <1>10, <1>11, <1>12, <1>13, <1>14, <1>15, <1>16,
     <1>17, <1>18, <1>19, <1>20 DEF RunnerStep, RefundStep

\* A cancel thread writes the flag when it is about to refund, and the marker when
\* it has.
LEMMA OwedOfCancel ==
  ASSUME EscrowInv, faults = 0, [Next]_vars, Orderly, NEW c \in Cancels,
         CancelLoad(c) \/ CancelStep(c), NEW k \in Jobs
  PROVE  Owed(k)'
<1>0. /\ c \in Threads /\ c \notin Jobs /\ JobOf(c) = target[c] /\ k \in Threads
      /\ settles \subseteq settles' /\ refundIds \subseteq refundIds'
      /\ Refunding(k) => Refunding(k)'
  BY Grows, RefundingStays, PayAssumption DEF Threads, JobOf, EscrowInv
<1>1. /\ held' = held /\ target' = target
      /\ \E label : Goto(c, label)
      /\ mine' = mine \/ \E rec : mine' = [mine EXCEPT ![c] = rec]
  <2>1. CASE RefundCheck(c)
    BY <2>1 DEF RefundCheck, ledger, Rest
  <2>2. CASE ~RefundCheck(c)
    BY <2>2 DEF CancelLoad, CancelStep, CancelFlag, RefundStep, Credit, SaveMarker, SaveStep,
                Save, ledger, Rest
  <2> QED
    BY <2>1, <2>2
<1>2. mine'[k] = mine[k] /\ pc'[k] = pc[k]
  BY <1>0, <1>1 DEF Goto, EscrowInv, TypeOK
<1>3. CASE file'[k] = file[k]
  BY <1>0, <1>1, <1>2, <1>3, OwedKept
<1>4. CASE file'[k] # file[k]
  <2>1. (CancelFlag(c) \/ SaveMarker(c)) /\ target[c] = k
    BY <1>0, <1>4 DEF CancelLoad, CancelStep, CancelFlag, RefundStep, RefundCheck, Credit,
                      SaveMarker, SaveStep, Save, EscrowInv, TypeOK
  <2>2. Refunding(k)'
    <3>1. CASE CancelFlag(c)
      BY <1>0, <1>1, <2>1, <3>1 DEF CancelFlag, SaveStep, Goto, Refunding, EscrowInv, TypeOK
    <3>2. CASE SaveMarker(c)
      <4>1. k \in refundIds
        BY <1>0, <2>1, <3>2 DEF SaveMarker, SaveStep, EscrowInv, CopyBacked
      <4> QED
        BY <1>0, <4>1 DEF Refunding
    <3> QED
      BY <2>1, <3>1, <3>2
  <2> QED
    BY <2>2 DEF Owed
<1> QED
  BY <1>3, <1>4

\* Every step keeps every escrow with an owner.
LEMMA EscrowOfNext == EscrowInv /\ [Next]_vars => EscrowInv'
<1> SUFFICES ASSUME EscrowInv, [Next]_vars PROVE EscrowInv'
  OBVIOUS
<1>1. TypeOK' /\ CopyBacked' /\ ReceiptBacked'
  BY TypeOfNext, ReceiptOfNext DEF EscrowInv, ReceiptInv
<1>2. ASSUME faults' = 0, NEW k \in Jobs PROVE Owed(k)'
  <2>1. faults = 0 /\ Orderly
    BY <1>2, NoFaults DEF EscrowInv
  <2>2. settles \subseteq settles' /\ (Refunding(k) => Refunding(k)') /\ k \in Threads
    BY <2>1, Grows, RefundingStays DEF EscrowInv, Threads
  <2>3. ASSUME NEW j \in Jobs, CreateJob(j) \/ RunnerStep(j) PROVE Owed(k)'
    <3>1. CASE k = j
      BY <2>1, <2>3, <3>1, OwedOfRunner
    <3>2. CASE k # j
      <4>1. /\ pc'[k] = pc[k] /\ mine'[k] = mine[k] /\ file'[k] = file[k]
            /\ k \in held' => k \in held
        BY <2>2, <2>3, <3>2, RunnerAlone DEF EscrowInv
      <4> QED
        BY <2>1, <2>2, <4>1, OwedKept
    <3> QED
      BY <3>1, <3>2
  <2>4. CASE \/ \E f \in Funds : Activate(f)
             \/ \E i \in Calls : Preflight(i) \/ EndCall(i)
             \/ UNCHANGED vars
    <3>1. UNCHANGED <<file, mine, pc, held>>
      BY <2>4 DEF Activate, Preflight, EndCall, CallRest, ledger, vars
    <3> QED
      BY <2>1, <2>2, <3>1, OwedKept
  <2> QED
    BY <2>1, <2>3, <2>4, OwedOfCancel DEF Orderly
<1> QED
  BY <1>1, <1>2 DEF EscrowInv

\* While nothing fails, no escrow is forgotten (EscrowResolved could not hold
\* otherwise): it is settled or refunded, or its runner is on the way to do so, or
\* a cancel thread is, to which the runner has left it.
THEOREM EscrowIsOwned == Spec => []EscrowOwned
<1>1. Init => EscrowInv
  <2> SUFFICES ASSUME Init PROVE EscrowInv
    OBVIOUS
  <2>1. CopyBacked /\ ReceiptBacked
    BY DEF Init, CopyBacked, ReceiptBacked, NoFile, Threads
  <2>2. \A j \in Jobs : Owed(j)
    BY DEF Init, Owed, NoFile, CancelledOrRefunded, Refunded, Threads
  <2> QED
    BY <2>1, <2>2, InitTypeOK DEF EscrowInv
<1>2. EscrowInv => EscrowOwned
  BY DEF EscrowInv, EscrowOwned, Owed, TypeOK
<1> QED
  BY <1>1, <1>2, EscrowOfNext, PTL DEF Spec

=============================================================================
