------------------------------ MODULE PayFunding ------------------------------
(***************************************************************************)
(* Paying into a marketplace session: a challenge is minted and completed  *)
(* by L402 or x402 (seiso/pay/l402.py, x402.py, which have the same shape),*)
(* which credits the session (seiso/pay/store.py) and marks the challenge  *)
(* settled, while others debit the session.  Session and challenge are     *)
(* files of their own; the locks belong to one process, and the command    *)
(* line (seiso_cli/commands/pay.py) is another process than the server.    *)
(* An action is one access to a file, or a crash.  PayEscrow takes all of  *)
(* complete_fund as its one step Activate.                                 *)
(***************************************************************************)
EXTENDS Naturals, FiniteSets

CONSTANTS
  Procs,       \* the server, and runs of the command line
  Payers,      \* threads that complete challenges: the server's event loop, and
  Tools,       \* those of them that are runs of "pay fund"
  Spenders,    \* threads that debit the session
  ProcOf,      \* the process of a thread
  Challenges,
  Posted,      \* those of them that a client of the server asked for
  Amount,      \* sats of a challenge
  Cost,        \* sats of a debit
  MaxCrashes,  \* bound: deaths of a process
  MaxDebits    \* bound: debits of a thread

Threads == Payers \union Spenders

ASSUME ConstantsAssumption ==
  /\ IsFiniteSet(Challenges) /\ Posted \subseteq Challenges
  /\ Tools \subseteq Payers
  /\ ProcOf \in [Threads -> Procs]
  /\ Payers \intersect Spenders = {}
  /\ Amount \in Nat \ {0} /\ Cost \in Nat \ {0}
  /\ MaxCrashes \in Nat /\ MaxDebits \in Nat

Nobody == "nobody"
ASSUME NobodyAssumption == Nobody \notin Threads

VARIABLES
  session,     \* sessions/<id>.json: balance, spent sats and fund ids
  torn,        \* a crash in write_text has emptied that file
  chal,        \* l402/<id>.json or x402/<id>.json: its status, or torn as well
  expired,     \* challenges past expires_at
  rail,        \* owner of the rail's _lock, per process
  store,       \* owner of store._lock, per process
  pc,          \* where a thread is
  copy,        \* the session as a thread has read it
  pays,        \* the challenge a payer completes
  debits,      \* debits of a spender that are done
  overlapped,  \* two processes were between their read and write at once
  crashes

locks    == <<rail, store>>
calls    == <<pc, copy, pays, debits>>
vars == <<session, torn, chal, expired, locks, calls, overlapped, crashes>>

NewSession == [balance |-> 0, spent |-> 0, fundIds |-> {}]

Init ==
  /\ session = NewSession
  /\ torn    = FALSE
  /\ chal    = [c \in Challenges |-> "none"]
  /\ expired = {}
  /\ rail    = [p \in Procs |-> Nobody]
  /\ store   = [p \in Procs |-> Nobody]
  /\ pc      = [t \in Threads |-> "idle"]
  /\ copy    = [t \in Threads |-> NewSession]
  /\ pays    = [t \in Payers |-> {}]
  /\ debits  = [t \in Spenders |-> 0]
  /\ overlapped = FALSE
  /\ crashes = 0

Goto(t, where) == pc' = [pc EXCEPT ![t] = where]

-----------------------------------------------------------------------------
(* Challenges.                                                             *)

\* mint_fund_challenge, for a client of the server.
Mint(c) ==
  /\ c \in Posted
  /\ chal[c] = "none"
  /\ chal' = [chal EXCEPT ![c] = "pending"]
  /\ UNCHANGED <<session, torn, expired, locks, calls, overlapped, crashes>>

\* "pay fund" mints a challenge and completes it in the same run.
Fund(t, c) ==
  /\ t \in Tools /\ c \notin Posted
  /\ pc[t] = "idle"
  /\ chal[c] = "none"
  /\ chal' = [chal EXCEPT ![c] = "pending"]
  /\ pays' = [pays EXCEPT ![t] = {c}]
  /\ Goto(t, "enter")
  /\ UNCHANGED <<session, torn, expired, locks, copy, debits, overlapped, crashes>>

Expire(c) ==
  /\ chal[c] # "none"
  /\ expired' = expired \union {c}
  /\ UNCHANGED <<session, torn, chal, locks, calls, overlapped, crashes>>

-----------------------------------------------------------------------------
(* complete_fund.                                                          *)

\* A client completes a challenge, for the first time or once more.
Complete(t, c) ==
  /\ t \notin Tools /\ c \in Posted
  /\ pc[t] = "idle"
  /\ chal[c] # "none"
  /\ pays' = [pays EXCEPT ![t] = {c}]
  /\ Goto(t, "enter")
  /\ UNCHANGED <<session, torn, chal, expired, locks, copy, debits, overlapped, crashes>>

\* Under the rail's lock: a settled or expired challenge is refused.
LoadChallenge(t) ==
  /\ pc[t] = "enter"
  /\ rail[ProcOf[t]] = Nobody
  /\ IF \E c \in pays[t] : chal[c] = "pending" /\ c \notin expired
     THEN /\ rail' = [rail EXCEPT ![ProcOf[t]] = t]
          /\ Goto(t, "credit")
          /\ UNCHANGED pays
     ELSE /\ Goto(t, "idle")
          /\ pays' = [pays EXCEPT ![t] = {}]
          /\ UNCHANGED rail
  /\ UNCHANGED <<session, torn, chal, expired, store, copy, debits, overlapped, crashes>>

\* Mutant: the challenge is settled before the session is credited.
SettleChallengeEarly(t) ==
  /\ pc[t] = "credit"
  /\ chal' = [c \in Challenges |-> IF c \in pays[t] THEN "settled" ELSE chal[c]]
  /\ UNCHANGED <<session, torn, expired, locks, calls, overlapped, crashes>>

\* The challenge is settled once the session has its credit.
SettleChallenge(t) ==
  /\ pc[t] = "settle"
  /\ chal' = [c \in Challenges |-> IF c \in pays[t] THEN "settled" ELSE chal[c]]
  /\ rail' = [rail EXCEPT ![ProcOf[t]] = Nobody]
  /\ pays' = [pays EXCEPT ![t] = {}]
  /\ Goto(t, "idle")
  /\ UNCHANGED <<session, torn, expired, store, copy, debits, overlapped, crashes>>

-----------------------------------------------------------------------------
(* activate_session and debit_session.                                     *)

Writing == {"write", "writeDebit"}

\* Processes whose threads have read the session and not yet written it.
InWindow == {ProcOf[u] : u \in {v \in Threads : pc[v] \in Writing}}

\* Mutant: the session is read without store._lock.
TakeCopyUnlocked(t, where) ==
  /\ ~torn
  /\ store' = [store EXCEPT ![ProcOf[t]] = t]
  /\ copy' = [copy EXCEPT ![t] = session]
  /\ overlapped' = (overlapped \/ InWindow \ {ProcOf[t]} # {})
  /\ Goto(t, where)

\* The thread's copy of the session, read under its process's store._lock.
TakeCopy(t, where) ==
  /\ store[ProcOf[t]] = Nobody
  /\ ~torn
  /\ store' = [store EXCEPT ![ProcOf[t]] = t]
  /\ copy' = [copy EXCEPT ![t] = session]
  /\ overlapped' = (overlapped \/ InWindow \ {ProcOf[t]} # {})
  /\ Goto(t, where)

\* "if fund_id and fund_id in fund_ids: return record".
AlreadyCredited(t) == pays[t] \subseteq session.fundIds

ReadToCredit(t) ==
  /\ pc[t] = "credit"
  /\ IF AlreadyCredited(t)
     THEN /\ store[ProcOf[t]] = Nobody
          /\ ~torn
          /\ Goto(t, "settle")
          /\ UNCHANGED <<store, copy, overlapped>>
     ELSE TakeCopy(t, "write")
  /\ UNCHANGED <<session, torn, chal, expired, rail, pays, debits, crashes>>

\* _save_session of the copy, changed to rec.
SaveSession(t, rec, where) ==
  /\ session' = rec
  /\ copy' = [copy EXCEPT ![t] = NewSession]
  /\ torn' = FALSE
  /\ store' = [store EXCEPT ![ProcOf[t]] = Nobody]
  /\ Goto(t, where)

\* Mutant: the fund id is not saved with the balance.
CreditWithoutId(t) ==
  /\ pc[t] = "write"
  /\ SaveSession(t, [copy[t] EXCEPT !.balance = @ + Amount], "settle")
  /\ UNCHANGED <<chal, expired, rail, pays, debits, overlapped, crashes>>

\* Balance and fund id are saved together.
Credit(t) ==
  /\ pc[t] = "write"
  /\ SaveSession(t, [balance |-> copy[t].balance + Amount, spent |-> copy[t].spent,
                     fundIds |-> copy[t].fundIds \union pays[t]], "settle")
  /\ UNCHANGED <<chal, expired, rail, pays, debits, overlapped, crashes>>

\* Mutant: the balance is not compared.
ReadToDebitUnchecked(t) ==
  /\ pc[t] = "idle"
  /\ debits[t] < MaxDebits
  /\ TakeCopy(t, "writeDebit")
  /\ UNCHANGED <<session, torn, chal, expired, rail, pays, debits, crashes>>

\* debit_session: refused when the balance is too small.
ReadToDebit(t) ==
  /\ pc[t] = "idle"
  /\ debits[t] < MaxDebits
  /\ session.balance >= Cost
  /\ TakeCopy(t, "writeDebit")
  /\ UNCHANGED <<session, torn, chal, expired, rail, pays, debits, crashes>>

Debit(t) ==
  /\ pc[t] = "writeDebit"
  /\ SaveSession(t, [balance |-> copy[t].balance - Cost, spent |-> copy[t].spent + Cost,
                     fundIds |-> copy[t].fundIds], "idle")
  /\ debits' = [debits EXCEPT ![t] = @ + 1]
  /\ UNCHANGED <<chal, expired, rail, pays, overlapped, crashes>>

\* Mutant: a read that raises keeps the rail's lock.
ReadRaisesKeepsRail(t) ==
  /\ pc[t] = "credit"
  /\ store[ProcOf[t]] = Nobody
  /\ torn \/ InWindow \ {ProcOf[t]} # {}
  /\ Goto(t, "idle")
  /\ UNCHANGED <<session, torn, chal, expired, locks, copy, pays, debits,
                 overlapped, crashes>>

\* The file is torn, or another process is just writing it: the read raises,
\* the locks are given back, and the client may try again.
ReadRaises(t) ==
  /\ pc[t] = "credit"
  /\ store[ProcOf[t]] = Nobody
  /\ torn \/ InWindow \ {ProcOf[t]} # {}
  /\ rail' = [rail EXCEPT ![ProcOf[t]] = Nobody]
  /\ pays' = [pays EXCEPT ![t] = {}]
  /\ Goto(t, "idle")
  /\ UNCHANGED <<session, torn, chal, expired, store, copy, debits, overlapped, crashes>>

-----------------------------------------------------------------------------

\* Challenges whose file a process is writing.
BeingSettled(p) ==
  UNION {pays[t] : t \in {u \in Payers : ProcOf[u] = p /\ pc[u] = "settle"}}

\* write_text has opened, and so emptied, the session's file and not written it:
\* its balance and all its fund ids are gone.
EmptySession(p) ==
  /\ p \in InWindow
  /\ session' = NewSession
  /\ torn' = TRUE

\* A process dies, perhaps in the middle of a write_text.
Crash(p) ==
  /\ crashes < MaxCrashes
  /\ crashes' = crashes + 1
  /\ EmptySession(p) \/ UNCHANGED <<session, torn>>
  /\ chal' \in {chal, [c \in Challenges |-> IF c \in BeingSettled(p) THEN "torn" ELSE chal[c]]}
  /\ rail'  = [rail  EXCEPT ![p] = Nobody]
  /\ store' = [store EXCEPT ![p] = Nobody]
  /\ pc' = [t \in Threads |-> IF ProcOf[t] = p THEN "idle" ELSE pc[t]]
  /\ copy' = [t \in Threads |-> IF ProcOf[t] = p THEN NewSession ELSE copy[t]]
  /\ pays' = [t \in Payers |-> IF ProcOf[t] = p THEN {} ELSE pays[t]]
  /\ UNCHANGED <<expired, debits, overlapped>>

PayerStep(t) ==
  \/ LoadChallenge(t) \/ ReadToCredit(t) \/ ReadRaises(t) \/ Credit(t)
  \/ SettleChallenge(t)

Next ==
  \/ \E c \in Challenges : Mint(c) \/ Expire(c)
  \/ \E t \in Payers, c \in Challenges : Fund(t, c) \/ Complete(t, c)
  \/ \E t \in Payers : PayerStep(t)
  \/ \E t \in Spenders : ReadToDebit(t) \/ Debit(t)
  \/ \E p \in Procs : Crash(p)

\* Threads run, and a client that has paid completes its challenge until it is
\* answered.
Fairness ==
  /\ \A t \in Payers : SF_vars(PayerStep(t))
  /\ \A t \in Spenders : WF_vars(Debit(t))
  /\ \A c \in Challenges : SF_vars(chal[c] = "pending" /\ \E t \in Payers : Complete(t, c))

Spec     == Init /\ [][Next]_vars
FairSpec == Spec /\ Fairness

-----------------------------------------------------------------------------
(* Properties.                                                             *)

Session == [balance : Nat, spent : Nat, fundIds : SUBSET Challenges]

\* Types of all variables: no balance goes below zero.
TypeOK ==
  /\ session \in Session
  /\ torn \in BOOLEAN
  /\ chal \in [Challenges -> {"none", "pending", "settled", "torn"}]
  /\ expired \subseteq Challenges
  /\ rail \in [Procs -> Threads \union {Nobody}]
  /\ store \in [Procs -> Threads \union {Nobody}]
  /\ pc \in [Threads -> {"idle", "enter", "credit", "settle"} \union Writing]
  /\ copy \in [Threads -> Session]
  /\ pays \in [Payers -> SUBSET Challenges]
  /\ debits \in [Spenders -> 0 .. MaxDebits]
  /\ overlapped \in BOOLEAN
  /\ crashes \in 0 .. MaxCrashes

\* The session adds up: every challenge it names is credited once, whatever
\* crashes, is retried, or is written by two processes at the same time.
SessionAdds == session.balance + session.spent = Amount * Cardinality(session.fundIds)

\* A challenge that is settled, or was just being settled, has its credit in the
\* session: no order of crash and retry takes a payment without crediting it.
\* With two exceptions, in which the code does lose credits: two processes write
\* the session at the same time, or a crash has emptied its file.
SettledIsCredited ==
  ~overlapped /\ ~torn =>
    \A c \in Challenges : chal[c] \in {"settled", "torn"} => c \in session.fundIds

\* A credit stays, and a debit is never undone by another thread's save.  The
\* only step that loses them is the one that empties the file; the exception for
\* two processes is as above.
NothingLost ==
  [][~overlapped' => \/ /\ session.fundIds \subseteq session'.fundIds
                        /\ session.spent <= session'.spent
                     \/ ~torn /\ torn']_vars

\* A payment that its client keeps completing is settled, unless the challenge
\* expires or a crash has torn one of the files: no lock stays behind.
PaymentsSettle ==
  \A c \in Posted :
    (chal[c] = "pending") ~> (chal[c] \in {"settled", "torn"} \/ c \in expired \/ torn)

=============================================================================
