-------------------------- MODULE PayFunding_proofs ---------------------------
(***************************************************************************)
(* Theorems about PayFunding for any processes, threads and challenges.    *)
(*                                                                         *)
(* The inductive invariant says of a thread between its read and its write *)
(* that it owns its process's store._lock, that the session it has read    *)
(* adds up, and that its own payment is not in it; and, as long as no two  *)
(* processes were there at once, that what it has read is what the file    *)
(* still says.  A file that a crash has emptied has nobody left to write   *)
(* it, again unless two processes were there.                              *)
(***************************************************************************)
EXTENDS PayFunding, TLAPS, FiniteSetTheorems

Paying == {"enter", "credit", "write", "settle"}

Adds(s) == s.balance + s.spent = Amount * Cardinality(s.fundIds)

Places ==
  \A t \in Threads :
    /\ pc[t] \in Paying => t \in Payers /\ \E c \in Challenges : pays[t] = {c}
    /\ pc[t] = "writeDebit" => /\ t \in Spenders /\ copy[t].balance >= Cost
                               /\ debits[t] < MaxDebits

CopiesAdd ==
  \A t \in Threads :
    /\ pc[t] \in Writing => Adds(copy[t])
    /\ pc[t] = "write" => ~(pays[t] \subseteq copy[t].fundIds)

StoreKept == \A t \in Threads : pc[t] \in Writing => store[ProcOf[t]] = t

Alone ==
  ~overlapped => \A t, u \in Threads :
                   pc[t] \in Writing /\ pc[u] \in Writing => t = u

Fresh == ~overlapped => \A t \in Threads : pc[t] \in Writing => copy[t] = session

TornAlone == ~overlapped /\ torn => \A t \in Threads : pc[t] \notin Writing

Settling ==
  ~overlapped /\ ~torn => \A t \in Payers : pc[t] = "settle" => pays[t] \subseteq session.fundIds

IInv ==
  /\ TypeOK /\ Places /\ SessionAdds /\ CopiesAdd
  /\ StoreKept /\ Alone /\ Fresh /\ TornAlone /\ Settling /\ SettledIsCredited

-----------------------------------------------------------------------------
(* Sessions.                                                               *)

\* A new session is a session that adds up.
LEMMA NewAdds == NewSession \in Session /\ Adds(NewSession)
  <1>1. Cardinality({}) = 0
    BY FS_EmptySet
  <1> QED
    BY <1>1, ConstantsAssumption DEF NewSession, Session, Adds

\* A challenge that is not in a session and is added to it keeps its sum.
LEMMA CreditAdds ==
  ASSUME NEW s \in Session, Adds(s), NEW c \in Challenges, c \notin s.fundIds
  PROVE  LET n == [balance |-> s.balance + Amount, spent |-> s.spent,
                   fundIds |-> s.fundIds \union {c}]
         IN  n \in Session /\ Adds(n)
  <1>1. IsFiniteSet(s.fundIds) /\ s.fundIds \subseteq Challenges
    BY ConstantsAssumption, FS_Subset DEF Session
  <1>2. /\ Cardinality(s.fundIds \union {c}) = Cardinality(s.fundIds) + 1
        /\ Cardinality(s.fundIds) \in Nat
    BY <1>1, FS_AddElement, FS_CardinalityType
  <1>3. Amount * (Cardinality(s.fundIds) + 1) = Amount * Cardinality(s.fundIds) + Amount
    BY <1>2, ConstantsAssumption
  <1>4. s.balance \in Nat /\ s.spent \in Nat /\ Amount \in Nat
    BY ConstantsAssumption DEF Session
  <1>5. s.balance + s.spent = Amount * Cardinality(s.fundIds)
    BY DEF Adds
  <1>6. s.balance + Amount + s.spent = Amount * Cardinality(s.fundIds \union {c})
    <2> DEFINE k == Cardinality(s.fundIds)
               m == Amount * k
    <2>1. Amount * Cardinality(s.fundIds \union {c}) = m + Amount
      BY <1>2, <1>3
    <2>2. s.balance + s.spent = m
      BY <1>5
    <2> HIDE DEF m
    <2> QED
      BY <1>4, <2>1, <2>2
  <1>7. s.balance + Amount \in Nat
    BY <1>4
  <1> QED
    BY <1>1, <1>4, <1>6, <1>7 DEF Session, Adds

\* A debit that the balance covers keeps the sum.
LEMMA DebitAdds ==
  ASSUME NEW s \in Session, Adds(s), s.balance >= Cost
  PROVE  LET n == [balance |-> s.balance - Cost, spent |-> s.spent + Cost,
                   fundIds |-> s.fundIds]
         IN  n \in Session /\ Adds(n)
  <1>1. s.balance \in Nat /\ s.spent \in Nat /\ Cost \in Nat /\ s.fundIds \subseteq Challenges
    BY ConstantsAssumption DEF Session
  <1>2. s.balance - Cost \in Nat /\ s.spent + Cost \in Nat
    BY <1>1
  <1>3. s.balance - Cost + (s.spent + Cost) = s.balance + s.spent
    BY <1>1
  <1> QED
    BY <1>1, <1>2, <1>3 DEF Session, Adds

-----------------------------------------------------------------------------
(* The inductive invariant.                                                *)

\* Every session starts empty and nobody is paying.
LEMMA InitInv == Init => IInv
  <1> SUFFICES ASSUME Init PROVE IInv
    OBVIOUS
  <1>1. TypeOK
    <2>1. MaxDebits \in Nat /\ MaxCrashes \in Nat
      BY ConstantsAssumption
    <2>2. 0 \in 0 .. MaxDebits /\ 0 \in 0 .. MaxCrashes
      BY <2>1
    <2> QED
      BY <2>2, NewAdds DEF Init, TypeOK
  <1>2. SessionAdds
    BY NewAdds DEF Init, SessionAdds, Adds
  <1>3. \A t \in Threads : pc[t] = "idle"
    BY DEF Init
  <1> QED
    BY <1>1, <1>2, <1>3
    DEF Init, IInv, Places, Paying, CopiesAdd, StoreKept, Alone, Fresh, TornAlone, Settling,
        SettledIsCredited, Writing

\* Minting, expiring, completing and loading leave sessions and writers alone.
LEMMA ChallengeStep ==
  ASSUME IInv,
         \/ \E c \in Challenges : Mint(c) \/ Expire(c)
         \/ \E t \in Payers, c \in Challenges : Fund(t, c) \/ Complete(t, c)
         \/ \E t \in Payers : LoadChallenge(t) \/ ReadRaises(t)
  PROVE  IInv'
  <1> USE DEF IInv
  <1>1. UNCHANGED <<session, store, copy, overlapped, torn, debits, crashes>>
    BY DEF Mint, Expire, Fund, Complete, LoadChallenge, ReadRaises, locks, calls
  <1>2. \A t \in Threads : pc'[t] \in Writing \union {"settle"} <=> pc[t] \in Writing \union {"settle"}
    BY DEF Mint, Expire, Fund, Complete, LoadChallenge, ReadRaises, locks, calls,
           Goto, TypeOK, Writing, Threads
  <1>3. \A t \in Threads : pc'[t] \in Writing \union {"settle"} => pc'[t] = pc[t]
    BY DEF Mint, Expire, Fund, Complete, LoadChallenge, ReadRaises, locks, calls,
           Goto, TypeOK, Writing, Threads
  <1>4. \A t \in Payers : pc'[t] \in Writing \union {"settle"} => pays'[t] = pays[t]
    BY DEF Mint, Expire, Fund, Complete, LoadChallenge, ReadRaises, locks, calls,
           Goto, TypeOK, Writing, Threads
  <1>5. TypeOK'
    <2>1. CASE \E c \in Challenges : Mint(c) \/ Expire(c)
      BY <2>1 DEF Mint, Expire, locks, calls, TypeOK
    <2>2. CASE \E t \in Payers, c \in Challenges : Fund(t, c) \/ Complete(t, c)
      BY <2>2 DEF Fund, Complete, locks, Goto, TypeOK
    <2>3. CASE \E t \in Payers : LoadChallenge(t) \/ ReadRaises(t)
      BY <2>3 DEF LoadChallenge, ReadRaises, Goto, TypeOK, Threads
    <2> QED
      BY <2>1, <2>2, <2>3
  <1>6. Places'
    <2>1. CASE \E c \in Challenges : Mint(c) \/ Expire(c)
      BY <2>1 DEF Mint, Expire, locks, calls, Places
    <2>2. CASE \E t \in Payers, c \in Challenges : Fund(t, c) \/ Complete(t, c)
      BY <2>2 DEF Fund, Complete, Goto, Places, Paying, TypeOK
    <2>3. CASE \E t \in Payers : LoadChallenge(t) \/ ReadRaises(t)
      BY <2>3 DEF LoadChallenge, ReadRaises, Goto, Places, Paying, TypeOK
    <2> QED
      BY <2>1, <2>2, <2>3
  <1>7. \A c \in Challenges : chal'[c] \in {"settled", "torn"} => chal[c] \in {"settled", "torn"}
    BY DEF Mint, Expire, Fund, Complete, LoadChallenge, ReadRaises, TypeOK
  <1>8. CopiesAdd'
    BY <1>1, <1>2, <1>3, <1>4 DEF CopiesAdd, Places, Paying, Writing
  <1> QED
    BY <1>1, <1>2, <1>3, <1>4, <1>5, <1>6, <1>7, <1>8
    DEF SessionAdds, StoreKept, Alone, Fresh, TornAlone, Settling, SettledIsCredited, Writing, Threads

\* The session is copied under the lock: nobody else of the process has a copy.
LEMMA CopyStep ==
  ASSUME IInv, NEW t \in Threads, NEW where \in Writing, pc[t] \notin Writing,
         TakeCopy(t, where),
         where = "write" => /\ t \in Payers /\ ~(pays[t] \subseteq session.fundIds)
                            /\ pc[t] = "credit",
         where = "writeDebit" => /\ t \in Spenders /\ session.balance >= Cost
                                 /\ debits[t] < MaxDebits,
         UNCHANGED <<session, torn, chal, expired, rail, pays, debits, crashes>>
  PROVE  IInv'
  <1> USE DEF IInv
  <1>1. TypeOK'
    BY DEF TypeOK, TakeCopy, Goto, Writing, Threads
  <1>2. /\ copy'[t] = session /\ pc'[t] = where
        /\ \A u \in Threads \ {t} : copy'[u] = copy[u] /\ pc'[u] = pc[u]
    BY DEF TypeOK, TakeCopy, Goto
  <1>3. Adds(session)
    BY DEF SessionAdds, Adds
  <1>4. Places'
    BY <1>2 DEF Places, Paying, Writing, Threads
  <1>5. CopiesAdd'
    BY <1>2, <1>3 DEF CopiesAdd, Writing
  <1>6. StoreKept'
    <2> SUFFICES ASSUME NEW u \in Threads, pc'[u] \in Writing, u # t
                 PROVE  store'[ProcOf[u]] = u
      <3>1. store'[ProcOf[t]] = t
        BY ConstantsAssumption DEF TakeCopy, TypeOK
      <3> QED
        BY <3>1 DEF StoreKept
    <2>1. store[ProcOf[u]] = u
      BY <1>2 DEF StoreKept
    <2>2. ProcOf[u] # ProcOf[t]
      BY <2>1, NobodyAssumption DEF TakeCopy
    <2> QED
      BY <2>1, <2>2 DEF TakeCopy, TypeOK
  <1>7. ~overlapped' => ~overlapped /\ \A u \in Threads \ {t} : pc[u] \notin Writing
    <2> SUFFICES ASSUME ~overlapped', NEW u \in Threads \ {t}, pc[u] \in Writing
                 PROVE  FALSE
      BY DEF TakeCopy, TypeOK
    <2>1. store[ProcOf[u]] = u
      BY DEF StoreKept
    <2>2. ProcOf[u] # ProcOf[t]
      BY <2>1, NobodyAssumption DEF TakeCopy
    <2>3. ProcOf[u] \in InWindow
      BY DEF InWindow
    <2> QED
      BY <2>2, <2>3 DEF TakeCopy
  <1>8. Alone' /\ Fresh' /\ TornAlone'
    BY <1>2, <1>7 DEF Alone, Fresh, TornAlone, TakeCopy
  <1>9. Settling' /\ SettledIsCredited' /\ SessionAdds'
    BY <1>2, <1>7 DEF Settling, SettledIsCredited, SessionAdds, Writing, Threads
  <1> QED
    BY <1>1, <1>4, <1>5, <1>6, <1>8, <1>9

\* A thread saves its copy: what it saves adds up, and unless two processes were
\* there at once it has everything that the file has.
LEMMA SaveStep ==
  ASSUME IInv, NEW t \in Threads, pc[t] \in Writing,
         NEW rec \in Session, NEW where \in {"idle", "settle"},
         SaveSession(t, rec, where), Adds(rec),
         copy[t].fundIds \subseteq rec.fundIds,
         where = "settle" => t \in Payers /\ pc[t] = "write" /\ pays[t] \subseteq rec.fundIds,
         debits' \in [Spenders -> 0 .. MaxDebits],
         \A u \in Spenders \ {t} : debits'[u] = debits[u],
         UNCHANGED <<chal, expired, rail, pays, overlapped, crashes>>
  PROVE  IInv'
  <1> USE DEF IInv
  <1>1. TypeOK'
    BY NewAdds DEF TypeOK, SaveSession, Goto
  <1>2. /\ pc'[t] = where
        /\ \A u \in Threads \ {t} : copy'[u] = copy[u] /\ pc'[u] = pc[u]
    BY DEF TypeOK, SaveSession, Goto
  <1>3. Places'
    BY <1>2 DEF Places, Paying, Writing
  <1>4. SessionAdds'
    BY DEF SaveSession, SessionAdds, Adds
  <1>5. CopiesAdd'
    BY <1>2 DEF CopiesAdd, Writing
  <1>6. StoreKept'
    <2> SUFFICES ASSUME NEW u \in Threads, pc'[u] \in Writing PROVE store'[ProcOf[u]] = u
      BY DEF StoreKept
    <2>1. u # t /\ pc[u] \in Writing
      BY <1>2 DEF Writing
    <2>2. store[ProcOf[u]] = u /\ store[ProcOf[t]] = t
      BY <2>1 DEF StoreKept
    <2>3. ProcOf[u] # ProcOf[t]
      BY <2>1, <2>2
    <2> QED
      BY <2>2, <2>3 DEF SaveSession, TypeOK
  <1>7. ~overlapped => \A u \in Threads : pc'[u] \notin Writing
    BY <1>2 DEF Alone, Writing
  <1>8. Alone' /\ Fresh' /\ TornAlone'
    BY <1>7 DEF Alone, Fresh, TornAlone
  <1>9. ~overlapped => session.fundIds \subseteq session'.fundIds
    BY DEF Fresh, SaveSession
  <1>10. Settling' /\ SettledIsCredited'
    <2>1. session' = rec
      BY DEF SaveSession
    <2>2. ~overlapped => ~torn
      BY DEF TornAlone
    <2> QED
      BY <1>2, <1>9, <2>1, <2>2 DEF Settling, SettledIsCredited, Threads
  <1> QED
    BY <1>1, <1>3, <1>4, <1>5, <1>6, <1>8, <1>10

\* A process dies: its threads are idle, the other ones as they were, and what it
\* was settling is credited.
LEMMA CrashStep ==
  ASSUME IInv, NEW p \in Procs, Crash(p)
  PROVE  IInv'
  <1> USE DEF IInv
  <1>1. \A t \in Threads : /\ pc'[t] = (IF ProcOf[t] = p THEN "idle" ELSE pc[t])
                           /\ copy'[t] = (IF ProcOf[t] = p THEN NewSession ELSE copy[t])
    BY DEF Crash
  <1>2. \A t \in Payers : pays'[t] = (IF ProcOf[t] = p THEN {} ELSE pays[t])
    BY DEF Crash
  <1>3. UNCHANGED <<expired, debits, overlapped>>
    BY DEF Crash
  <1>4. \A q \in Procs \ {p} : store'[q] = store[q]
    BY DEF Crash, TypeOK
  <1>5. \A t \in Threads : ProcOf[t] \in Procs
    BY ConstantsAssumption
  <1>6. crashes' \in 0 .. MaxCrashes
    BY ConstantsAssumption DEF Crash, TypeOK
  <1>7. chal' \in [Challenges -> {"none", "pending", "settled", "torn"}]
    BY DEF Crash, TypeOK
  <1>8. TypeOK'
    BY <1>3, <1>6, <1>7, NewAdds DEF Crash, EmptySession, TypeOK
  <1>9. SettledIsCredited'
    <2> SUFFICES ASSUME ~overlapped, ~torn', NEW c \in Challenges,
                        chal'[c] \in {"settled", "torn"}
                 PROVE  c \in session'.fundIds
      BY <1>3 DEF SettledIsCredited
    <2>0. UNCHANGED <<session, torn>>
      BY DEF Crash, EmptySession
    <2>1. CASE chal'[c] = chal[c]
      BY <2>0, <2>1 DEF SettledIsCredited
    <2>2. CASE chal'[c] # chal[c]
      <3>1. c \in BeingSettled(p)
        BY <2>2 DEF Crash, TypeOK
      <3>2. PICK t \in Payers : pc[t] = "settle" /\ c \in pays[t]
        BY <3>1 DEF BeingSettled
      <3> QED
        BY <2>0, <3>2 DEF Settling
    <2> QED
      BY <2>1, <2>2
  <1>10. Places' /\ CopiesAdd' /\ StoreKept' /\ Alone'
    BY <1>1, <1>2, <1>3, <1>4, <1>5
    DEF Places, CopiesAdd, StoreKept, Alone, Paying, Writing, Threads
  <1>11. Fresh' /\ TornAlone' /\ Settling' /\ SessionAdds'
    <2>1. CASE UNCHANGED <<session, torn>>
      BY <1>1, <1>2, <1>3, <2>1
      DEF Fresh, TornAlone, Settling, SessionAdds, Writing, Threads
    <2>2. CASE EmptySession(p)
      <3>1. PICK u \in Threads : pc[u] \in Writing /\ ProcOf[u] = p
        BY <2>2 DEF EmptySession, InWindow
      <3>2. ~overlapped => \A t \in Threads : pc'[t] \notin Writing
        BY <1>1, <3>1 DEF Alone, Writing
      <3>3. SessionAdds'
        BY <2>2, NewAdds DEF EmptySession, SessionAdds, Adds
      <3> QED
        BY <1>3, <2>2, <3>2, <3>3 DEF EmptySession, Fresh, TornAlone, Settling
    <2> QED
      BY <2>1, <2>2 DEF Crash
  <1> QED
    BY <1>8, <1>9, <1>10, <1>11

\* Every action keeps the invariant.
LEMMA StepInv == IInv /\ [Next]_vars => IInv'
  <1> SUFFICES ASSUME IInv, [Next]_vars PROVE IInv'
    OBVIOUS
  <1> USE DEF IInv
  <1>1. CASE \/ \E c \in Challenges : Mint(c) \/ Expire(c)
             \/ \E t \in Payers, c \in Challenges : Fund(t, c) \/ Complete(t, c)
             \/ \E t \in Payers : LoadChallenge(t) \/ ReadRaises(t)
    BY <1>1, ChallengeStep
  <1>2. ASSUME NEW t \in Payers, ReadToCredit(t) PROVE IInv'
    <2>0. t \in Threads /\ pc[t] = "credit"
      BY <1>2 DEF ReadToCredit, Threads
    <2>1. CASE AlreadyCredited(t)
      <3>1. UNCHANGED <<session, torn, chal, expired, rail, store, copy, pays, debits,
                        overlapped, crashes>>
            /\ pc' = [pc EXCEPT ![t] = "settle"]
        BY <1>2, <2>1 DEF ReadToCredit, Goto
      <3>2. /\ pc'[t] = "settle"
            /\ \A u \in Threads \ {t} : pc'[u] = pc[u]
        BY <2>0, <3>1 DEF TypeOK
      <3>3. TypeOK'
        BY <3>1 DEF TypeOK
      <3>4. pays[t] \subseteq session.fundIds
        BY <2>1 DEF AlreadyCredited
      <3> QED
        BY <1>2, <2>0, <3>1, <3>2, <3>3, <3>4
        DEF Places, Paying, SessionAdds, CopiesAdd, StoreKept, Alone, Fresh, TornAlone, Settling,
            SettledIsCredited, Writing, Threads
    <2>2. CASE ~AlreadyCredited(t)
      <3>1. TakeCopy(t, "write")
            /\ UNCHANGED <<session, torn, chal, expired, rail, pays, debits, crashes>>
        BY <1>2, <2>2 DEF ReadToCredit
      <3> QED
        BY <2>0, <2>2, <3>1, CopyStep DEF Writing, AlreadyCredited
    <2> QED
      BY <2>1, <2>2
  <1>3. ASSUME NEW t \in Payers, Credit(t) PROVE IInv'
    <2>1. t \in Threads /\ pc[t] = "write" /\ copy[t] \in Session /\ Adds(copy[t])
      BY <1>3 DEF Credit, Threads, TypeOK, CopiesAdd, Writing
    <2>2. PICK c \in Challenges : pays[t] = {c}
      BY <2>1 DEF Places, Paying
    <2>3. c \notin copy[t].fundIds
      BY <2>1, <2>2 DEF CopiesAdd
    <2> DEFINE rec == [balance |-> copy[t].balance + Amount, spent |-> copy[t].spent,
                       fundIds |-> copy[t].fundIds \union {c}]
    <2>4. rec \in Session /\ Adds(rec)
      BY <2>1, <2>3, CreditAdds
    <2>5. SaveSession(t, rec, "settle")
      BY <1>3, <2>2 DEF Credit
    <2>6. rec.fundIds = copy[t].fundIds \union {c}
      OBVIOUS
    <2>7. /\ debits' \in [Spenders -> 0 .. MaxDebits]
          /\ \A u \in Spenders \ {t} : debits'[u] = debits[u]
          /\ UNCHANGED <<chal, expired, rail, pays, overlapped, crashes>>
      BY <1>3 DEF Credit, TypeOK
    <2> HIDE DEF rec
    <2> QED
      BY <2>1, <2>2, <2>4, <2>5, <2>6, <2>7, SaveStep DEF Writing
  <1>4. ASSUME NEW t \in Payers, SettleChallenge(t) PROVE IInv'
    <2>0. t \in Threads /\ pc[t] = "settle"
      BY <1>4 DEF SettleChallenge, Threads
    <2>1. /\ UNCHANGED <<session, torn, store, copy, debits, overlapped, crashes>>
          /\ pays' = [pays EXCEPT ![t] = {}]
          /\ pc' = [pc EXCEPT ![t] = "idle"]
      BY <1>4 DEF SettleChallenge, Goto
    <2>2. /\ pc'[t] = "idle"
          /\ \A u \in Threads \ {t} : pc'[u] = pc[u]
          /\ \A u \in Payers \ {t} : pays'[u] = pays[u]
      BY <2>0, <2>1 DEF TypeOK
    <2>3. TypeOK'
      BY <1>4 DEF SettleChallenge, TypeOK, Goto
    <2>4. SettledIsCredited'
      BY <1>4, <2>0, <2>1 DEF SettleChallenge, Settling, SettledIsCredited
    <2> QED
      BY <2>1, <2>2, <2>3, <2>4
      DEF Places, Paying, SessionAdds, CopiesAdd, StoreKept, Alone, Fresh, TornAlone, Settling,
          Writing, Threads
  <1>5. ASSUME NEW t \in Spenders, ReadToDebit(t) PROVE IInv'
    BY <1>5, CopyStep DEF ReadToDebit, Writing, Threads
  <1>6. ASSUME NEW t \in Spenders, Debit(t) PROVE IInv'
    <2>1. /\ t \in Threads /\ pc[t] = "writeDebit" /\ copy[t] \in Session
          /\ Adds(copy[t]) /\ copy[t].balance >= Cost
      BY <1>6 DEF Debit, Threads, TypeOK, CopiesAdd, Writing, Places
    <2> DEFINE rec == [balance |-> copy[t].balance - Cost, spent |-> copy[t].spent + Cost,
                       fundIds |-> copy[t].fundIds]
    <2>2. rec \in Session /\ Adds(rec)
      BY <2>1, DebitAdds
    <2>3. SaveSession(t, rec, "idle")
      BY <1>6 DEF Debit
    <2>4. rec.fundIds = copy[t].fundIds
      OBVIOUS
    <2>5. /\ debits' \in [Spenders -> 0 .. MaxDebits]
          /\ \A u \in Spenders \ {t} : debits'[u] = debits[u]
          /\ UNCHANGED <<chal, expired, rail, pays, overlapped, crashes>>
      <3>1. debits[t] \in Nat /\ debits[t] < MaxDebits /\ MaxDebits \in Nat
        BY <2>1, ConstantsAssumption DEF Places, TypeOK
      <3>2. debits[t] + 1 \in 0 .. MaxDebits
        BY <3>1
      <3> QED
        BY <1>6, <3>2 DEF Debit, TypeOK
    <2> HIDE DEF rec
    <2> QED
      BY <2>1, <2>2, <2>3, <2>4, <2>5, SaveStep DEF Writing
  <1>7. ASSUME NEW p \in Procs, Crash(p) PROVE IInv'
    BY <1>7, CrashStep
  <1>8. CASE UNCHANGED vars
    BY <1>8 DEF vars, locks, calls, TypeOK, Places, Paying, SessionAdds, CopiesAdd,
                StoreKept, Alone, Fresh, TornAlone, Settling, SettledIsCredited, Writing
  <1> QED
    BY <1>1, <1>2, <1>3, <1>4, <1>5, <1>6, <1>7, <1>8 DEF Next, PayerStep

\* The invariant holds in every reachable state.
LEMMA Inductive == Spec => []IInv
  BY InitInv, StepInv, PTL DEF Spec

-----------------------------------------------------------------------------
(* The theorems.                                                           *)

\* Every variable keeps its type, and no balance goes below zero.
THEOREM TypeCorrect == Spec => []TypeOK
  BY Inductive, PTL DEF IInv

\* Every challenge on a session is credited exactly once.
THEOREM AddsUp == Spec => []SessionAdds
  BY Inductive, PTL DEF IInv

\* A settled challenge has its credit, where no two processes wrote the session at
\* once and no crash has emptied it.
THEOREM SettledCredited == Spec => []SettledIsCredited
  BY Inductive, PTL DEF IInv

\* No save undoes a credit or a debit of another thread; only the crash that
\* empties the file does.
THEOREM NothingIsLost == Spec => NothingLost
  <1>1. IInv /\ [Next]_vars =>
          [~overlapped' => \/ /\ session.fundIds \subseteq session'.fundIds
                              /\ session.spent <= session'.spent
                           \/ ~torn /\ torn']_vars
    <2> SUFFICES ASSUME IInv, Next, ~overlapped'
                 PROVE  \/ /\ session.fundIds \subseteq session'.fundIds
                           /\ session.spent <= session'.spent
                        \/ ~torn /\ torn'
      OBVIOUS
    <2>1. CASE session' = session
      BY <2>1 DEF IInv, TypeOK, Session
    <2>2. ASSUME NEW t \in Payers, Credit(t)
          PROVE  session.fundIds \subseteq session'.fundIds /\ session.spent <= session'.spent
      <3>1. copy[t] = session
        BY <2>2 DEF IInv, Fresh, Credit, Writing, Threads
      <3>2. session'.fundIds = session.fundIds \union pays[t] /\ session'.spent = session.spent
        BY <2>2, <3>1 DEF Credit, SaveSession
      <3> QED
        BY <3>2 DEF IInv, TypeOK, Session
    <2>3. ASSUME NEW t \in Spenders, Debit(t)
          PROVE  session.fundIds \subseteq session'.fundIds /\ session.spent <= session'.spent
      <3>1. copy[t] = session
        BY <2>3 DEF IInv, Fresh, Debit, Writing, Threads
      <3>2. session'.fundIds = session.fundIds /\ session'.spent = session.spent + Cost
        BY <2>3, <3>1 DEF Debit, SaveSession
      <3>3. session.spent \in Nat /\ Cost \in Nat
        BY ConstantsAssumption DEF IInv, TypeOK, Session
      <3> QED
        BY <3>2, <3>3
    <2>4. \/ session' = session
          \/ \E t \in Payers : Credit(t)
          \/ \E t \in Spenders : Debit(t)
          \/ \E p \in Procs : EmptySession(p) /\ UNCHANGED overlapped
      BY DEF Next, PayerStep, Mint, Expire, Fund, Complete, LoadChallenge, ReadToCredit,
             ReadRaises, SettleChallenge, ReadToDebit, Crash
    <2>5. ASSUME NEW p \in Procs, EmptySession(p), UNCHANGED overlapped
          PROVE  ~torn /\ torn'
      BY <2>5 DEF EmptySession, InWindow, IInv, TornAlone, TypeOK
    <2> QED
      BY <2>1, <2>2, <2>3, <2>4, <2>5
  <1> QED
    BY <1>1, Inductive, PTL DEF Spec, NothingLost

-----------------------------------------------------------------------------
(* Locks.                                                                  *)

Credits == {"credit", "write", "settle"}

\* A rail's lock belongs to a payer of its process that is past the check of its
\* challenge, and every such payer has it.
RailOwned ==
  /\ \A p \in Procs : rail[p] # Nobody =>
       rail[p] \in Payers /\ ProcOf[rail[p]] = p /\ pc[rail[p]] \in Credits
  /\ \A t \in Payers : pc[t] \in Credits => rail[ProcOf[t]] = t

\* A store's lock belongs to a thread of its process that is about to write.
StoreOwned ==
  /\ \A p \in Procs : store[p] # Nobody =>
       store[p] \in Threads /\ ProcOf[store[p]] = p /\ pc[store[p]] \in Writing
  /\ StoreKept

LocksOwned == RailOwned /\ StoreOwned

\* Every action of a payer gives and takes the locks in pairs.
LEMMA LocksOfPayer ==
  ASSUME IInv, LocksOwned, NEW t \in Payers, PayerStep(t)
  PROVE  LocksOwned'
  <1> USE ConstantsAssumption, NobodyAssumption DEF IInv, TypeOK, Threads, LocksOwned,
     RailOwned, StoreOwned, StoreKept, Credits, Writing, Goto
  <1>1. CASE LoadChallenge(t)
    BY <1>1 DEF LoadChallenge
  <1>2. CASE ReadToCredit(t)
    BY <1>2 DEF ReadToCredit, TakeCopy
  <1>3. CASE ReadRaises(t)
    BY <1>3 DEF ReadRaises
  <1>4. CASE Credit(t)
    BY <1>4 DEF Credit, SaveSession
  <1>5. CASE SettleChallenge(t)
    BY <1>5 DEF SettleChallenge
  <1> QED
    BY <1>1, <1>2, <1>3, <1>4, <1>5 DEF PayerStep

\* So does every other action; a death takes the locks of its process with it.
LEMMA LocksStep ==
  ASSUME IInv, LocksOwned, [Next]_vars
  PROVE  LocksOwned'
  <1> USE ConstantsAssumption, NobodyAssumption DEF IInv, TypeOK, Threads, LocksOwned,
     RailOwned, StoreOwned, StoreKept, Credits, Writing, Goto, locks, calls
  <1>1. ASSUME NEW c \in Challenges, Mint(c) \/ Expire(c) PROVE LocksOwned'
    BY <1>1 DEF Mint, Expire
  <1>2. ASSUME NEW t \in Payers, NEW c \in Challenges, Fund(t, c) \/ Complete(t, c)
        PROVE  LocksOwned'
    BY <1>2 DEF Fund, Complete
  <1>3. ASSUME NEW t \in Spenders, ReadToDebit(t) PROVE LocksOwned'
    BY <1>3 DEF ReadToDebit, TakeCopy
  <1>4. ASSUME NEW t \in Spenders, Debit(t) PROVE LocksOwned'
    BY <1>4 DEF Debit, SaveSession
  <1>5. ASSUME NEW p \in Procs, Crash(p) PROVE LocksOwned'
    BY <1>5 DEF Crash
  <1>6. CASE UNCHANGED vars
    BY <1>6 DEF vars
  <1> QED
    BY <1>1, <1>2, <1>3, <1>4, <1>5, <1>6, LocksOfPayer DEF Next

\* No lock stays behind (PaymentsSettle could not hold otherwise): whatever raises
\* or dies, a lock has an owner in its process that is on the way to give it back,
\* and no owner of a store's lock waits for another lock.
THEOREM LocksAreOwned == Spec => []LocksOwned
<1>1. Init => LocksOwned
  BY NobodyAssumption DEF Init, LocksOwned, RailOwned, StoreOwned, StoreKept, Credits,
     Writing, Threads
<1>2. IInv /\ LocksOwned /\ [Next]_vars => LocksOwned'
  BY LocksStep
<1> QED
  BY <1>1, <1>2, Inductive, PTL DEF Spec

=============================================================================
