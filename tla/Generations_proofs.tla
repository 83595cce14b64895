--------------------------- MODULE Generations_proofs -------------------------
(***************************************************************************)
(* Theorems about Generations for any number of users, chats and cancels.  *)
(*                                                                         *)
(* OwnerIsWorking is not inductive alone: that the chat which made the     *)
(* reservation is still the one to end it needs the order of the epochs    *)
(* (Epochs), that a pass has ended its own reservation when the next one   *)
(* begins (InnerOver), and that a dropped chat has ended the route's       *)
(* (DroppedEnded).  FinishKeepsOthers needs epochs of two chats to differ  *)
(* (Distinct), and OneLiveProducer who holds the local lock (LockHeld,     *)
(* LiveConsumes).                                                          *)
(***************************************************************************)
EXTENDS Generations, TLAPS

\* The marker is a producer's last word.
MarkerLast ==
  \A q \in Chats :
    prod[q] \in {"none", "spawned", "leased", "putting", "ending"} => marker[q] = "none"

Epochs ==
  /\ ownerEpoch <= epoch
  /\ \A q \in Chats : gen[q] <= epoch /\ inner[q] <= epoch
  /\ owner # Nobody => ownerEpoch > 0

Distinct ==
  \A p, q \in Chats :
    p # q => \A e \in {gen[p], inner[p]} : e > 0 => e \notin {gen[q], inner[q]}

InnerOver ==
  \A q \in Chats :
    pc[q] \in {"idle", "refused", "pass", "closed", "lost", "done"} => inner[q] = 0

DroppedEnded ==
  \A q \in Chats : pc[q] = "dropped" /\ owner = userOf[q] => ownerEpoch # gen[q]

LockHeld == \A q \in Chats : pc[q] \in {"prepare", "consume", "stop"} => localLock = q

LiveConsumes ==
  \A q \in Chats : prod[q] \in {"spawned", "leased", "putting"} =>
    stopped[q] \/ pc[q] \in {"consume", "dropped", "closed"}

Owning    == Epochs /\ Distinct /\ InnerOver /\ DroppedEnded /\ OwnerIsWorking
Producing == LockHeld /\ LiveConsumes

IInv == TypeOK /\ MarkerLast /\ TaskOrReservation /\ Owning /\ Producing

-----------------------------------------------------------------------------

\* Nobody has the runner at the start.
LEMMA InitInv == Init => IInv
  BY ConstantsAssumption, NobodyAssumption
  DEF Init, IInv, TypeOK, MarkerLast, TaskOrReservation, Owning, Epochs, Distinct, InnerOver,
      DroppedEnded, OwnerIsWorking, Producing, LockHeld, LiveConsumes, Working

\* Every action keeps the types and the place of the marker.
LEMMA TypeStep ==
  ASSUME IInv, [Next]_vars
  PROVE  TypeOK' /\ MarkerLast'
  <1> USE DEF IInv
  <1>1. ASSUME NEW q \in Chats, BeginChat(q) PROVE TypeOK' /\ MarkerLast'
    BY <1>1, ConstantsAssumption, NobodyAssumption DEF BeginChat, Reserve,
       MayReserve, Goto, ownerVars, chatVars, prodVars, TypeOK, MarkerLast, Working
  <1>2. ASSUME NEW q \in Chats, BeginPass(q) PROVE TypeOK' /\ MarkerLast'
    BY <1>2, ConstantsAssumption, NobodyAssumption DEF BeginPass, Reserve,
       MayReserve, CancelFor, AvailableTo, Goto, ownerVars, chatVars, prodVars,
       TypeOK, MarkerLast, Working
  <1>3. ASSUME NEW q \in Chats, TakeLocalLock(q) PROVE TypeOK' /\ MarkerLast'
    BY <1>3, ConstantsAssumption, NobodyAssumption DEF TakeLocalLock, Goto,
       ownerVars, chatVars, prodVars, TypeOK, MarkerLast, Working
  <1>4. ASSUME NEW q \in Chats, StartProducer(q) PROVE TypeOK' /\ MarkerLast'
    BY <1>4, ConstantsAssumption, NobodyAssumption DEF StartProducer, Goto,
       ownerVars, chatVars, prodVars, TypeOK, MarkerLast, Working
  <1>5. ASSUME NEW q \in Chats, Receive(q) PROVE TypeOK' /\ MarkerLast'
    <2>1. CASE queue[q] > 0 /\ queue' = [queue EXCEPT ![q] = @ - 1] /\ current = q
      BY <1>5, <2>1, ConstantsAssumption, NobodyAssumption DEF Receive,
         StopConsuming, Goto, ownerVars, chatVars, prodVars, TypeOK, MarkerLast,
         Working
    <2>2. CASE queue[q] > 0 /\ queue' = [queue EXCEPT ![q] = @ - 1] /\ current # q
      <3>1. StopConsuming(q, "ok")
        BY <1>5, <2>2 DEF Receive
      <3> QED
        BY <1>5, <2>2, <3>1, ConstantsAssumption, NobodyAssumption DEF Receive,
           StopConsuming, Goto, ownerVars, chatVars, prodVars, TypeOK, MarkerLast,
           Working
    <2>3. CASE queue[q] = 0 /\ UNCHANGED queue
      <3>1. StopConsuming(q, "ok") \/ StopConsuming(q, "error")
        <4>1. CASE marker[q] = "done"
          BY <1>5, <2>3, <4>1 DEF Receive
        <4>2. CASE marker[q] # "done"
          BY <1>5, <2>3, <4>2 DEF Receive
        <4> QED
          BY <4>1, <4>2
      <3> QED
        BY <1>5, <2>3, <3>1, ConstantsAssumption, NobodyAssumption DEF Receive,
           StopConsuming, Goto, ownerVars, chatVars, prodVars, TypeOK, MarkerLast,
           Working
    <2> QED
      BY <1>5, <2>1, <2>2, <2>3 DEF Receive
  <1>6. ASSUME NEW q \in Chats, LeavePass(q) PROVE TypeOK' /\ MarkerLast'
    BY <1>6, ConstantsAssumption, NobodyAssumption DEF LeavePass, LeaveLock,
       EndInner, EndEpoch, GiveUp, CancelFor, AvailableTo, Goto, ownerVars,
       chatVars, prodVars, TypeOK, MarkerLast, Working
  <1>7. ASSUME NEW q \in Chats, Disconnect(q) PROVE TypeOK' /\ MarkerLast'
    <2>1. CASE pc[q] \in {"consume", "stop"} /\ StopConsuming(q, "gone")
      BY <1>7, <2>1, ConstantsAssumption, NobodyAssumption DEF Disconnect,
         StopConsuming, GiveUp, CancelFor, AvailableTo, Goto, ownerVars, chatVars,
         prodVars, TypeOK, MarkerLast, Working
    <2>2. CASE GiveUp(q)
      BY <1>7, <2>2, ConstantsAssumption, NobodyAssumption DEF Disconnect,
         StopConsuming, GiveUp, CancelFor, AvailableTo, Goto, ownerVars, chatVars,
         prodVars, TypeOK, MarkerLast, Working
    <2> QED
      BY <1>7, <2>1, <2>2 DEF Disconnect
  <1>8. ASSUME NEW q \in Chats, Finish(q) PROVE TypeOK' /\ MarkerLast'
    BY <1>8, ConstantsAssumption, NobodyAssumption DEF Finish, EndEpoch, Goto,
       ownerVars, chatVars, prodVars, TypeOK, MarkerLast, Working
  <1>9. ASSUME NEW q \in Chats, Drop(q) PROVE TypeOK' /\ MarkerLast'
    BY <1>9, ConstantsAssumption, NobodyAssumption DEF Drop, EndEpoch, Goto,
       ownerVars, chatVars, prodVars, TypeOK, MarkerLast, Working
  <1>10. ASSUME NEW q \in Chats, CloseDropped(q) PROVE TypeOK' /\ MarkerLast'
    <2>1. CASE pc[q] = "dropped"
      <3>1. /\ owner' \in Users \union {Nobody}
            /\ ownerEpoch' \in Nat
            /\ epoch' \in Nat
            /\ inner' \in [Chats -> Nat]
        BY <1>10, <2>1, NobodyAssumption DEF CloseDropped, EndInner, EndEpoch,
           ownerVars, TypeOK
      <3> QED
        BY <1>10, <2>1, <3>1, ConstantsAssumption DEF CloseDropped, LeaveLock, Goto,
           TypeOK, MarkerLast, Working
    <2>2. CASE pc[q] = "closed"
      BY <1>10, <2>2, ConstantsAssumption DEF CloseDropped, Goto, ownerVars, TypeOK,
         MarkerLast, Working
    <2> QED
      BY <1>10, <2>1, <2>2 DEF CloseDropped
  <1>11. ASSUME NEW q \in Chats, TakeLease(q) PROVE TypeOK' /\ MarkerLast'
    BY <1>11, ConstantsAssumption, NobodyAssumption DEF TakeLease, ProdRest,
       ownerVars, chatVars, prodVars, TypeOK, MarkerLast, Working
  <1>12. ASSUME NEW q \in Chats, Produce(q) PROVE TypeOK' /\ MarkerLast'
    BY <1>12, ConstantsAssumption, NobodyAssumption DEF Produce, ShouldStop,
       ProdRest, ownerVars, chatVars, prodVars, TypeOK, MarkerLast, Working
  <1>13. ASSUME NEW q \in Chats, Put(q) PROVE TypeOK' /\ MarkerLast'
    BY <1>13, ConstantsAssumption, NobodyAssumption DEF Put, Room, ProdRest,
       ownerVars, chatVars, prodVars, TypeOK, MarkerLast, Working
  <1>14. ASSUME NEW q \in Chats, EndLease(q) PROVE TypeOK' /\ MarkerLast'
    BY <1>14, ConstantsAssumption, NobodyAssumption DEF EndLease, ProdRest,
       ownerVars, chatVars, prodVars, TypeOK, MarkerLast, Working
  <1>15. ASSUME NEW q \in Chats, PutMarker(q) PROVE TypeOK' /\ MarkerLast'
    BY <1>15, ConstantsAssumption, NobodyAssumption DEF PutMarker, Room,
       ShouldStop, ProdRest, ownerVars, chatVars, prodVars, TypeOK, MarkerLast,
       Working
  <1>16. ASSUME NEW q \in Chats, StaleEnds(q) PROVE TypeOK' /\ MarkerLast'
    BY <1>16, ConstantsAssumption, NobodyAssumption DEF StaleEnds, ownerVars,
       chatVars, prodVars, TypeOK, MarkerLast, Working
  <1>17. ASSUME NEW c \in Cancels, CancelGeneration(c) PROVE TypeOK' /\ MarkerLast'
    BY <1>17, ConstantsAssumption, NobodyAssumption DEF CancelGeneration,
       CancelFor, AvailableTo, CancelRest, ownerVars, chatVars, prodVars, TypeOK,
       MarkerLast, Working
  <1>18. ASSUME NEW c \in Cancels, CancelAndUnload(c) PROVE TypeOK' /\ MarkerLast'
    BY <1>18, ConstantsAssumption, NobodyAssumption DEF CancelAndUnload,
       AvailableTo, CancelRest, ownerVars, chatVars, prodVars, TypeOK, MarkerLast,
       Working
  <1>19. CASE TaskBegin
    BY <1>19, ConstantsAssumption, NobodyAssumption DEF TaskBegin, MayRunTask,
       TaskRest, ownerVars, chatVars, prodVars, TypeOK, MarkerLast, Working
  <1>20. CASE DownloadCheck
    BY <1>20, ConstantsAssumption, NobodyAssumption DEF DownloadCheck, TaskRest,
       ownerVars, chatVars, prodVars, TypeOK, MarkerLast, Working
  <1>21. CASE DownloadBegin
    BY <1>21, ConstantsAssumption, NobodyAssumption DEF DownloadBegin, TaskRest,
       ownerVars, chatVars, prodVars, TypeOK, MarkerLast, Working
  <1>22. CASE TaskEnd
    BY <1>22, ConstantsAssumption, NobodyAssumption DEF TaskEnd, TaskRest,
       ownerVars, chatVars, prodVars, TypeOK, MarkerLast, Working
  <1>23. ASSUME NEW q \in Chats, FailEarly(q) PROVE TypeOK' /\ MarkerLast'
    BY <1>23, ConstantsAssumption, NobodyAssumption DEF FailEarly, Goto,
       ownerVars, prodVars, TypeOK, MarkerLast, Working
  <1>24. CASE UNCHANGED vars
    BY <1>24 DEF vars, ownerVars, chatVars, prodVars, TypeOK, MarkerLast, Working
  <1> QED
    BY <1>1, <1>2, <1>3, <1>4, <1>5, <1>6, <1>7, <1>8, <1>9, <1>10, <1>11, <1>12,
       <1>13, <1>14, <1>15, <1>16, <1>17, <1>18, <1>19, <1>20, <1>21, <1>22, <1>23, <1>24
       DEF Next, ChatStep, ProducerStep

\* No action leaves a GPU job beside a reservation.
LEMMA ExclusionStep ==
  ASSUME IInv, [Next]_vars
  PROVE  TaskOrReservation'
  <1> USE DEF IInv
  <1>1. ASSUME NEW q \in Chats, BeginChat(q) PROVE TaskOrReservation'
    BY <1>1, ConstantsAssumption, NobodyAssumption DEF BeginChat, Reserve,
       MayReserve, Goto, ownerVars, chatVars, prodVars, TaskOrReservation, TypeOK
  <1>2. ASSUME NEW q \in Chats, BeginPass(q) PROVE TaskOrReservation'
    BY <1>2, ConstantsAssumption, NobodyAssumption DEF BeginPass, Reserve,
       MayReserve, CancelFor, AvailableTo, Goto, ownerVars, chatVars, prodVars,
       TaskOrReservation, TypeOK
  <1>3. ASSUME NEW q \in Chats, TakeLocalLock(q) PROVE TaskOrReservation'
    BY <1>3, ConstantsAssumption, NobodyAssumption DEF TakeLocalLock, Goto,
       ownerVars, chatVars, prodVars, TaskOrReservation, TypeOK
  <1>4. ASSUME NEW q \in Chats, StartProducer(q) PROVE TaskOrReservation'
    BY <1>4, ConstantsAssumption, NobodyAssumption DEF StartProducer, Goto,
       ownerVars, chatVars, prodVars, TaskOrReservation, TypeOK
  <1>5. ASSUME NEW q \in Chats, Receive(q) PROVE TaskOrReservation'
    BY <1>5, ConstantsAssumption, NobodyAssumption DEF Receive, StopConsuming,
       Goto, ownerVars, chatVars, prodVars, TaskOrReservation, TypeOK
  <1>6. ASSUME NEW q \in Chats, LeavePass(q) PROVE TaskOrReservation'
    BY <1>6, ConstantsAssumption, NobodyAssumption DEF LeavePass, LeaveLock,
       EndInner, EndEpoch, GiveUp, CancelFor, AvailableTo, Goto, ownerVars,
       chatVars, prodVars, TaskOrReservation, TypeOK
  <1>7. ASSUME NEW q \in Chats, Disconnect(q) PROVE TaskOrReservation'
    BY <1>7, ConstantsAssumption, NobodyAssumption DEF Disconnect, StopConsuming,
       GiveUp, CancelFor, AvailableTo, Goto, ownerVars, chatVars, prodVars,
       TaskOrReservation, TypeOK
  <1>8. ASSUME NEW q \in Chats, Finish(q) PROVE TaskOrReservation'
    BY <1>8, ConstantsAssumption, NobodyAssumption DEF Finish, EndEpoch, Goto,
       ownerVars, chatVars, prodVars, TaskOrReservation, TypeOK
  <1>9. ASSUME NEW q \in Chats, Drop(q) PROVE TaskOrReservation'
    BY <1>9, ConstantsAssumption, NobodyAssumption DEF Drop, EndEpoch, Goto,
       ownerVars, chatVars, prodVars, TaskOrReservation, TypeOK
  <1>10. ASSUME NEW q \in Chats, CloseDropped(q) PROVE TaskOrReservation'
    BY <1>10, ConstantsAssumption, NobodyAssumption DEF CloseDropped, LeaveLock,
       EndInner, EndEpoch, Goto, ownerVars, chatVars, prodVars, TaskOrReservation,
       TypeOK
  <1>11. ASSUME NEW q \in Chats, TakeLease(q) PROVE TaskOrReservation'
    BY <1>11, ConstantsAssumption, NobodyAssumption DEF TakeLease, ProdRest,
       ownerVars, chatVars, prodVars, TaskOrReservation, TypeOK
  <1>12. ASSUME NEW q \in Chats, Produce(q) PROVE TaskOrReservation'
    BY <1>12, ConstantsAssumption, NobodyAssumption DEF Produce, ShouldStop,
       ProdRest, ownerVars, chatVars, prodVars, TaskOrReservation, TypeOK
  <1>13. ASSUME NEW q \in Chats, Put(q) PROVE TaskOrReservation'
    BY <1>13, ConstantsAssumption, NobodyAssumption DEF Put, Room, ProdRest,
       ownerVars, chatVars, prodVars, TaskOrReservation, TypeOK
  <1>14. ASSUME NEW q \in Chats, EndLease(q) PROVE TaskOrReservation'
    BY <1>14, ConstantsAssumption, NobodyAssumption DEF EndLease, ProdRest,
       ownerVars, chatVars, prodVars, TaskOrReservation, TypeOK
  <1>15. ASSUME NEW q \in Chats, PutMarker(q) PROVE TaskOrReservation'
    BY <1>15, ConstantsAssumption, NobodyAssumption DEF PutMarker, Room,
       ShouldStop, ProdRest, ownerVars, chatVars, prodVars, TaskOrReservation,
       TypeOK
  <1>16. ASSUME NEW q \in Chats, StaleEnds(q) PROVE TaskOrReservation'
    BY <1>16, ConstantsAssumption, NobodyAssumption DEF StaleEnds, ownerVars,
       chatVars, prodVars, TaskOrReservation, TypeOK
  <1>17. ASSUME NEW c \in Cancels, CancelGeneration(c) PROVE TaskOrReservation'
    BY <1>17, ConstantsAssumption, NobodyAssumption DEF CancelGeneration,
       CancelFor, AvailableTo, CancelRest, ownerVars, chatVars, prodVars,
       TaskOrReservation, TypeOK
  <1>18. ASSUME NEW c \in Cancels, CancelAndUnload(c) PROVE TaskOrReservation'
    BY <1>18, ConstantsAssumption, NobodyAssumption DEF CancelAndUnload,
       AvailableTo, CancelRest, ownerVars, chatVars, prodVars, TaskOrReservation,
       TypeOK
  <1>19. CASE TaskBegin
    BY <1>19, ConstantsAssumption, NobodyAssumption DEF TaskBegin, MayRunTask,
       TaskRest, ownerVars, chatVars, prodVars, TaskOrReservation, TypeOK
  <1>20. CASE DownloadCheck
    BY <1>20, ConstantsAssumption, NobodyAssumption DEF DownloadCheck, TaskRest,
       ownerVars, chatVars, prodVars, TaskOrReservation, TypeOK
  <1>21. CASE DownloadBegin
    BY <1>21, ConstantsAssumption, NobodyAssumption DEF DownloadBegin, TaskRest,
       ownerVars, chatVars, prodVars, TaskOrReservation, TypeOK
  <1>22. CASE TaskEnd
    BY <1>22, ConstantsAssumption, NobodyAssumption DEF TaskEnd, TaskRest,
       ownerVars, chatVars, prodVars, TaskOrReservation, TypeOK
  <1>23. ASSUME NEW q \in Chats, FailEarly(q) PROVE TaskOrReservation'
    BY <1>23, ConstantsAssumption, NobodyAssumption DEF FailEarly, Goto,
       ownerVars, prodVars, TaskOrReservation, TypeOK
  <1>24. CASE UNCHANGED vars
    BY <1>24 DEF vars, ownerVars, chatVars, prodVars, TaskOrReservation, TypeOK
  <1> QED
    BY <1>1, <1>2, <1>3, <1>4, <1>5, <1>6, <1>7, <1>8, <1>9, <1>10, <1>11, <1>12,
       <1>13, <1>14, <1>15, <1>16, <1>17, <1>18, <1>19, <1>20, <1>21, <1>22, <1>23, <1>24
       DEF Next, ChatStep, ProducerStep

\* Every action keeps the reservation with a chat that will end it.
LEMMA OwningStep ==
  ASSUME IInv, [Next]_vars
  PROVE  Owning'
  <1> USE DEF IInv
  <1>1. ASSUME NEW q \in Chats, BeginChat(q) PROVE Owning'
    BY <1>1, ConstantsAssumption, NobodyAssumption DEF BeginChat, Reserve,
       MayReserve, Goto, ownerVars, chatVars, prodVars, Owning, Epochs, Distinct,
       InnerOver, DroppedEnded, OwnerIsWorking, TypeOK, Working
  <1>2. ASSUME NEW q \in Chats, BeginPass(q) PROVE Owning'
    BY <1>2, ConstantsAssumption, NobodyAssumption DEF BeginPass, Reserve,
       MayReserve, CancelFor, AvailableTo, Goto, ownerVars, chatVars, prodVars,
       Owning, Epochs, Distinct, InnerOver, DroppedEnded, OwnerIsWorking, TypeOK,
       Working
  <1>3. ASSUME NEW q \in Chats, TakeLocalLock(q) PROVE Owning'
    BY <1>3, ConstantsAssumption, NobodyAssumption DEF TakeLocalLock, Goto,
       ownerVars, chatVars, prodVars, Owning, Epochs, Distinct, InnerOver,
       DroppedEnded, OwnerIsWorking, TypeOK, Working
  <1>4. ASSUME NEW q \in Chats, StartProducer(q) PROVE Owning'
    BY <1>4, ConstantsAssumption, NobodyAssumption DEF StartProducer, Goto,
       ownerVars, chatVars, prodVars, Owning, Epochs, Distinct, InnerOver,
       DroppedEnded, OwnerIsWorking, TypeOK, Working
  <1>5. ASSUME NEW q \in Chats, Receive(q) PROVE Owning'
    BY <1>5, ConstantsAssumption, NobodyAssumption DEF Receive, StopConsuming,
       Goto, ownerVars, chatVars, prodVars, Owning, Epochs, Distinct, InnerOver,
       DroppedEnded, OwnerIsWorking, TypeOK, Working
  <1>6. ASSUME NEW q \in Chats, LeavePass(q) PROVE Owning'
    BY <1>6, ConstantsAssumption, NobodyAssumption DEF LeavePass, LeaveLock,
       EndInner, EndEpoch, GiveUp, CancelFor, AvailableTo, Goto, ownerVars,
       chatVars, prodVars, Owning, Epochs, Distinct, InnerOver, DroppedEnded,
       OwnerIsWorking, TypeOK, Working
  <1>7. ASSUME NEW q \in Chats, Disconnect(q) PROVE Owning'
    BY <1>7, ConstantsAssumption, NobodyAssumption DEF Disconnect, StopConsuming,
       GiveUp, CancelFor, AvailableTo, Goto, ownerVars, chatVars, prodVars, Owning,
       Epochs, Distinct, InnerOver, DroppedEnded, OwnerIsWorking, TypeOK, Working
  <1>8. ASSUME NEW q \in Chats, Finish(q) PROVE Owning'
    BY <1>8, ConstantsAssumption, NobodyAssumption DEF Finish, EndEpoch, Goto,
       ownerVars, chatVars, prodVars, Owning, Epochs, Distinct, InnerOver,
       DroppedEnded, OwnerIsWorking, TypeOK, Working
  <1>9. ASSUME NEW q \in Chats, Drop(q) PROVE Owning'
    BY <1>9, ConstantsAssumption, NobodyAssumption DEF Drop, EndEpoch, Goto,
       ownerVars, chatVars, prodVars, Owning, Epochs, Distinct, InnerOver,
       DroppedEnded, OwnerIsWorking, TypeOK, Working
  <1>10. ASSUME NEW q \in Chats, CloseDropped(q) PROVE Owning'
    <2>1. CASE pc[q] = "dropped"
      <3>1. EndInner(q)
        BY <1>10, <2>1 DEF CloseDropped
      <3>2. ownerEpoch' = ownerEpoch /\ epoch' = epoch /\ owner' \in {owner, Nobody}
        BY <3>1 DEF EndInner, EndEpoch, ownerVars
      <3>3. Epochs' /\ Distinct' /\ InnerOver' /\ DroppedEnded'
        BY <1>10, <2>1, <3>1, <3>2, NobodyAssumption DEF CloseDropped, EndInner,
           Goto,
           Owning, Epochs, Distinct, InnerOver, DroppedEnded, TypeOK, Working
      <3>4. OwnerIsWorking'
        <4> SUFFICES ASSUME owner' # Nobody PROVE OwnerIsWorking'
          BY DEF OwnerIsWorking
        <4>1. owner' = owner /\ (inner[q] = 0 \/ ~(inner[q] = ownerEpoch /\ owner =
           userOf[q]))
          BY <3>1, <3>2 DEF EndInner, EndEpoch
        <4>2. PICK r \in Chats : /\ userOf[r] = owner
                                /\ pc[r] \in Working \union {"lost"}
                                /\ ownerEpoch \in {gen[r], inner[r]}
          BY <4>1 DEF Owning, OwnerIsWorking
        <4>3. r # q
          BY <2>1, <4>1, <4>2 DEF Owning, Epochs, DroppedEnded
        <4> QED
          BY <1>10, <2>1, <3>1, <3>2, <4>1, <4>2, <4>3 DEF CloseDropped, EndInner,
             Goto, OwnerIsWorking, TypeOK, Working
      <3> QED
        BY <3>3, <3>4 DEF Owning
    <2>2. CASE pc[q] = "closed"
      BY <1>10, <2>2, ConstantsAssumption, NobodyAssumption DEF CloseDropped, Goto,
         ownerVars, Owning, Epochs, Distinct, InnerOver, DroppedEnded,
         OwnerIsWorking, TypeOK, Working
    <2> QED
      BY <1>10, <2>1, <2>2 DEF CloseDropped
  <1>11. ASSUME NEW q \in Chats, TakeLease(q) PROVE Owning'
    BY <1>11, ConstantsAssumption, NobodyAssumption DEF TakeLease, ProdRest,
       ownerVars, chatVars, prodVars, Owning, Epochs, Distinct, InnerOver,
       DroppedEnded, OwnerIsWorking, TypeOK, Working
  <1>12. ASSUME NEW q \in Chats, Produce(q) PROVE Owning'
    BY <1>12, ConstantsAssumption, NobodyAssumption DEF Produce, ShouldStop,
       ProdRest, ownerVars, chatVars, prodVars, Owning, Epochs, Distinct,
       InnerOver, DroppedEnded, OwnerIsWorking, TypeOK, Working
  <1>13. ASSUME NEW q \in Chats, Put(q) PROVE Owning'
    BY <1>13, ConstantsAssumption, NobodyAssumption DEF Put, Room, ProdRest,
       ownerVars, chatVars, prodVars, Owning, Epochs, Distinct, InnerOver,
       DroppedEnded, OwnerIsWorking, TypeOK, Working
  <1>14. ASSUME NEW q \in Chats, EndLease(q) PROVE Owning'
    BY <1>14, ConstantsAssumption, NobodyAssumption DEF EndLease, ProdRest,
       ownerVars, chatVars, prodVars, Owning, Epochs, Distinct, InnerOver,
       DroppedEnded, OwnerIsWorking, TypeOK, Working
  <1>15. ASSUME NEW q \in Chats, PutMarker(q) PROVE Owning'
    BY <1>15, ConstantsAssumption, NobodyAssumption DEF PutMarker, Room,
       ShouldStop, ProdRest, ownerVars, chatVars, prodVars, Owning, Epochs,
       Distinct, InnerOver, DroppedEnded, OwnerIsWorking, TypeOK, Working
  <1>16. ASSUME NEW q \in Chats, StaleEnds(q) PROVE Owning'
    BY <1>16, ConstantsAssumption, NobodyAssumption DEF StaleEnds, ownerVars,
       chatVars, prodVars, Owning, Epochs, Distinct, InnerOver, DroppedEnded,
       OwnerIsWorking, TypeOK, Working
  <1>17. ASSUME NEW c \in Cancels, CancelGeneration(c) PROVE Owning'
    BY <1>17, ConstantsAssumption, NobodyAssumption DEF CancelGeneration,
       CancelFor, AvailableTo, CancelRest, ownerVars, chatVars, prodVars, Owning,
       Epochs, Distinct, InnerOver, DroppedEnded, OwnerIsWorking, TypeOK, Working
  <1>18. ASSUME NEW c \in Cancels, CancelAndUnload(c) PROVE Owning'
    BY <1>18, ConstantsAssumption, NobodyAssumption DEF CancelAndUnload,
       AvailableTo, CancelRest, ownerVars, chatVars, prodVars, Owning, Epochs,
       Distinct, InnerOver, DroppedEnded, OwnerIsWorking, TypeOK, Working
  <1>19. CASE TaskBegin
    BY <1>19, ConstantsAssumption, NobodyAssumption DEF TaskBegin, MayRunTask,
       TaskRest, ownerVars, chatVars, prodVars, Owning, Epochs, Distinct,
       InnerOver, DroppedEnded, OwnerIsWorking, TypeOK, Working
  <1>20. CASE DownloadCheck
    BY <1>20, ConstantsAssumption, NobodyAssumption DEF DownloadCheck, TaskRest,
       ownerVars, chatVars, prodVars, Owning, Epochs, Distinct, InnerOver,
       DroppedEnded, OwnerIsWorking, TypeOK, Working
  <1>21. CASE DownloadBegin
    BY <1>21, ConstantsAssumption, NobodyAssumption DEF DownloadBegin, TaskRest,
       ownerVars, chatVars, prodVars, Owning, Epochs, Distinct, InnerOver,
       DroppedEnded, OwnerIsWorking, TypeOK, Working
  <1>22. CASE TaskEnd
    BY <1>22, ConstantsAssumption, NobodyAssumption DEF TaskEnd, TaskRest,
       ownerVars, chatVars, prodVars, Owning, Epochs, Distinct, InnerOver,
       DroppedEnded, OwnerIsWorking, TypeOK, Working
  <1>23. ASSUME NEW q \in Chats, FailEarly(q) PROVE Owning'
    BY <1>23, ConstantsAssumption, NobodyAssumption DEF FailEarly, Goto,
       ownerVars, prodVars, Owning, Epochs, Distinct,
       InnerOver, DroppedEnded, OwnerIsWorking, TypeOK, Working
  <1>24. CASE UNCHANGED vars
    BY <1>24 DEF vars, ownerVars, chatVars, prodVars, Owning, Epochs, Distinct,
       InnerOver, DroppedEnded, OwnerIsWorking, TypeOK, Working
  <1> QED
    BY <1>1, <1>2, <1>3, <1>4, <1>5, <1>6, <1>7, <1>8, <1>9, <1>10, <1>11, <1>12,
       <1>13, <1>14, <1>15, <1>16, <1>17, <1>18, <1>19, <1>20, <1>21, <1>22, <1>23, <1>24
       DEF Next, ChatStep, ProducerStep

\* Every action keeps the local lock with the pass whose producer runs.
LEMMA ProducingStep ==
  ASSUME IInv, [Next]_vars
  PROVE  Producing'
  <1> USE DEF IInv
  <1>1. ASSUME NEW q \in Chats, BeginChat(q) PROVE Producing'
    BY <1>1, ConstantsAssumption, NobodyAssumption DEF BeginChat, Reserve,
       MayReserve, Goto, ownerVars, chatVars, prodVars, Producing, LockHeld,
       LiveConsumes, TypeOK
  <1>2. ASSUME NEW q \in Chats, BeginPass(q) PROVE Producing'
    BY <1>2, ConstantsAssumption, NobodyAssumption DEF BeginPass, Reserve,
       MayReserve, CancelFor, AvailableTo, Goto, ownerVars, chatVars, prodVars,
       Producing, LockHeld, LiveConsumes, TypeOK
  <1>3. ASSUME NEW q \in Chats, TakeLocalLock(q) PROVE Producing'
    BY <1>3, ConstantsAssumption, NobodyAssumption DEF TakeLocalLock, Goto,
       ownerVars, chatVars, prodVars, Producing, LockHeld, LiveConsumes, TypeOK
  <1>4. ASSUME NEW q \in Chats, StartProducer(q) PROVE Producing'
    BY <1>4, ConstantsAssumption, NobodyAssumption DEF StartProducer, Goto,
       ownerVars, chatVars, prodVars, Producing, LockHeld, LiveConsumes, TypeOK
  <1>5. ASSUME NEW q \in Chats, Receive(q) PROVE Producing'
    BY <1>5, ConstantsAssumption, NobodyAssumption DEF Receive, StopConsuming,
       Goto, ownerVars, chatVars, prodVars, Producing, LockHeld, LiveConsumes,
       TypeOK
  <1>6. ASSUME NEW q \in Chats, LeavePass(q) PROVE Producing'
    BY <1>6, ConstantsAssumption, NobodyAssumption DEF LeavePass, LeaveLock,
       EndInner, EndEpoch, GiveUp, CancelFor, AvailableTo, Goto, ownerVars,
       chatVars, prodVars, Producing, LockHeld, LiveConsumes, TypeOK
  <1>7. ASSUME NEW q \in Chats, Disconnect(q) PROVE Producing'
    BY <1>7, ConstantsAssumption, NobodyAssumption DEF Disconnect, StopConsuming,
       GiveUp, CancelFor, AvailableTo, Goto, ownerVars, chatVars, prodVars,
       Producing, LockHeld, LiveConsumes, TypeOK
  <1>8. ASSUME NEW q \in Chats, Finish(q) PROVE Producing'
    BY <1>8, ConstantsAssumption, NobodyAssumption DEF Finish, EndEpoch, Goto,
       ownerVars, chatVars, prodVars, Producing, LockHeld, LiveConsumes, TypeOK
  <1>9. ASSUME NEW q \in Chats, Drop(q) PROVE Producing'
    BY <1>9, ConstantsAssumption, NobodyAssumption DEF Drop, EndEpoch, Goto,
       ownerVars, chatVars, prodVars, Producing, LockHeld, LiveConsumes, TypeOK
  <1>10. ASSUME NEW q \in Chats, CloseDropped(q) PROVE Producing'
    BY <1>10, ConstantsAssumption, NobodyAssumption DEF CloseDropped, LeaveLock,
       EndInner, EndEpoch, Goto, ownerVars, chatVars, prodVars, Producing,
       LockHeld, LiveConsumes, TypeOK
  <1>11. ASSUME NEW q \in Chats, TakeLease(q) PROVE Producing'
    BY <1>11, ConstantsAssumption, NobodyAssumption DEF TakeLease, ProdRest,
       ownerVars, chatVars, prodVars, Producing, LockHeld, LiveConsumes, TypeOK
  <1>12. ASSUME NEW q \in Chats, Produce(q) PROVE Producing'
    BY <1>12, ConstantsAssumption, NobodyAssumption DEF Produce, ShouldStop,
       ProdRest, ownerVars, chatVars, prodVars, Producing, LockHeld, LiveConsumes,
       TypeOK
  <1>13. ASSUME NEW q \in Chats, Put(q) PROVE Producing'
    BY <1>13, ConstantsAssumption, NobodyAssumption DEF Put, Room, ProdRest,
       ownerVars, chatVars, prodVars, Producing, LockHeld, LiveConsumes, TypeOK
  <1>14. ASSUME NEW q \in Chats, EndLease(q) PROVE Producing'
    BY <1>14, ConstantsAssumption, NobodyAssumption DEF EndLease, ProdRest,
       ownerVars, chatVars, prodVars, Producing, LockHeld, LiveConsumes, TypeOK
  <1>15. ASSUME NEW q \in Chats, PutMarker(q) PROVE Producing'
    BY <1>15, ConstantsAssumption, NobodyAssumption DEF PutMarker, Room,
       ShouldStop, ProdRest, ownerVars, chatVars, prodVars, Producing, LockHeld,
       LiveConsumes, TypeOK
  <1>16. ASSUME NEW q \in Chats, StaleEnds(q) PROVE Producing'
    BY <1>16, ConstantsAssumption, NobodyAssumption DEF StaleEnds, ownerVars,
       chatVars, prodVars, Producing, LockHeld, LiveConsumes, TypeOK
  <1>17. ASSUME NEW c \in Cancels, CancelGeneration(c) PROVE Producing'
    BY <1>17, ConstantsAssumption, NobodyAssumption DEF CancelGeneration,
       CancelFor, AvailableTo, CancelRest, ownerVars, chatVars, prodVars,
       Producing, LockHeld, LiveConsumes, TypeOK
  <1>18. ASSUME NEW c \in Cancels, CancelAndUnload(c) PROVE Producing'
    BY <1>18, ConstantsAssumption, NobodyAssumption DEF CancelAndUnload,
       AvailableTo, CancelRest, ownerVars, chatVars, prodVars, Producing, LockHeld,
       LiveConsumes, TypeOK
  <1>19. CASE TaskBegin
    BY <1>19, ConstantsAssumption, NobodyAssumption DEF TaskBegin, MayRunTask,
       TaskRest, ownerVars, chatVars, prodVars, Producing, LockHeld, LiveConsumes,
       TypeOK
  <1>20. CASE DownloadCheck
    BY <1>20, ConstantsAssumption, NobodyAssumption DEF DownloadCheck, TaskRest,
       ownerVars, chatVars, prodVars, Producing, LockHeld, LiveConsumes, TypeOK
  <1>21. CASE DownloadBegin
    BY <1>21, ConstantsAssumption, NobodyAssumption DEF DownloadBegin, TaskRest,
       ownerVars, chatVars, prodVars, Producing, LockHeld, LiveConsumes, TypeOK
  <1>22. CASE TaskEnd
    BY <1>22, ConstantsAssumption, NobodyAssumption DEF TaskEnd, TaskRest,
       ownerVars, chatVars, prodVars, Producing, LockHeld, LiveConsumes, TypeOK
  <1>23. ASSUME NEW q \in Chats, FailEarly(q) PROVE Producing'
    BY <1>23, ConstantsAssumption, NobodyAssumption DEF FailEarly, Goto,
       ownerVars, prodVars, Producing, LockHeld,
       LiveConsumes, TypeOK
  <1>24. CASE UNCHANGED vars
    BY <1>24 DEF vars, ownerVars, chatVars, prodVars, Producing, LockHeld,
       LiveConsumes, TypeOK
  <1> QED
    BY <1>1, <1>2, <1>3, <1>4, <1>5, <1>6, <1>7, <1>8, <1>9, <1>10, <1>11, <1>12,
       <1>13, <1>14, <1>15, <1>16, <1>17, <1>18, <1>19, <1>20, <1>21, <1>22, <1>23, <1>24
       DEF Next, ChatStep, ProducerStep

\* The invariant holds in every reachable state.
LEMMA Inductive == Spec => []IInv
  <1>1. IInv /\ [Next]_vars => IInv'
    BY TypeStep, ExclusionStep, OwningStep, ProducingStep DEF IInv
  <1> QED
    BY <1>1, InitInv, PTL DEF Spec

-----------------------------------------------------------------------------
(* The theorems.                                                           *)

\* Every variable keeps its type, and the queue of a bridge its size.
THEOREM TypeCorrect == Spec => []TypeOK
  BY Inductive, PTL DEF IInv

\* A GPU job and a reservation never exist together.
THEOREM ChatExcludesJobs == Spec => []TaskOrReservation
  BY Inductive, PTL DEF IInv

\* A reservation belongs to a chat of its user that works, or to one that was lost
\* before the try of its route.
THEOREM OwnerWorks == Spec => []OwnerIsWorking
  BY Inductive, PTL DEF IInv, Owning

\* Of two producers that have a lease one is told to stop or is being closed.
THEOREM OneLive == Spec => []OneLiveProducer
  <1>1. IInv => OneLiveProducer
    BY DEF IInv, Producing, LockHeld, LiveConsumes, OneLiveProducer, Leased
  <1> QED
    BY <1>1, Inductive, PTL

\* A chat that is complete, dropped or goes on keeps the reservations of all other
\* chats; one that ends by an error or a disconnect those of other users.
THEOREM FinishKeeps == Spec => FinishKeepsOthers
  <1>1. ASSUME IInv, NEW p \in Chats, NEW q \in Chats, p # q,
               ownerEpoch \in {gen[p], inner[p]},
               \/ Finish(q) \/ Drop(q) \/ CloseDropped(q)
               \/ LeavePass(q) /\ leave[q] = "ok"
        PROVE  owner' = owner
    <2> USE <1>1, NobodyAssumption DEF IInv, Owning, Epochs, TypeOK
    <2>1. /\ owner = Nobody \/ ownerEpoch > 0
          /\ ownerEpoch > 0 => ownerEpoch # gen[q] /\ ownerEpoch # inner[q]
          /\ owner = Nobody => owner # userOf[q]
      BY DEF Distinct
    <2>2. EndEpoch(userOf[q], gen[q]) \/ EndInner(q) \/ UNCHANGED owner
      BY DEF Finish, Drop, CloseDropped, LeavePass, ownerVars
    <2> QED
      BY <2>1, <2>2 DEF EndEpoch, EndInner, ownerVars
  <1>2. ASSUME NEW q \in Chats, owner \notin {Nobody, userOf[q]},
               ChatStep(q) \/ Drop(q) \/ Disconnect(q)
        PROVE  owner' = owner
    <2> USE <1>2 DEF ownerVars
    <2>1. CASE BeginPass(q) \/ LeavePass(q) \/ Disconnect(q)
      BY <2>1 DEF BeginPass, MayReserve, LeavePass, Disconnect, GiveUp, EndInner, EndEpoch,
                  CancelFor, AvailableTo
    <2>2. CASE Finish(q) \/ Drop(q) \/ CloseDropped(q)
      BY <2>2 DEF Finish, Drop, CloseDropped, EndInner, EndEpoch
    <2>3. CASE TakeLocalLock(q) \/ StartProducer(q) \/ Receive(q)
      BY <2>3 DEF TakeLocalLock, StartProducer, Receive
    <2> QED
      BY <2>1, <2>2, <2>3 DEF ChatStep
  <1> DEFINE Keeps(q) ==
               /\ \A p \in Chats :
                    /\ p # q /\ ownerEpoch \in {gen[p], inner[p]}
                    /\ \/ Finish(q) \/ Drop(q) \/ CloseDropped(q)
                       \/ LeavePass(q) /\ leave[q] = "ok"
                    => owner' = owner
               /\ /\ owner \notin {Nobody, userOf[q]}
                  /\ ChatStep(q) \/ Drop(q) \/ Disconnect(q)
                  => owner' = owner
  <1>3. IInv /\ [Next]_vars => [\A q \in Chats : Keeps(q)]_vars
    <2>1. ASSUME IInv, NEW q \in Chats PROVE Keeps(q)
      BY <1>1, <1>2, <2>1
    <2> QED
      BY <2>1
  <1> QED
    BY <1>3, Inductive, PTL DEF Spec, FinishKeepsOthers

-----------------------------------------------------------------------------
(* Nobody waits alone.                                                     *)

Running == {"spawned", "leased", "putting", "ending"}

\* A stream that waits for an update has a producer that goes on, or the marker
\* is behind the updates in its queue.
Fed ==
  \A q \in Chats : pc[q] = "consume" => prod[q] \in Running \/ marker[q] # "none"

\* A producer that may find its queue full has a consumer that reads or will
\* tell it to stop, or has been told.
Drained ==
  \A q \in Chats : prod[q] \in Running =>
    stopped[q] \/ pc[q] \in {"consume", "dropped", "closed"}

\* The local lock belongs to a pass on its way to give it back: not to a chat
\* that is over, nor to one that waits for the lock.
LockPasses ==
  localLock # Nobody => pc[localLock] \in {"prepare", "consume", "stop", "dropped"}

PartnersStay == Fed /\ Drained /\ LockPasses

\* A pass reads until it leaves, and is then marked as stopped or closed.
ReadsUnstopped == \A q \in Chats : pc[q] = "consume" => ~stopped[q]

PartnersInv == IInv /\ ReadsUnstopped /\ PartnersStay

\* What these formulas look at.
Partners == <<pc, prod, marker, stopped, localLock>>

\* Steps that touch none of them.
LEMMA PartnersKept ==
  ASSUME ReadsUnstopped, PartnersStay, UNCHANGED Partners
  PROVE  ReadsUnstopped' /\ PartnersStay'
  BY DEF Partners, ReadsUnstopped, PartnersStay, Fed, Drained, LockPasses

\* Every action of a chat keeps the partners of all chats.
LEMMA PartnersOfChat ==
  ASSUME PartnersInv, NEW q \in Chats,
         BeginChat(q) \/ FailEarly(q) \/ Disconnect(q) \/ Drop(q) \/ ChatStep(q)
  PROVE  ReadsUnstopped' /\ PartnersStay'
  <1> USE NobodyAssumption DEF PartnersInv, IInv, Producing, LockHeld, TypeOK,
     ReadsUnstopped, PartnersStay, Fed, Drained, LockPasses, Running, Working, Goto
  <1>1. CASE BeginChat(q)
    BY <1>1 DEF BeginChat, prodVars
  <1>2. CASE BeginPass(q)
    BY <1>2 DEF BeginPass, prodVars
  <1>3. CASE TakeLocalLock(q)
    BY <1>3 DEF TakeLocalLock, prodVars
  <1>4. CASE StartProducer(q)
    BY <1>4 DEF StartProducer
  <1>5. CASE Receive(q)
    <2>1. CASE UNCHANGED <<leave, stopped, pc>>
      BY <1>5, <2>1 DEF Receive
    <2>2. ASSUME NEW how, StopConsuming(q, how)
          PROVE  ReadsUnstopped' /\ PartnersStay'
      BY <1>5, <2>2 DEF Receive, StopConsuming
    <2> QED
      BY <1>5, <2>1, <2>2 DEF Receive
  <1>6. CASE LeavePass(q)
    BY <1>6 DEF LeavePass, LeaveLock, GiveUp, prodVars
  <1>7. CASE Disconnect(q)
    <2>1. CASE pc[q] \in {"consume", "stop"} /\ StopConsuming(q, "gone")
      BY <1>7, <2>1 DEF Disconnect, StopConsuming
    <2>2. CASE pc[q] \in {"lock", "prepare", "pass"} /\ GiveUp(q)
      BY <1>7, <2>2 DEF Disconnect, GiveUp
    <2> QED
      BY <1>7, <2>1, <2>2 DEF Disconnect
  <1>8. CASE Finish(q)
    BY <1>8 DEF Finish, prodVars
  <1>9. CASE Drop(q)
    BY <1>9 DEF Drop, prodVars
  <1>10. CASE CloseDropped(q)
    BY <1>10 DEF CloseDropped, LeaveLock
  <1>11. CASE FailEarly(q)
    BY <1>11 DEF FailEarly, prodVars
  <1> QED
    BY <1>1, <1>2, <1>3, <1>4, <1>5, <1>6, <1>7, <1>8, <1>9, <1>10, <1>11 DEF ChatStep

\* Every action of a producer does so: it ends with the marker, or was stopped.
LEMMA PartnersOfProducer ==
  ASSUME PartnersInv, NEW q \in Chats, ProducerStep(q)
  PROVE  ReadsUnstopped' /\ PartnersStay'
  <1> USE DEF PartnersInv, IInv, TypeOK, ReadsUnstopped, PartnersStay, Fed, Drained,
     LockPasses, Running, ProdRest, chatVars
  <1>1. CASE TakeLease(q)
    BY <1>1 DEF TakeLease
  <1>2. CASE Produce(q)
    BY <1>2 DEF Produce
  <1>3. CASE Put(q)
    BY <1>3 DEF Put
  <1>4. CASE EndLease(q)
    BY <1>4 DEF EndLease
  <1>5. CASE PutMarker(q)
    BY <1>5 DEF PutMarker
  <1> QED
    BY <1>1, <1>2, <1>3, <1>4, <1>5 DEF ProducerStep

\* Every step keeps the partners of all chats.
LEMMA PartnersStep ==
  ASSUME PartnersInv, [Next]_vars
  PROVE  ReadsUnstopped' /\ PartnersStay'
  <1> USE DEF PartnersInv, Partners, chatVars, prodVars
  <1>1. ASSUME NEW q \in Chats, StaleEnds(q) PROVE UNCHANGED Partners
    BY <1>1 DEF StaleEnds
  <1>2. ASSUME NEW c \in Cancels, CancelGeneration(c) \/ CancelAndUnload(c)
        PROVE  UNCHANGED Partners
    BY <1>2 DEF CancelGeneration, CancelAndUnload, CancelRest
  <1>3. CASE TaskBegin \/ DownloadCheck \/ DownloadBegin \/ TaskEnd
    BY <1>3, PartnersKept DEF TaskBegin, DownloadCheck, DownloadBegin, TaskEnd, TaskRest
  <1>4. CASE UNCHANGED vars
    BY <1>4, PartnersKept DEF vars
  <1> QED
    BY <1>1, <1>2, <1>3, <1>4, PartnersKept, PartnersOfChat, PartnersOfProducer
       DEF Next

\* Nobody waits for a partner that is gone (ChatEnds and LeaseEnds could not hold
\* otherwise): a stream has a producer or its marker, a producer a reader or the
\* word to stop, and the local lock an owner that goes on, whatever is cancelled,
\* disconnected or dropped in between.
THEOREM NobodyIsLeft == Spec => []PartnersStay
<1>1. Init => PartnersInv
  BY InitInv, NobodyAssumption
     DEF Init, PartnersInv, ReadsUnstopped, PartnersStay, Fed, Drained, LockPasses, Running
<1>2. PartnersInv /\ [Next]_vars => PartnersInv'
  BY PartnersStep, TypeStep, ExclusionStep, OwningStep, ProducingStep DEF PartnersInv, IInv
<1>3. PartnersInv => PartnersStay
  BY DEF PartnersInv
<1> QED
  BY <1>1, <1>2, <1>3, PTL DEF Spec

=============================================================================
