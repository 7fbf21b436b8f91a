------------------------ MODULE WorkerRuntimeProofs -------------------------
(* Theorems about WorkerRuntime, for every finite set of handlers, every   *)
(* assignment of request ids to them and every slot count.                 *)
EXTENDS WorkerRuntime, FiniteSetTheorems, TLAPS

(* A canceller past its lookup has a handler; a completed handler has left *)
(* the table, and left its generation ended when it is a unary one.        *)
CancelInv ==
  /\ \A c \in Canceller :
       /\ cancel[c] \in {"found", "waiting", "acked"} => target[c] \in Handler
       /\ cancel[c] = "acked" => target[c] \in completed
  /\ \A h \in completed : pc[h] \in {"unlisted", "finished"}
  /\ \A h \in Handler \ Streaming :
       pc[h] \in {"ending", "unlisted", "finished"} => job[h] = "ended"

IndInv ==
  TypeOK /\ CounterCounts /\ CapacityRespected /\ ServingOwnsControl /\ CancelInv

-----------------------------------------------------------------------------
(* Moving one handler changes the set of slot holders by at most it.       *)

LEMMA HoldersFinite == IsFiniteSet(Holders) /\ Cardinality(Holders) \in Nat
BY WorkerAssumption, FS_Subset, FS_CardinalityType DEF Holders

LEMMA HoldersKept ==
  ASSUME TypeOK, NEW h \in Handler, NEW to, pc' = [pc EXCEPT ![h] = to],
         pc[h] \in HoldingPc <=> to \in HoldingPc
  PROVE  Holders' = Holders
BY DEF TypeOK, Holders

LEMMA HolderAdded ==
  ASSUME TypeOK, NEW h \in Handler, NEW to, pc' = [pc EXCEPT ![h] = to],
         pc[h] \notin HoldingPc, to \in HoldingPc
  PROVE  /\ h \notin Holders /\ Holders' = Holders \cup {h}
         /\ Cardinality(Holders') = Cardinality(Holders) + 1
<1>1. h \notin Holders /\ Holders' = Holders \cup {h}
  BY DEF TypeOK, Holders
<1>2. QED
  BY <1>1, HoldersFinite, FS_AddElement

LEMMA HolderRemoved ==
  ASSUME TypeOK, NEW h \in Handler, NEW to, pc' = [pc EXCEPT ![h] = to],
         pc[h] \in HoldingPc, to \notin HoldingPc
  PROVE  /\ h \in Holders /\ Holders' = Holders \ {h}
         /\ Cardinality(Holders) # 0
         /\ Cardinality(Holders') = Cardinality(Holders) - 1
<1>1. h \in Holders /\ Holders' = Holders \ {h}
  BY DEF TypeOK, Holders
<1>2. QED
  BY <1>1, HoldersFinite, FS_RemoveElement, FS_EmptySet

-----------------------------------------------------------------------------

LEMMA InitInv == Init => IndInv
<1> SUFFICES ASSUME Init PROVE IndInv
  OBVIOUS
<1>1. Holders = {}
  BY DEF Init, Holders, HoldingPc
<1>2. CounterCounts
  BY <1>1, FS_EmptySet DEF Init, CounterCounts
<1>3. TypeOK /\ CapacityRespected /\ ServingOwnsControl /\ CancelInv
  <2>1. TypeOK
    BY DEF Init, TypeOK, HandlerPc
  <2>2. CapacityRespected
    BY WorkerAssumption DEF Init, CapacityRespected
  <2>3. ServingOwnsControl /\ CancelInv
    BY DEF Init, ServingOwnsControl, CancelInv
  <2>4. QED
    BY <2>1, <2>2, <2>3
<1>4. QED
  BY <1>2, <1>3 DEF IndInv

-----------------------------------------------------------------------------
(* The counter and the slots.                                              *)

SlotInv == CounterCounts /\ CapacityRespected

LEMMA HandlerSlots ==
  ASSUME IndInv, NEW h \in Handler,
         TryReserve(h) \/ BeginRequest(h) \/ Generate(h) \/ FinishRequest(h) \/ Disconnect(h)
  PROVE  SlotInv' /\ active' \in Nat
<1> USE DEF IndInv
<1>i. TypeOK /\ SlotInv /\ active \in Nat /\ MaxRequests \in Nat
  BY WorkerAssumption DEF SlotInv, TypeOK
<1>1. CASE CheckDraining(h)
  <2>1. Holders' = Holders
    BY <1>1, <1>i, HoldersKept DEF CheckDraining, Goto, HoldingPc
  <2>2. QED
    BY <1>1, <1>i, <2>1 DEF CheckDraining, SlotInv, CounterCounts, CapacityRespected
<1>2. CASE LoadActive(h)
  <2>1. Holders' = Holders
    BY <1>2, <1>i, HoldersKept DEF LoadActive, Goto, HoldingPc
  <2>2. QED
    BY <1>2, <1>i, <2>1 DEF LoadActive, SlotInv, CounterCounts, CapacityRespected
<1>3. CASE RejectAtCapacity(h)
  <2>1. Holders' = Holders
    BY <1>3, <1>i, HoldersKept DEF RejectAtCapacity, Goto, HoldingPc
  <2>2. QED
    BY <1>3, <1>i, <2>1 DEF RejectAtCapacity, SlotInv, CounterCounts, CapacityRespected
<1>4. CASE Reserve(h)
  <2>1. Cardinality(Holders') = Cardinality(Holders) + 1
    BY <1>4, <1>i, HolderAdded DEF Reserve, Goto, HoldingPc
  <2>2. active < MaxRequests /\ active' = active + 1
    BY <1>4 DEF Reserve
  <2>3. QED
    BY <1>i, <2>1, <2>2 DEF SlotInv, CounterCounts, CapacityRespected
<1>5. CASE RetryReserve(h)
  BY <1>5, <1>i DEF RetryReserve, slotVars, SlotInv, CounterCounts, CapacityRespected, Holders
<1>6. CASE Begin(h)
  <2>1. Holders' = Holders
    BY <1>6, <1>i, HoldersKept DEF Begin, Goto, HoldingPc
  <2>2. QED
    BY <1>6, <1>i, <2>1 DEF Begin, SlotInv, CounterCounts, CapacityRespected
<1>7. CASE RefuseDuplicate(h)
  <2>1. Holders' = Holders
    BY <1>7, <1>i, HoldersKept DEF RefuseDuplicate, Goto, HoldingPc
  <2>2. QED
    BY <1>7, <1>i, <2>1 DEF RefuseDuplicate, SlotInv, CounterCounts, CapacityRespected
<1>8. CASE ReleaseUnstarted(h)
  <2>1. Cardinality(Holders) # 0 /\ Cardinality(Holders') = Cardinality(Holders) - 1
    BY <1>8, <1>i, HolderRemoved DEF ReleaseUnstarted, Goto, HoldingPc
  <2>2. active' = active - 1
    BY <1>8 DEF ReleaseUnstarted
  <2>3. QED
    BY <1>i, <2>1, <2>2 DEF SlotInv, CounterCounts, CapacityRespected
<1>9. CASE SubmitJob(h)
  BY <1>9, <1>i DEF SubmitJob, slotVars, SlotInv, CounterCounts, CapacityRespected, Holders
<1>10. CASE JobEnds(h)
  BY <1>10, <1>i DEF JobEnds, slotVars, SlotInv, CounterCounts, CapacityRespected, Holders
<1>11. CASE StreamBreaks(h)
  <2>1. Holders' = Holders
    BY <1>11, <1>i, HoldersKept DEF StreamBreaks, Goto, HoldingPc
  <2>2. QED
    BY <1>11, <1>i, <2>1 DEF StreamBreaks, SlotInv, CounterCounts, CapacityRespected
<1>12. CASE GenerationReturns(h)
  <2>1. Holders' = Holders
    BY <1>12, <1>i, HoldersKept DEF GenerationReturns, Goto, HoldingPc
  <2>2. QED
    BY <1>12, <1>i, <2>1 DEF GenerationReturns, SlotInv, CounterCounts, CapacityRespected
<1>13. CASE Unlist(h)
  <2>1. Holders' = Holders
    BY <1>13, <1>i, HoldersKept DEF Unlist, Goto, HoldingPc
  <2>2. QED
    BY <1>13, <1>i, <2>1 DEF Unlist, SlotInv, CounterCounts, CapacityRespected
<1>14. CASE ReleaseSlot(h)
  <2>1. Cardinality(Holders) # 0 /\ Cardinality(Holders') = Cardinality(Holders) - 1
    BY <1>14, <1>i, HolderRemoved DEF ReleaseSlot, Goto, HoldingPc
  <2>2. active' = active - 1
    BY <1>14 DEF ReleaseSlot
  <2>3. QED
    BY <1>i, <2>1, <2>2 DEF SlotInv, CounterCounts, CapacityRespected
<1>15. CASE PeerLeaves(h)
  BY <1>15, <1>i DEF PeerLeaves, slotVars, SlotInv, CounterCounts, CapacityRespected, Holders
<1>15a. CASE PeerStalls(h)
  BY <1>15a, <1>i DEF PeerStalls, slotVars, SlotInv, CounterCounts, CapacityRespected, Holders
<1>16. CASE DropHandler(h)
  <2>1. Holders' = Holders
    BY <1>16, <1>i, HoldersKept DEF DropHandler, Goto, HoldingPc
  <2>2. QED
    BY <1>16, <1>i, <2>1 DEF DropHandler, SlotInv, CounterCounts, CapacityRespected
<1>17. QED
  BY <1>1, <1>2, <1>3, <1>4, <1>5, <1>6, <1>7, <1>8,
     <1>9, <1>10, <1>11, <1>12, <1>13, <1>14, <1>15, <1>15a, <1>16
     DEF TryReserve, BeginRequest, Generate, FinishRequest, Disconnect

-----------------------------------------------------------------------------
(* Types.                                                                  *)

LEMMA HandlerTyped ==
  ASSUME IndInv, NEW h \in Handler,
         TryReserve(h) \/ BeginRequest(h) \/ Generate(h) \/ FinishRequest(h) \/ Disconnect(h)
  PROVE  TypeOK'
<1>i. active' \in Nat
  BY HandlerSlots
<1>t. TypeOK
  BY DEF IndInv
<1>1. CASE CheckDraining(h)
  BY <1>1, <1>i, <1>t DEF CheckDraining, Goto, TypeOK, HandlerPc, slotVars, controlVars,
     cancelVars, peerVars
<1>2. CASE LoadActive(h)
  BY <1>2, <1>i, <1>t DEF LoadActive, Goto, TypeOK, HandlerPc, slotVars, controlVars, cancelVars,
     peerVars
<1>3. CASE RejectAtCapacity(h)
  BY <1>3, <1>i, <1>t DEF RejectAtCapacity, Goto, TypeOK, HandlerPc, slotVars, controlVars,
     cancelVars, peerVars
<1>4. CASE Reserve(h)
  BY <1>4, <1>i, <1>t DEF Reserve, Goto, TypeOK, HandlerPc, slotVars, controlVars, cancelVars,
     peerVars
<1>5. CASE RetryReserve(h)
  BY <1>5, <1>i, <1>t DEF RetryReserve, Goto, TypeOK, HandlerPc, slotVars, controlVars,
     cancelVars, peerVars
<1>6. CASE Begin(h)
  BY <1>6, <1>i, <1>t DEF Begin, Goto, TypeOK, HandlerPc, slotVars, controlVars, cancelVars,
     peerVars
<1>7. CASE RefuseDuplicate(h)
  BY <1>7, <1>i, <1>t DEF RefuseDuplicate, Goto, TypeOK, HandlerPc, slotVars, controlVars,
     cancelVars, peerVars
<1>8. CASE ReleaseUnstarted(h)
  BY <1>8, <1>i, <1>t DEF ReleaseUnstarted, Goto, TypeOK, HandlerPc, slotVars, controlVars,
     cancelVars, peerVars
<1>9. CASE SubmitJob(h)
  BY <1>9, <1>i, <1>t DEF SubmitJob, Goto, TypeOK, HandlerPc, slotVars, controlVars, cancelVars,
     peerVars
<1>10. CASE JobEnds(h)
  BY <1>10, <1>i, <1>t DEF JobEnds, Goto, TypeOK, HandlerPc, slotVars, controlVars, cancelVars,
     peerVars
<1>11. CASE StreamBreaks(h)
  BY <1>11, <1>i, <1>t DEF StreamBreaks, Goto, TypeOK, HandlerPc, slotVars, controlVars,
     cancelVars, peerVars
<1>12. CASE GenerationReturns(h)
  BY <1>12, <1>i, <1>t DEF GenerationReturns, Goto, TypeOK, HandlerPc, slotVars, controlVars,
     cancelVars, peerVars
<1>13. CASE Unlist(h)
  <2>1. completed' \subseteq Handler
    BY <1>13, <1>t, WorkerAssumption DEF Unlist, TypeOK
  <2>2. /\ pc' \in [Handler -> HandlerPc]
        /\ controls' \in [RequestId -> Handler \cup {NoHandler}]
    BY <1>13, <1>t DEF Unlist, Goto, TypeOK, HandlerPc
  <2>3. QED
    BY <1>13, <1>i, <1>t, <2>1, <2>2 DEF Unlist, TypeOK, cancelVars, peerVars
<1>14. CASE ReleaseSlot(h)
  BY <1>14, <1>i, <1>t DEF ReleaseSlot, Goto, TypeOK, HandlerPc, slotVars, controlVars,
     cancelVars, peerVars
<1>15. CASE PeerLeaves(h)
  BY <1>15, <1>i, <1>t DEF PeerLeaves, Goto, TypeOK, HandlerPc, slotVars, controlVars, cancelVars,
     peerVars
<1>15a. CASE PeerStalls(h)
  BY <1>15a, <1>i, <1>t DEF PeerStalls, Goto, TypeOK, HandlerPc, slotVars, controlVars,
     cancelVars, peerVars
<1>16. CASE DropHandler(h)
  BY <1>16, <1>i, <1>t DEF DropHandler, Goto, TypeOK, HandlerPc, slotVars, controlVars,
     cancelVars, peerVars
<1>17. QED
  BY <1>1, <1>2, <1>3, <1>4, <1>5, <1>6, <1>7, <1>8,
     <1>9, <1>10, <1>11, <1>12, <1>13, <1>14, <1>15, <1>15a, <1>16
     DEF TryReserve, BeginRequest, Generate, FinishRequest, Disconnect

-----------------------------------------------------------------------------
(* The control table.                                                      *)

LEMMA HandlerControls ==
  ASSUME IndInv, NEW h \in Handler,
         TryReserve(h) \/ BeginRequest(h) \/ Generate(h) \/ FinishRequest(h) \/ Disconnect(h)
  PROVE  ServingOwnsControl'
<1>i. TypeOK /\ ServingOwnsControl /\ IdOf \in [Handler -> RequestId] /\ NoHandler \notin Handler
  BY WorkerAssumption DEF IndInv
<1>1. CASE CheckDraining(h)
  BY <1>1, <1>i DEF CheckDraining, Goto, TypeOK, ServingOwnsControl, slotVars, controlVars
<1>2. CASE LoadActive(h)
  BY <1>2, <1>i DEF LoadActive, Goto, TypeOK, ServingOwnsControl, slotVars, controlVars
<1>3. CASE RejectAtCapacity(h)
  BY <1>3, <1>i DEF RejectAtCapacity, Goto, TypeOK, ServingOwnsControl, slotVars, controlVars
<1>4. CASE Reserve(h)
  BY <1>4, <1>i DEF Reserve, Goto, TypeOK, ServingOwnsControl, slotVars, controlVars
<1>5. CASE RetryReserve(h)
  BY <1>5, <1>i DEF RetryReserve, Goto, TypeOK, ServingOwnsControl, slotVars, controlVars
<1>6. CASE Begin(h)
  BY <1>6, <1>i DEF Begin, Goto, TypeOK, ServingOwnsControl, slotVars, controlVars
<1>7. CASE RefuseDuplicate(h)
  BY <1>7, <1>i DEF RefuseDuplicate, Goto, TypeOK, ServingOwnsControl, slotVars, controlVars
<1>8. CASE ReleaseUnstarted(h)
  BY <1>8, <1>i DEF ReleaseUnstarted, Goto, TypeOK, ServingOwnsControl, slotVars, controlVars
<1>9. CASE SubmitJob(h)
  BY <1>9, <1>i DEF SubmitJob, Goto, TypeOK, ServingOwnsControl, slotVars, controlVars
<1>10. CASE JobEnds(h)
  BY <1>10, <1>i DEF JobEnds, Goto, TypeOK, ServingOwnsControl, slotVars, controlVars
<1>11. CASE StreamBreaks(h)
  BY <1>11, <1>i DEF StreamBreaks, Goto, TypeOK, ServingOwnsControl, slotVars, controlVars
<1>12. CASE GenerationReturns(h)
  BY <1>12, <1>i DEF GenerationReturns, Goto, TypeOK, ServingOwnsControl, slotVars, controlVars
<1>13. CASE Unlist(h)
  BY <1>13, <1>i DEF Unlist, Goto, TypeOK, ServingOwnsControl, slotVars, controlVars
<1>14. CASE ReleaseSlot(h)
  BY <1>14, <1>i DEF ReleaseSlot, Goto, TypeOK, ServingOwnsControl, slotVars, controlVars
<1>15. CASE PeerLeaves(h)
  BY <1>15, <1>i DEF PeerLeaves, Goto, TypeOK, ServingOwnsControl, slotVars, controlVars
<1>15a. CASE PeerStalls(h)
  BY <1>15a, <1>i DEF PeerStalls, Goto, TypeOK, ServingOwnsControl, slotVars, controlVars
<1>16. CASE DropHandler(h)
  BY <1>16, <1>i DEF DropHandler, Goto, TypeOK, ServingOwnsControl, slotVars, controlVars
<1>17. QED
  BY <1>1, <1>2, <1>3, <1>4, <1>5, <1>6, <1>7, <1>8,
     <1>9, <1>10, <1>11, <1>12, <1>13, <1>14, <1>15, <1>15a, <1>16
     DEF TryReserve, BeginRequest, Generate, FinishRequest, Disconnect

-----------------------------------------------------------------------------
(* Cancellation.                                                           *)

LEMMA HandlerCancel ==
  ASSUME IndInv, NEW h \in Handler,
         TryReserve(h) \/ BeginRequest(h) \/ Generate(h) \/ FinishRequest(h) \/ Disconnect(h)
  PROVE  CancelInv'
<1>i. TypeOK /\ ServingOwnsControl /\ CancelInv /\ IdOf \in [Handler -> RequestId]
      /\ NoHandler \notin Handler /\ Streaming \subseteq Handler
  BY WorkerAssumption DEF IndInv
<1>1. CASE CheckDraining(h)
  BY <1>1, <1>i DEF CheckDraining, Goto, TypeOK, CancelInv, ServingOwnsControl, slotVars,
     controlVars, cancelVars, peerVars
<1>2. CASE LoadActive(h)
  BY <1>2, <1>i DEF LoadActive, Goto, TypeOK, CancelInv, ServingOwnsControl, slotVars,
     controlVars, cancelVars, peerVars
<1>3. CASE RejectAtCapacity(h)
  BY <1>3, <1>i DEF RejectAtCapacity, Goto, TypeOK, CancelInv, ServingOwnsControl, slotVars,
     controlVars, cancelVars, peerVars
<1>4. CASE Reserve(h)
  BY <1>4, <1>i DEF Reserve, Goto, TypeOK, CancelInv, ServingOwnsControl, slotVars, controlVars,
     cancelVars, peerVars
<1>5. CASE RetryReserve(h)
  BY <1>5, <1>i DEF RetryReserve, Goto, TypeOK, CancelInv, ServingOwnsControl, slotVars,
     controlVars, cancelVars, peerVars
<1>6. CASE Begin(h)
  BY <1>6, <1>i DEF Begin, Goto, TypeOK, CancelInv, ServingOwnsControl, slotVars, controlVars,
     cancelVars, peerVars
<1>7. CASE RefuseDuplicate(h)
  BY <1>7, <1>i DEF RefuseDuplicate, Goto, TypeOK, CancelInv, ServingOwnsControl, slotVars,
     controlVars, cancelVars, peerVars
<1>8. CASE ReleaseUnstarted(h)
  BY <1>8, <1>i DEF ReleaseUnstarted, Goto, TypeOK, CancelInv, ServingOwnsControl, slotVars,
     controlVars, cancelVars, peerVars
<1>9. CASE SubmitJob(h)
  BY <1>9, <1>i DEF SubmitJob, Goto, TypeOK, CancelInv, ServingOwnsControl, slotVars, controlVars,
     cancelVars, peerVars
<1>10. CASE JobEnds(h)
  BY <1>10, <1>i DEF JobEnds, Goto, TypeOK, CancelInv, ServingOwnsControl, slotVars, controlVars,
     cancelVars, peerVars
<1>11. CASE StreamBreaks(h)
  BY <1>11, <1>i DEF StreamBreaks, Goto, TypeOK, CancelInv, ServingOwnsControl, slotVars,
     controlVars, cancelVars, peerVars
<1>12. CASE GenerationReturns(h)
  BY <1>12, <1>i DEF GenerationReturns, Goto, TypeOK, CancelInv, ServingOwnsControl, slotVars,
     controlVars, cancelVars, peerVars
<1>13. CASE Unlist(h)
  BY <1>13, <1>i DEF Unlist, Goto, TypeOK, CancelInv, ServingOwnsControl, slotVars, controlVars,
     cancelVars, peerVars
<1>14. CASE ReleaseSlot(h)
  BY <1>14, <1>i DEF ReleaseSlot, Goto, TypeOK, CancelInv, ServingOwnsControl, slotVars,
     controlVars, cancelVars, peerVars
<1>15. CASE PeerLeaves(h)
  BY <1>15, <1>i DEF PeerLeaves, Goto, TypeOK, CancelInv, ServingOwnsControl, slotVars,
     controlVars, cancelVars, peerVars
<1>15a. CASE PeerStalls(h)
  BY <1>15a, <1>i DEF PeerStalls, Goto, TypeOK, CancelInv, ServingOwnsControl, slotVars,
     controlVars, cancelVars, peerVars
<1>16. CASE DropHandler(h)
  BY <1>16, <1>i DEF DropHandler, Goto, TypeOK, CancelInv, ServingOwnsControl, slotVars,
     controlVars, cancelVars, peerVars
<1>17. QED
  BY <1>1, <1>2, <1>3, <1>4, <1>5, <1>6, <1>7, <1>8,
     <1>9, <1>10, <1>11, <1>12, <1>13, <1>14, <1>15, <1>15a, <1>16
     DEF TryReserve, BeginRequest, Generate, FinishRequest, Disconnect

-----------------------------------------------------------------------------

LEMMA CancellerInv ==
  ASSUME IndInv, NEW c \in Canceller, CancelRequest(c)
  PROVE  IndInv'
<1>i. TypeOK /\ CounterCounts /\ CapacityRespected /\ ServingOwnsControl /\ CancelInv
  BY DEF IndInv
<1>1. ASSUME NEW id \in RequestId, FindControl(c, id) PROVE TypeOK' /\ CancelInv'
  <2>1. controls[id] \in Handler \cup {NoHandler}
    BY <1>i DEF TypeOK
  <2>2. QED
    BY <1>1, <1>i, <2>1 DEF FindControl, TypeOK, CancelInv, slotVars, controlVars, peerVars
<1>2. ASSUME SignalCancel(c) PROVE TypeOK' /\ CancelInv'
  <2>1. target[c] \in Handler
    BY <1>2, <1>i DEF SignalCancel, CancelInv
  <2>2. QED
    BY <1>2, <1>i, <2>1 DEF SignalCancel, TypeOK, CancelInv, slotVars, peerVars
<1>3. ASSUME AcknowledgeCancel(c) PROVE TypeOK' /\ CancelInv'
  BY <1>3, <1>i DEF AcknowledgeCancel, TypeOK, CancelInv, slotVars, controlVars, peerVars
<1>4. TypeOK' /\ CancelInv'
  BY <1>1, <1>2, <1>3 DEF CancelRequest
<1>5. UNCHANGED <<active, pc, controls>>
  BY DEF CancelRequest, FindControl, SignalCancel, AcknowledgeCancel, slotVars, controlVars
<1>6. QED
  BY <1>i, <1>4, <1>5
     DEF IndInv, CounterCounts, Holders, CapacityRespected, ServingOwnsControl

LEMMA StepInv == IndInv /\ [Next]_vars => IndInv'
<1> SUFFICES ASSUME IndInv, [Next]_vars PROVE IndInv'
  OBVIOUS
<1>1. ASSUME NEW h \in Handler,
             TryReserve(h) \/ BeginRequest(h) \/ Generate(h) \/ FinishRequest(h) \/ Disconnect(h)
      PROVE  IndInv'
  BY <1>1, HandlerSlots, HandlerTyped, HandlerControls, HandlerCancel DEF IndInv, SlotInv
<1>2. ASSUME NEW c \in Canceller, CancelRequest(c) PROVE IndInv'
  BY <1>2, CancellerInv
<1>3. CASE Drain
  BY <1>3 DEF Drain, IndInv, TypeOK, CounterCounts, Holders, CapacityRespected,
              ServingOwnsControl, CancelInv, controlVars, cancelVars, peerVars
<1>4. CASE UNCHANGED vars
  BY <1>4 DEF vars, slotVars, controlVars, cancelVars, peerVars, IndInv, TypeOK, CounterCounts,
              Holders, CapacityRespected, ServingOwnsControl, CancelInv
<1>5. QED
  BY <1>1, <1>2, <1>3, <1>4 DEF Next

LEMMA Inductive == Spec => []IndInv
BY InitInv, StepInv, PTL DEF Spec

-----------------------------------------------------------------------------

(* The worker's state stays well typed: in particular the counter never    *)
(* goes below zero (fetch_sub would wrap around).                          *)
THEOREM TypeCorrect == Spec => []TypeOK
BY Inductive, PTL DEF IndInv

(* The counter is the number of handlers between admission and release.    *)
THEOREM CounterCountsHolders == Spec => []SlotAccounting
BY Inductive, PTL DEF IndInv, SlotAccounting

(* The compare-and-swap loop never admits more than max_requests.          *)
THEOREM CapacityAlwaysRespected == Spec => []CapacityRespected
BY Inductive, PTL DEF IndInv

(* A request id is served by one handler at a time, and finishing one      *)
(* never unlists another.                                                  *)
THEOREM OneHandlerPerRequest == Spec => []ServingOwnsControl
BY Inductive, PTL DEF IndInv

(* A cancellation that is answered is answered after the request it found  *)
(* left the table, and after its generation ended when it was unary.       *)
THEOREM AcknowledgedAfterFinish == Spec => []AckMeansFinished
<1>1. IndInv => AckMeansFinished
  <2> SUFFICES ASSUME IndInv, NEW c \in Canceller, cancel[c] = "acked"
               PROVE  /\ pc[target[c]] \in {"unlisted", "finished"}
                      /\ target[c] \notin Streaming => job[target[c]] = "ended"
    BY DEF AckMeansFinished
  <2>1. target[c] \in Handler /\ target[c] \in completed
    BY DEF IndInv, CancelInv
  <2>2. QED
    BY <2>1 DEF IndInv, CancelInv
<1>2. QED
  BY <1>1, Inductive, PTL

-----------------------------------------------------------------------------
(* Refinement.                                                             *)

LEMMA SpentKept ==
  ASSUME TypeOK, NEW h \in Handler, NEW to, pc' = [pc EXCEPT ![h] = to],
         pc[h] \notin {"conflicted", "finished"}, to \notin {"conflicted", "finished"}
  PROVE  Spent' = Spent
BY DEF TypeOK, Spent

LEMMA SpentAdded ==
  ASSUME TypeOK, NEW h \in Handler, NEW to, pc' = [pc EXCEPT ![h] = to],
         to \in {"conflicted", "finished"}
  PROVE  Spent' = Spent \cup {h}
BY DEF TypeOK, Spent

LEMMA HandlerRefines ==
  ASSUME IndInv, NEW h \in Handler,
         TryReserve(h) \/ BeginRequest(h) \/ Generate(h) \/ FinishRequest(h) \/ Disconnect(h)
  PROVE  Slots!Admit(h) \/ Slots!Free(h) \/ UNCHANGED <<Holders, Spent>>
<1>i. TypeOK /\ active = Cardinality(Holders)
  BY DEF IndInv, CounterCounts
<1>1. CASE CheckDraining(h)
  <2>1. PICK to \in {"rejected", "loading"} : pc[h] = "idle" /\ pc' = [pc EXCEPT ![h] = to]
    BY <1>1 DEF CheckDraining, Goto
  <2>2. Holders' = Holders
    BY <1>i, <2>1, HoldersKept DEF HoldingPc
  <2>3. Spent' = Spent
    BY <1>i, <2>1, SpentKept
  <2>4. QED
    BY <2>2, <2>3
<1>2. CASE LoadActive(h)
  BY <1>2, <1>i, HoldersKept, SpentKept DEF LoadActive, Goto, HoldingPc
<1>3. CASE RejectAtCapacity(h)
  BY <1>3, <1>i, HoldersKept, SpentKept DEF RejectAtCapacity, Goto, HoldingPc
<1>4. CASE Reserve(h)
  <2>1. h \notin Holders /\ Holders' = Holders \cup {h} /\ Spent' = Spent
    BY <1>4, <1>i, HolderAdded, SpentKept DEF Reserve, Goto, HoldingPc
  <2>2. h \notin Spent /\ Cardinality(Holders) < MaxRequests
    BY <1>4, <1>i DEF Reserve, Goto, Spent
  <2>3. Slots!Cardinality(Holders) = Cardinality(Holders)
    BY Zenon DEF Slots!Cardinality, Cardinality
  <2>4. QED
    BY <2>1, <2>2, <2>3 DEF Slots!Admit
<1>5. CASE RetryReserve(h)
  BY <1>5 DEF RetryReserve, slotVars, Holders, Spent
<1>6. CASE Begin(h)
  BY <1>6, <1>i, HoldersKept, SpentKept DEF Begin, Goto, HoldingPc
<1>7. CASE RefuseDuplicate(h)
  BY <1>7, <1>i, HoldersKept, SpentKept DEF RefuseDuplicate, Goto, HoldingPc
<1>8. CASE ReleaseUnstarted(h)
  <2>1. h \in Holders /\ Holders' = Holders \ {h} /\ Spent' = Spent \cup {h}
    BY <1>8, <1>i, HolderRemoved, SpentAdded DEF ReleaseUnstarted, Goto, HoldingPc
  <2>2. QED
    BY <2>1 DEF Slots!Free
<1>9. CASE SubmitJob(h)
  BY <1>9 DEF SubmitJob, slotVars, Holders, Spent
<1>10. CASE JobEnds(h)
  BY <1>10 DEF JobEnds, slotVars, Holders, Spent
<1>11. CASE StreamBreaks(h)
  BY <1>11, <1>i, HoldersKept, SpentKept DEF StreamBreaks, Goto, HoldingPc
<1>12. CASE GenerationReturns(h)
  BY <1>12, <1>i, HoldersKept, SpentKept DEF GenerationReturns, Goto, HoldingPc
<1>13. CASE Unlist(h)
  BY <1>13, <1>i, HoldersKept, SpentKept DEF Unlist, Goto, HoldingPc
<1>14. CASE ReleaseSlot(h)
  <2>1. h \in Holders /\ Holders' = Holders \ {h} /\ Spent' = Spent \cup {h}
    BY <1>14, <1>i, HolderRemoved, SpentAdded DEF ReleaseSlot, Goto, HoldingPc
  <2>2. QED
    BY <2>1 DEF Slots!Free
<1>15. CASE PeerLeaves(h)
  BY <1>15 DEF PeerLeaves, slotVars, Holders, Spent
<1>15a. CASE PeerStalls(h)
  BY <1>15a DEF PeerStalls, slotVars, Holders, Spent
<1>16. CASE DropHandler(h)
  BY <1>16, <1>i, HoldersKept, SpentKept DEF DropHandler, Goto, HoldingPc
<1>17. QED
  BY <1>1, <1>2, <1>3, <1>4, <1>5, <1>6, <1>7, <1>8,
     <1>9, <1>10, <1>11, <1>12, <1>13, <1>14, <1>15, <1>15a, <1>16
     DEF TryReserve, BeginRequest, Generate, FinishRequest, Disconnect

(* The worker's atomic counter, conflict path, streaming task and dropped  *)
(* futures implement the abstract slots: never more than max_requests      *)
(* holders, each holding one slot once.                                    *)
THEOREM RefinesSlots == Spec => ImplementsSlots
<1>1. Init => Slots!Init
  BY DEF Init, Slots!Init, Holders, HoldingPc, Spent
<1>2. IndInv /\ [Next]_vars => [Slots!Next]_<<Holders, Spent>>
  <2> SUFFICES ASSUME IndInv, [Next]_vars
               PROVE  Slots!Next \/ UNCHANGED <<Holders, Spent>>
    OBVIOUS
  <2>1. ASSUME NEW h \in Handler,
               TryReserve(h) \/ BeginRequest(h) \/ Generate(h) \/ FinishRequest(h) \/ Disconnect(h)
        PROVE  Slots!Next \/ UNCHANGED <<Holders, Spent>>
    BY <2>1, HandlerRefines DEF Slots!Next
  <2>2. ASSUME NEW c \in Canceller, CancelRequest(c)
        PROVE  UNCHANGED <<Holders, Spent>>
    BY <2>2 DEF CancelRequest, FindControl, SignalCancel, AcknowledgeCancel,
                slotVars, Holders, Spent
  <2>3. CASE Drain \/ UNCHANGED vars
    BY <2>3 DEF Drain, vars, slotVars, Holders, Spent
  <2>4. QED
    BY <2>1, <2>2, <2>3 DEF Next
<1>3. QED
  BY <1>1, <1>2, Inductive, PTL DEF Spec, ImplementsSlots, Slots!Spec

=============================================================================
