------------------------- MODULE SessionLeasesProofs ------------------------
(***************************************************************************)
(* The leases of the sessions, for any requests and sessions: who owns     *)
(* one, that no wakeup is lost, and that a session's jobs take turns.      *)
(***************************************************************************)
EXTENDS SessionLeases, TLAPS, FiniteSetTheorems

Owners ==
  /\ leased = {SessionOf[r] : r \in holds}
  /\ \A r, q \in holds : SessionOf[r] = SessionOf[q] => r = q

(* Only a request that has a session waits, the Notified of a request      *)
(* exists while it looks at the set and waits, and a request that goes on  *)
(* to the model thread with its session owns the lease until it leaves.    *)
PlaceInv ==
  \A r \in Request :
    /\ pc[r] \in {"listening", "inserting", "waiting"} => SessionOf[r] # NoSession
    /\ r \in listening <=> pc[r] \in {"inserting", "waiting"}
    /\ r \in holds => pc[r] \in {"queueing", "awaiting", "leaving"} /\ SessionOf[r] # NoSession
    /\ pc[r] \in {"queueing", "awaiting"} /\ SessionOf[r] # NoSession /\ r \notin isolated
         => r \in holds

IInv == TypeOK /\ Owners /\ PlaceInv /\ NoLostWakeup

-----------------------------------------------------------------------------

(* Every lease is free at the start.                                       *)
LEMMA InitInv == Init => IInv
BY LeaseAssumption DEF Init, IInv, TypeOK, HandlerPc, Owners, PlaceInv, NoLostWakeup

(* A step of the part before the model thread.                             *)
LEMMA TypeStep ==
  ASSUME TypeOK, PlaceInv, [Next]_vars
  PROVE  TypeOK'
<1> USE LeaseAssumption
<1> USE DEF TypeOK, HandlerPc, waitVars, modelVars, Goto
<1>1. ASSUME NEW r \in Request, Arrive(r) PROVE TypeOK'
  BY <1>1 DEF Arrive
<1>2. ASSUME NEW r \in Request, Step(r) PROVE TypeOK'
  <2>1. CASE Listen(r)          BY <2>1 DEF Listen
  <2>2. CASE Insert(r)
    <3>1. SessionOf[r] \in Session
      BY <2>2 DEF Insert, PlaceInv
    <3> QED  BY <2>2, <3>1 DEF Insert
  <2>3. CASE Wait(r)            BY <2>3 DEF Wait
  <2>4. CASE Wake(r)            BY <2>4 DEF Wake
  <2>5. CASE GiveUp(r)          BY <2>5 DEF GiveUp, Isolate
  <2>6. CASE Submit(r)          BY <2>6 DEF Submit
  <2>7. CASE Return(r)          BY <2>7 DEF Return
  <2>8. CASE Unlease(r)         BY <2>8 DEF Unlease
  <2>9. CASE NotifyWaiters(r)   BY <2>9 DEF NotifyWaiters
  <2> QED  BY <1>2, <2>1, <2>2, <2>3, <2>4, <2>5, <2>6, <2>7, <2>8, <2>9 DEF Step
<1>3. ASSUME NEW r \in Request, Deadline(r) PROVE TypeOK'
  BY <1>3 DEF Deadline
<1>4. ASSUME NEW r \in Request, Abandon(r) PROVE TypeOK'
  BY <1>4 DEF Abandon
<1>4a. ASSUME NEW r \in Request, Stall(r) PROVE TypeOK'
  BY <1>4a DEF Stall
<1>5. CASE TakeJob              BY <1>5 DEF TakeJob
<1>6. CASE EndJob               BY <1>6 DEF EndJob
<1>7. CASE UNCHANGED vars       BY <1>7 DEF vars
<1> QED  BY <1>1, <1>2, <1>3, <1>4, <1>4a, <1>5, <1>6, <1>7 DEF Next

(* The set of leased sessions follows the owners.                          *)
LEMMA OwnersStep ==
  ASSUME TypeOK, Owners, PlaceInv, [Next]_vars
  PROVE  Owners'
<1> USE DEF Owners
<1>1. ASSUME UNCHANGED <<leased, holds>> PROVE Owners'
  BY <1>1
<1>2. ASSUME NEW r \in Request, Insert(r) PROVE Owners'
  <2>1. leased' = leased \cup {SessionOf[r]} /\ holds' = holds \cup {r}
    BY <1>2 DEF Insert
  <2>2. \A q \in holds : SessionOf[q] # SessionOf[r]
    BY <1>2 DEF Insert
  <2> QED  BY <2>1, <2>2
<1>3. ASSUME NEW r \in Request, Unlease(r) PROVE Owners'
  <2>1. CASE r \in holds
    <3>1. leased' = leased \ {SessionOf[r]} /\ holds' = holds \ {r}
      BY <1>3, <2>1 DEF Unlease
    <3>2. \A q \in holds' : SessionOf[q] # SessionOf[r]
      BY <2>1, <3>1
    <3> QED  BY <3>1, <3>2
  <2>2. CASE r \notin holds
    <3>1. leased' = leased /\ holds' = holds
      BY <1>3, <2>2 DEF Unlease
    <3> QED  BY <3>1
  <2> QED  BY <2>1, <2>2
<1> QED
  BY <1>1, <1>2, <1>3 DEF Next, vars, waitVars, Arrive, Step, Listen, Wait, Wake, GiveUp, Isolate,
     Submit, Return, NotifyWaiters, Deadline, Stall, Abandon, TakeJob, EndJob

(* Where a request is says what it has.                                    *)
LEMMA PlaceStep ==
  ASSUME TypeOK, PlaceInv, [Next]_vars
  PROVE  PlaceInv'
<1> USE DEF PlaceInv, waitVars, Goto
<1> HIDE DEF TypeOK
<1>0. pc \in [Request -> HandlerPc]
  BY DEF TypeOK
<1>1. ASSUME NEW r \in Request, Arrive(r) PROVE PlaceInv'
  BY <1>0, <1>1 DEF Arrive
<1>2. ASSUME NEW r \in Request, Step(r) PROVE PlaceInv'
  <2>1. CASE Listen(r)          BY <1>0, <2>1 DEF Listen
  <2>2. CASE Insert(r)          BY <1>0, <2>2 DEF Insert
  <2>3. CASE Wait(r)            BY <1>0, <2>3 DEF Wait
  <2>4. CASE Wake(r)            BY <1>0, <2>4 DEF Wake
  <2>5. CASE GiveUp(r)          BY <1>0, <2>5 DEF GiveUp, Isolate
  <2>6. CASE Submit(r)          BY <1>0, <2>6 DEF Submit
  <2>7. CASE Return(r)          BY <1>0, <2>7 DEF Return
  <2>8. CASE Unlease(r)         BY <1>0, <2>8 DEF Unlease
  <2>9. CASE NotifyWaiters(r)   BY <1>0, <2>9 DEF NotifyWaiters
  <2> QED  BY <1>2, <2>1, <2>2, <2>3, <2>4, <2>5, <2>6, <2>7, <2>8, <2>9 DEF Step
<1>3. ASSUME NEW r \in Request, Deadline(r) PROVE PlaceInv'
  BY <1>3 DEF Deadline
<1>4. ASSUME NEW r \in Request, Abandon(r) PROVE PlaceInv'
  BY <1>0, <1>4 DEF Abandon
<1>4a. ASSUME NEW r \in Request, Stall(r) PROVE PlaceInv'
  BY <1>4a DEF Stall
<1>5. CASE TakeJob \/ EndJob    BY <1>5 DEF TakeJob, EndJob
<1>6. CASE UNCHANGED vars       BY <1>6 DEF vars
<1> QED  BY <1>1, <1>2, <1>3, <1>4, <1>4a, <1>5, <1>6 DEF Next

(* A free lease comes with a notification, given or about to be given.     *)
LEMMA WakeupStep ==
  ASSUME TypeOK, PlaceInv, NoLostWakeup, [Next]_vars
  PROVE  NoLostWakeup'
<1> USE DEF NoLostWakeup, waitVars, Goto
<1>0. pc \in [Request -> HandlerPc]
  BY DEF TypeOK
<1>l. \A r \in Request : pc[r] = "waiting" => r \in listening
  BY DEF PlaceInv
<1>1. ASSUME NEW r \in Request, Arrive(r) PROVE NoLostWakeup'
  BY <1>0, <1>1 DEF Arrive
<1>2. ASSUME NEW r \in Request, Step(r) PROVE NoLostWakeup'
  <2>1. CASE Listen(r)          BY <1>0, <2>1 DEF Listen
  <2>2. CASE Insert(r)          BY <1>0, <2>2 DEF Insert
  <2>3. CASE Wait(r)            BY <1>0, <2>3 DEF Wait
  <2>4. CASE Wake(r)            BY <1>0, <2>4 DEF Wake
  <2>5. CASE GiveUp(r)          BY <1>0, <2>5 DEF GiveUp, Isolate
  <2>6. CASE Submit(r)          BY <1>0, <2>6 DEF Submit
  <2>7. CASE Return(r)          BY <1>0, <2>7 DEF Return
  <2>8. CASE Unlease(r)         BY <1>0, <1>l, <2>8 DEF Unlease
  <2>9. CASE NotifyWaiters(r)   BY <1>0, <1>l, <2>9 DEF NotifyWaiters
  <2> QED  BY <1>2, <2>1, <2>2, <2>3, <2>4, <2>5, <2>6, <2>7, <2>8, <2>9 DEF Step
<1>3. ASSUME NEW r \in Request, Deadline(r) PROVE NoLostWakeup'
  BY <1>3 DEF Deadline
<1>4. ASSUME NEW r \in Request, Abandon(r) PROVE NoLostWakeup'
  BY <1>0, <1>4 DEF Abandon
<1>4a. ASSUME NEW r \in Request, Stall(r) PROVE NoLostWakeup'
  BY <1>4a DEF Stall
<1>5. CASE TakeJob \/ EndJob    BY <1>5 DEF TakeJob, EndJob
<1>6. CASE UNCHANGED vars       BY <1>6 DEF vars
<1> QED  BY <1>1, <1>2, <1>3, <1>4, <1>4a, <1>5, <1>6 DEF Next

(* The parts together are inductive.                                       *)
LEMMA Invariance == Spec => []IInv
<1>1. IInv /\ [Next]_vars => IInv'
  BY TypeStep, OwnersStep, PlaceStep, WakeupStep DEF IInv
<1> QED  BY InitInv, <1>1, PTL DEF Spec

(* The leases are those of their owners, one owner each, and everything    *)
(* keeps its type (SessionLeases::acquire, SessionLease::drop).            *)
THEOREM LeasesAlwaysMatchOwners == Spec => []LeasesMatchOwners
<1>1. IInv => LeasesMatchOwners
  BY DEF IInv, Owners, LeasesMatchOwners
<1> QED  BY Invariance, <1>1, PTL

(* Nobody sleeps through the release of the lease it waits for: the future *)
(* is created before the set is looked at (state.rs:109-129).              *)
THEOREM WakeupNeverLost == Spec => []NoLostWakeup
<1>1. IInv => NoLostWakeup
  BY DEF IInv
<1> QED  BY Invariance, <1>1, PTL

(* Whatever is queued or runs, at most one of the jobs that use a          *)
(* session's cached context has a handler that waits for it.               *)
THEOREM SessionsTakeTurns == Spec => []SessionSerialised
<1>1. ASSUME IInv, NEW s \in Session
      PROVE  Cardinality({r \in CachedJobs(s) : pc[r] = "awaiting"}) <= 1
  <2> DEFINE Awaited == {r \in CachedJobs(s) : pc[r] = "awaiting"}
  <2>1. \A r \in Awaited : r \in Request /\ SessionOf[r] = s /\ r \notin isolated
    BY <1>1 DEF IInv, TypeOK, CachedJobs
  <2>2. \A r \in Awaited : r \in holds
    BY <1>1, <2>1, LeaseAssumption DEF IInv, PlaceInv
  <2>3. \A r, q \in Awaited : r = q
    BY <1>1, <2>1, <2>2 DEF IInv, Owners
  <2>4. CASE Awaited = {}
    BY <2>4, FS_EmptySet
  <2>5. ASSUME NEW r \in Awaited PROVE Cardinality(Awaited) <= 1
    <3>1. Awaited = {r}
      BY <2>3, <2>5
    <3>2. Cardinality({r}) = 1
      BY FS_Singleton
    <3> QED  BY <3>1, <3>2
  <2> QED  BY <2>4, <2>5
<1>2. IInv => SessionSerialised
  BY <1>1 DEF SessionSerialised
<1> QED  BY Invariance, <1>2, PTL

=============================================================================
