----------------------------- MODULE FleetProofs -----------------------------
(* Theorems about Registry and Fleet.                                      *)
(*                                                                         *)
(* The first part is about the registry alone, Spec, for every set of      *)
(* workers, models, sessions and request tasks and every rank, slot count  *)
(* and time limit.  The second is about FleetSpec, for any finite set of   *)
(* requests and any workers, addresses, slots and numbers of crashes,      *)
(* restarts and lost reports; its last theorems carry the first part over. *)
EXTENDS Fleet, FiniteSetTheorems, TLAPS

-----------------------------------------------------------------------------
(* The registry.                                                           *)

(* The inductive invariant: a release reads the record of the worker it    *)
(* holds, so the typing rests on ReservationKnown.                         *)
IndInv == TypeOK /\ ReservationKnown /\ RecordsConsistent

-----------------------------------------------------------------------------
(* How the record operators keep a record well formed.                     *)

LEMMA ReservedRecord ==
  ASSUME NEW r \in WorkerRecord, Consistent(r), r.active < r.max
  PROVE  Reserved(r) \in WorkerRecord /\ Consistent(Reserved(r))
<1> DEFINE next == IF r.active + 1 >= r.max THEN "Busy" ELSE r.state
<1>1. Reserved(r) = [r EXCEPT !.active = r.active + 1, !.state = next]
  BY DEF Reserved
<1>2. r.active \in Nat /\ r.max \in Nat /\ r.state \in WorkerState
  BY DEF WorkerRecord
<1>3. r.active + 1 \in Nat /\ r.active + 1 <= r.max
  BY <1>2
<1>4. /\ next \in WorkerState
      /\ next = "Available" => r.active + 1 < r.max
      /\ next = "Busy" => r.active + 1 = r.max
  BY <1>2, <1>3 DEF WorkerState, Consistent
<1> HIDE DEF next
<1>5. QED
  BY <1>1, <1>2, <1>3, <1>4 DEF WorkerRecord, Consistent

LEMMA ReleasedRecord ==
  ASSUME NEW r \in WorkerRecord, Consistent(r)
  PROVE  Released(r) \in WorkerRecord /\ Consistent(Released(r))
<1> DEFINE left == IF r.active = 0 THEN 0 ELSE r.active - 1
           next == IF r.state = "Busy" /\ left < r.max THEN "Available" ELSE r.state
<1>1. Released(r) = [r EXCEPT !.active = left, !.state = next]
  BY DEF Released
<1>2. r.active \in Nat /\ r.max \in Nat /\ r.state \in WorkerState
  BY DEF WorkerRecord
<1>3. left \in Nat /\ left <= r.max /\ (r.active # 0 => left < r.max)
  BY <1>2 DEF Consistent
<1>4. next \in WorkerState /\ (next = "Available" => left < r.max)
      /\ (next = "Busy" => left = r.max)
  BY <1>2, <1>3 DEF WorkerState, Consistent
<1> HIDE DEF left, next
<1>5. QED
  BY <1>1, <1>2, <1>3, <1>4 DEF WorkerRecord, Consistent

LEMMA OfflineRecord ==
  ASSUME NEW r \in WorkerRecord, Consistent(r)
  PROVE  /\ [r EXCEPT !.state = "Offline"] \in WorkerRecord
         /\ Consistent([r EXCEPT !.state = "Offline"])
BY DEF WorkerRecord, WorkerState, Consistent

LEMMA OlderRecord ==
  ASSUME NEW r \in WorkerRecord, Consistent(r)
  PROVE  LET o == [r EXCEPT !.age = Older(@, HeartbeatTimeout)]
         IN  o \in WorkerRecord /\ Consistent(o)
BY RegistryAssumption DEF WorkerRecord, Consistent, Older

-----------------------------------------------------------------------------
(* Removing entries keeps a partial function well typed.                   *)

LEMMA RetainTyped ==
  ASSUME NEW f, NEW S, f \in [DOMAIN f -> S], NEW keep \in SUBSET DOMAIN f
  PROVE  /\ DOMAIN Retain(f, keep) = keep
         /\ Retain(f, keep) \in [keep -> S]
BY DEF Retain

-----------------------------------------------------------------------------
(* The three parts of the state an action can disturb.                     *)

WorkersOK ==
  /\ DOMAIN workers \subseteq Worker
  /\ workers \in [DOMAIN workers -> WorkerRecord]
  /\ RecordsConsistent

AffinityOK ==
  /\ DOMAIN affinity \subseteq Session \X Model
  /\ affinity \in [DOMAIN affinity -> AffinityBinding]

TasksOK ==
  /\ holds \in [Caller -> Worker \cup {NoWorker}]
  /\ marking \in [Caller -> BOOLEAN]
  /\ selecting \in Lookup \cup {NoLookup}
  /\ ReservationKnown

LEMMA Parts == IndInv <=> WorkersOK /\ AffinityOK /\ TasksOK
BY DEF IndInv, TypeOK, WorkersOK, AffinityOK, TasksOK

(* Replacing one record by a well-formed one is all that the request tasks *)
(* and the heartbeats do to the workers.                                   *)
LEMMA RecordReplaced ==
  ASSUME WorkersOK, TasksOK, NEW w \in DOMAIN workers,
         NEW r \in WorkerRecord, Consistent(r),
         workers' = [workers EXCEPT ![w] = r]
  PROVE  WorkersOK' /\ DOMAIN workers' = DOMAIN workers
BY DEF WorkersOK, RecordsConsistent

LEMMA CapabilityFields ==
  ASSUME NEW w \in Worker, NEW cap \in Capabilities(w)
  PROVE  /\ cap.models \in SUBSET Model
         /\ cap.active \in Nat /\ cap.max \in Nat /\ cap.active <= cap.max
         /\ cap.state \in WorkerState
         /\ cap.state = "Busy" => cap.active = cap.max
         /\ cap.state = "Available" => cap.active < cap.max
<1>1. /\ cap.models \in SUBSET Model
      /\ cap.active \in 0..Slots[w] /\ cap.max = Slots[w]
      /\ cap.state \in {"Available", "Busy", "Draining"}
      /\ cap.state = "Busy" => cap.active = cap.max
      /\ cap.state = "Available" => cap.active < cap.max
  BY DEF Capabilities
<1>2. Slots[w] \in Nat
  BY RegistryAssumption
<1>3. QED
  BY <1>1, <1>2 DEF WorkerState

-----------------------------------------------------------------------------

LEMMA InitInv == Init => IndInv
BY DEF Init, EmptyMap, IndInv, TypeOK, ReservationKnown, RecordsConsistent

LEMMA ReportInv == IndInv /\ WorkerReports => IndInv'
<1> SUFFICES ASSUME WorkersOK, AffinityOK, TasksOK, WorkerReports
             PROVE  WorkersOK' /\ AffinityOK' /\ TasksOK'
  BY Parts, PTL
<1>w. PICK w \in Worker : \E cap \in Capabilities(w) :
        \/ Heartbeat(w, cap)
        \/ \E place \in Address : Register(w, place, cap)
  BY DEF WorkerReports
<1>c. PICK cap \in Capabilities(w) :
        \/ Heartbeat(w, cap)
        \/ \E place \in Address : Register(w, place, cap)
  BY <1>w
<1>f. /\ cap.models \in SUBSET Model
      /\ cap.active \in Nat /\ cap.max \in Nat /\ cap.active <= cap.max
      /\ cap.state \in WorkerState
      /\ cap.state = "Busy" => cap.active = cap.max
      /\ cap.state = "Available" => cap.active < cap.max
  BY CapabilityFields
<1>a. 0 \in 0..(HeartbeatTimeout + 1)
  BY RegistryAssumption
<1>1. CASE Heartbeat(w, cap)
  <2> DEFINE r == [workers[w] EXCEPT !.models = cap.models,
                     !.active = cap.active, !.max = cap.max,
                     !.state = cap.state, !.age = 0]
  <2>1. w \in DOMAIN workers /\ workers' = [workers EXCEPT ![w] = r]
        /\ UNCHANGED <<affinity, holds, marking, selecting>>
    BY <1>1 DEF Heartbeat
  <2>2. workers[w] \in WorkerRecord
    BY <2>1 DEF WorkersOK
  <2>3. r \in WorkerRecord
    BY <1>f, <1>a, <2>2 DEF WorkerRecord
  <2>4. Consistent(r)
    BY <1>f, <2>2 DEF WorkerRecord, Consistent
  <2> HIDE DEF r
  <2>5. WorkersOK' /\ DOMAIN workers' = DOMAIN workers
    BY <2>1, <2>3, <2>4, RecordReplaced
  <2>6. QED
    BY <2>1, <2>5 DEF AffinityOK, TasksOK, ReservationKnown
<1>2. ASSUME NEW place \in Address, Register(w, place, cap)
      PROVE  WorkersOK' /\ AffinityOK' /\ TasksOK'
  <2> DEFINE r == [address |-> place, models |-> cap.models, active |-> cap.active,
                   max |-> cap.max, state |-> cap.state, age |-> 0]
  <2>1. workers' = Put(workers, w, r) /\ UNCHANGED <<affinity, holds, marking, selecting>>
    BY <1>2 DEF Register
  <2>2. r \in WorkerRecord /\ Consistent(r)
    BY <1>f, <1>a DEF WorkerRecord, Consistent
  <2> HIDE DEF r
  <2>3. /\ DOMAIN workers' = DOMAIN workers \cup {w}
        /\ workers' \in [DOMAIN workers \cup {w} -> WorkerRecord]
        /\ workers'[w] = r
        /\ \A v \in DOMAIN workers : v # w => workers'[v] = workers[v]
    BY <2>1, <2>2 DEF WorkersOK, Put
  <2>4. WorkersOK'
    BY <2>2, <2>3 DEF WorkersOK, RecordsConsistent
  <2>5. QED
    BY <2>1, <2>3, <2>4 DEF AffinityOK, TasksOK, ReservationKnown
<1>3. QED
  BY <1>c, <1>1, <1>2

(* Whoever is routed is eligible, with the binding or without.             *)
LEMMA RoutedEligible ==
  ASSUME NEW c, NEW s, NEW m, NEW w, SelectAndReserve(c, s, m, w)
  PROVE  Eligible(w, m)
BY DEF SelectAndReserve, Routed, SelectWorker

LEMMA LookupTyped ==
  ASSUME IndInv, NEW c \in Caller, NEW s \in Session, NEW m \in Model,
         ReadBinding(c, s, m)
  PROVE  selecting' \in Lookup
<1>1. Preferred(s, m) \in Worker \cup {NoWorker}
  BY DEF IndInv, TypeOK, Preferred, AffinityBinding
<1>2. QED
  BY <1>1, RegistryAssumption DEF ReadBinding, Lookup

LEMMA RequestInv ==
  ASSUME IndInv, NEW c \in Caller, RequestStep(c)
  PROVE  IndInv'
<1> SUFFICES WorkersOK' /\ AffinityOK' /\ TasksOK'
  BY Parts, PTL
<1>p. WorkersOK /\ AffinityOK /\ TasksOK
  BY Parts
<1>h. holds[c] # NoWorker =>
        /\ holds[c] \in DOMAIN workers
        /\ workers[holds[c]] \in WorkerRecord
        /\ Consistent(workers[holds[c]])
  BY <1>p DEF TasksOK, ReservationKnown, WorkersOK, RecordsConsistent
<1>1. ASSUME NEW s \in Session \cup {NoSession}, NEW m \in Model,
             NEW w \in Worker, SelectAndReserve(c, s, m, w)
      PROVE  WorkersOK' /\ AffinityOK' /\ TasksOK'
  <2>1. Eligible(w, m) /\ Reserve(c, w)
    BY <1>1, RoutedEligible DEF SelectAndReserve
  <2>2. /\ w \in DOMAIN workers /\ workers[w] \in WorkerRecord
        /\ Consistent(workers[w]) /\ workers[w].active < workers[w].max
    BY <2>1, <1>p DEF Eligible, WorkersOK, RecordsConsistent
  <2>3. Reserved(workers[w]) \in WorkerRecord /\ Consistent(Reserved(workers[w]))
    BY <2>2, ReservedRecord
  <2>4. WorkersOK' /\ DOMAIN workers' = DOMAIN workers
    BY <1>p, <2>1, <2>2, <2>3, RecordReplaced DEF Reserve
  <2>5. AffinityOK'
    <3>1. CASE s = NoSession
      BY <3>1, <1>1, <1>p DEF SelectAndReserve, AffinityOK
    <3>2. CASE s # NoSession
      <4>1. <<s, m>> \in Session \X Model
        BY <3>2
      <4>2. selecting \in Lookup
        BY <3>2, <1>1, <1>p DEF SelectAndReserve, TasksOK
      <4>3. [worker |-> w, age |-> selecting.age] \in AffinityBinding
        BY <4>2 DEF AffinityBinding, Lookup
      <4>4. affinity' = Put(affinity, <<s, m>>, [worker |-> w, age |-> selecting.age])
        BY <3>2, <1>1 DEF SelectAndReserve
      <4>5. /\ DOMAIN affinity' = DOMAIN affinity \cup {<<s, m>>}
            /\ affinity' \in [DOMAIN affinity \cup {<<s, m>>} -> AffinityBinding]
        BY <4>3, <4>4, <1>p DEF AffinityOK, Put
      <4>6. QED
        BY <4>1, <4>5, <1>p DEF AffinityOK
    <3>3. QED
      BY <3>1, <3>2
  <2>6. TasksOK'
    <3>1. selecting' \in Lookup \cup {NoLookup}
      BY <1>1, <1>p DEF SelectAndReserve, TasksOK
    <3>2. QED
      BY <1>p, <2>1, <2>2, <2>4, <3>1, RegistryAssumption DEF Reserve, TasksOK, ReservationKnown
  <2>7. QED
    BY <2>4, <2>5, <2>6
<1>2. CASE Release(c)
  <2>1. Released(workers[holds[c]]) \in WorkerRecord
        /\ Consistent(Released(workers[holds[c]]))
    BY <1>2, <1>h, ReleasedRecord DEF Release
  <2>2. WorkersOK' /\ DOMAIN workers' = DOMAIN workers
    BY <1>2, <1>p, <1>h, <2>1, RecordReplaced DEF Release
  <2>3. QED
    BY <1>2, <1>p, <2>2 DEF Release, AffinityOK, TasksOK, ReservationKnown
<1>3. CASE MarkOffline(c)
  <2> DEFINE off == [workers[holds[c]] EXCEPT !.state = "Offline"]
  <2>1. off \in WorkerRecord /\ Consistent(off)
    BY <1>3, <1>h, OfflineRecord DEF MarkOffline
  <2>2. workers' = [workers EXCEPT ![holds[c]] = off]
    BY <1>3 DEF MarkOffline
  <2> HIDE DEF off
  <2>3. WorkersOK' /\ DOMAIN workers' = DOMAIN workers
    BY <1>3, <1>p, <1>h, <2>1, <2>2, RecordReplaced DEF MarkOffline
  <2>4. QED
    BY <1>3, <1>p, <2>3 DEF MarkOffline, AffinityOK, TasksOK, ReservationKnown
<1>4. CASE DropBindings(c)
  <2> DEFINE keep == {k \in DOMAIN affinity : affinity[k].worker # holds[c]}
  <2>1. DOMAIN affinity' = keep /\ affinity' \in [keep -> AffinityBinding]
    BY <1>4, <1>p, RetainTyped DEF DropBindings, AffinityOK
  <2>2. AffinityOK'
    BY <2>1, <1>p DEF AffinityOK
  <2>3. WorkersOK' /\ TasksOK'
    BY <1>4, <1>p DEF DropBindings, WorkersOK, RecordsConsistent, TasksOK, ReservationKnown
  <2>4. QED
    BY <2>2, <2>3
<1>5. CASE Abandon(c)
  BY <1>5, <1>p DEF Abandon, WorkersOK, RecordsConsistent, AffinityOK,
                    TasksOK, ReservationKnown
<1>6. CASE AbandonMark(c)
  BY <1>6, <1>p DEF AbandonMark, WorkersOK, RecordsConsistent, AffinityOK,
                    TasksOK, ReservationKnown
<1>7. ASSUME NEW s \in Session, NEW m \in Model, ReadBinding(c, s, m)
      PROVE  WorkersOK' /\ AffinityOK' /\ TasksOK'
  BY <1>7, <1>p, LookupTyped DEF ReadBinding, WorkersOK, RecordsConsistent, AffinityOK,
                                 TasksOK, ReservationKnown
<1>8. CASE LeaveSelection(c)
  BY <1>8, <1>p DEF LeaveSelection, WorkersOK, RecordsConsistent, AffinityOK,
                    TasksOK, ReservationKnown
<1>9. QED
  BY <1>1, <1>2, <1>3, <1>4, <1>5, <1>6, <1>7, <1>8 DEF RequestStep, SelectionStep

LEMMA ExpireInv == IndInv /\ ExpireAt => IndInv'
<1> SUFFICES ASSUME WorkersOK, AffinityOK, TasksOK, ExpireAt
             PROVE  WorkersOK' /\ AffinityOK' /\ TasksOK'
  BY Parts, PTL
<1>1. \A w \in DOMAIN workers : workers[w] \in WorkerRecord /\ Consistent(workers[w])
  BY DEF WorkersOK, RecordsConsistent
<1>2. \A w \in DOMAIN workers :
        workers'[w] \in WorkerRecord /\ Consistent(workers'[w])
  <2> TAKE w \in DOMAIN workers
  <2>1. workers'[w] = IF Stale(w) THEN [workers[w] EXCEPT !.state = "Offline"]
                      ELSE workers[w]
    BY DEF ExpireAt
  <2>2. QED
    BY <1>1, <2>1, OfflineRecord
<1>3. WorkersOK' /\ DOMAIN workers' = DOMAIN workers
  BY <1>2 DEF ExpireAt, WorkersOK, RecordsConsistent
<1>4. PICK keep \in SUBSET DOMAIN affinity : affinity' = Retain(affinity, keep)
  BY DEF ExpireAt
<1>5. AffinityOK'
  BY <1>4 DEF AffinityOK, Retain
<1>6. QED
  BY <1>3, <1>5 DEF ExpireAt, TasksOK, ReservationKnown

LEMMA TickInv == IndInv /\ Tick => IndInv'
<1> SUFFICES ASSUME WorkersOK, AffinityOK, TasksOK, Tick
             PROVE  WorkersOK' /\ AffinityOK' /\ TasksOK'
  BY Parts, PTL
<1>1. \A w \in DOMAIN workers :
        workers'[w] \in WorkerRecord /\ Consistent(workers'[w])
  <2> TAKE w \in DOMAIN workers
  <2>1. workers'[w] = [workers[w] EXCEPT !.age = Older(@, HeartbeatTimeout)]
    BY DEF Tick
  <2>2. QED
    BY <2>1, OlderRecord DEF WorkersOK, RecordsConsistent
<1>2. WorkersOK' /\ DOMAIN workers' = DOMAIN workers
  BY <1>1 DEF Tick, WorkersOK, RecordsConsistent
<1>3. ASSUME NEW b \in AffinityBinding
      PROVE  [b EXCEPT !.age = Older(@, AffinityTTL)] \in AffinityBinding
  BY RegistryAssumption DEF AffinityBinding, Older
<1>4. AffinityOK'
  BY <1>3 DEF Tick, AffinityOK
<1>5. selecting' \in Lookup \cup {NoLookup}
  BY RegistryAssumption DEF Tick, TasksOK, Unlocked, Lookup, NoLookup, Older
<1>6. QED
  BY <1>2, <1>4, <1>5 DEF Tick, TasksOK, ReservationKnown

LEMMA StepInv == IndInv /\ [Next]_vars => IndInv'
<1> SUFFICES ASSUME IndInv, [Next]_vars PROVE IndInv'
  OBVIOUS
<1>1. CASE WorkerReports
  BY <1>1, ReportInv
<1>2. ASSUME NEW c \in Caller, RequestStep(c) PROVE IndInv'
  BY <1>2, RequestInv
<1>3. CASE ExpireAt
  BY <1>3, ExpireInv
<1>4. CASE Restart
  BY <1>4 DEF Restart, EmptyMap, IndInv, TypeOK, ReservationKnown, RecordsConsistent
<1>5. CASE Tick
  BY <1>5, TickInv
<1>6. CASE UNCHANGED vars
  BY <1>6 DEF vars, IndInv, TypeOK, ReservationKnown, RecordsConsistent
<1>7. QED
  BY <1>1, <1>2, <1>3, <1>4, <1>5, <1>6 DEF Next

-----------------------------------------------------------------------------

LEMMA Inductive == Spec => []IndInv
<1>1. QED
  BY InitInv, StepInv, PTL DEF Spec

(* The registry's maps stay well typed under every operation and restart.  *)
THEOREM TypeCorrect == Spec => []TypeOK
BY Inductive, PTL DEF IndInv

(* Available means a free slot, Busy means none, in every reachable        *)
(* registry: reservations and releases keep the state of the record in     *)
(* step with its counter however they interleave with the reports.         *)
THEOREM StateAlwaysMatchesLoad == Spec => []StateMatchesLoad
BY Inductive, PTL DEF IndInv, StateMatchesLoad

(* Every reservation a request task holds names a worker the registry      *)
(* knows, so release and mark_offline always find the record.              *)
THEOREM ReservationsAlwaysKnown == Spec => []ReservationKnown
BY Inductive, PTL DEF IndInv

(* No step but a report of the worker itself takes its record out of       *)
(* Offline or Draining, so a request that finishes after its worker was    *)
(* taken offline cannot put the worker back into routing.                  *)
THEOREM OnlyReportsResurrect == Spec => NoResurrection
<1> DEFINE Down(w) == workers[w].state \in {"Offline", "Draining"}
           Up(w) == workers[w].state \in {"Available", "Busy"}
<1>1. ASSUME IndInv, Next, NEW w \in DOMAIN workers \cap DOMAIN workers',
             Down(w), Up(w)'
      PROVE  WorkerReports
  <2>1. workers \in [DOMAIN workers -> WorkerRecord]
    BY <1>1 DEF IndInv, TypeOK
  <2>2. ~Up(w) /\ workers[w] \in WorkerRecord
    BY <1>1, <2>1
  <2>3. workers'[w].state # workers[w].state
    BY <1>1, <2>2
  <2>4. ASSUME NEW c \in Caller, RequestStep(c) PROVE FALSE
    <3>1. ASSUME NEW s \in Session \cup {NoSession}, NEW m \in Model,
                 NEW v \in Worker, SelectAndReserve(c, s, m, v)
          PROVE  FALSE
      <4>1. workers[v].state = "Available"
        BY <3>1, RoutedEligible DEF Eligible
      <4>2. workers'[w] = workers[w]
        BY <4>1, <3>1, <1>1, <2>1 DEF SelectAndReserve, Reserve
      <4>3. QED
        BY <4>2, <2>3
    <3>2. CASE Release(c)
      <4>1. workers'[w] \in {workers[w], Released(workers[w])}
        BY <3>2, <2>1 DEF Release
      <4>2. Released(workers[w]).state = workers[w].state
        BY <2>2, <1>1 DEF Released, WorkerRecord
      <4>3. QED
        BY <4>1, <4>2, <2>3
    <3>3. CASE MarkOffline(c)
      <4>1. workers'[w].state \in {workers[w].state, "Offline"}
        BY <3>3, <2>1, <2>2 DEF MarkOffline, WorkerRecord
      <4>2. QED
        BY <4>1, <1>1, <2>3
    <3>4. CASE DropBindings(c) \/ Abandon(c) \/ AbandonMark(c) \/ LeaveSelection(c)
      BY <3>4, <2>3 DEF DropBindings, Abandon, AbandonMark, LeaveSelection
    <3>5. ASSUME NEW s \in Session, NEW m \in Model, ReadBinding(c, s, m) PROVE FALSE
      BY <3>5, <2>3 DEF ReadBinding
    <3>6. QED
      BY <2>4, <3>1, <3>2, <3>3, <3>4, <3>5 DEF RequestStep, SelectionStep
  <2>5. CASE ExpireAt
    <3>1. workers'[w].state \in {workers[w].state, "Offline"}
      BY <2>5, <2>2, <1>1 DEF ExpireAt, WorkerRecord
    <3>2. QED
      BY <3>1, <1>1, <2>3
  <2>6. CASE Restart
    BY <2>6, <1>1 DEF Restart, EmptyMap
  <2>7. CASE Tick
    <3>1. workers'[w].state = workers[w].state
      BY <2>7, <2>2, <1>1 DEF Tick, WorkerRecord
    <3>2. QED
      BY <3>1, <2>3
  <2>8. QED
    BY <1>1, <2>4, <2>5, <2>6, <2>7 DEF Next
<1>2. IndInv /\ [Next]_vars =>
        [ \A w \in DOMAIN workers \cap DOMAIN workers' :
            /\ workers[w].state \in {"Offline", "Draining"}
            /\ workers'[w].state \in {"Available", "Busy"}
            => WorkerReports ]_vars
  BY <1>1
<1>3. QED
  BY <1>2, Inductive, PTL DEF Spec, NoResurrection

-----------------------------------------------------------------------------
(* Sessions and their workers.                                             *)

(* A binding names a worker the registry knows: records stay while the     *)
(* process lives, and a restart drops the bindings with them.              *)
BindingsKnown == \A k \in DOMAIN affinity : affinity[k].worker \in DOMAIN workers

LEMMA RecordsStay ==
  ASSUME IndInv, [Next]_vars, ~Restart
  PROVE  DOMAIN workers \subseteq DOMAIN workers'
<1>1. CASE WorkerReports
  BY <1>1 DEF WorkerReports, Heartbeat, Register, Put
<1>2. ASSUME NEW c \in Caller, RequestStep(c) PROVE DOMAIN workers \subseteq DOMAIN workers'
  BY <1>2 DEF RequestStep, SelectionStep, ReadBinding, SelectAndReserve, Reserve,
              LeaveSelection, Release, MarkOffline, DropBindings, Abandon, AbandonMark
<1>3. CASE ExpireAt \/ Tick \/ UNCHANGED vars
  BY <1>3 DEF ExpireAt, Tick, vars
<1>4. QED
  BY <1>1, <1>2, <1>3 DEF Next

(* What a step makes of one binding.                                       *)
LEMMA BindingStep ==
  ASSUME IndInv, Next, ~Restart, NEW k \in DOMAIN affinity',
         k \in DOMAIN affinity => affinity'[k].worker # affinity[k].worker
  PROVE  \E c \in Caller, s \in Session, m \in Model, w \in Worker :
           /\ k = <<s, m>> /\ affinity'[k].worker = w
           /\ SelectAndReserve(c, s, m, w)
<1>1. affinity \in [DOMAIN affinity -> AffinityBinding]
  BY DEF IndInv, TypeOK
<1>2. affinity' # affinity
  BY <1>1
<1>3. CASE ExpireAt
  BY <1>3, <1>1 DEF ExpireAt, Retain
<1>4. CASE Tick
  <2>1. /\ DOMAIN affinity' = DOMAIN affinity
        /\ affinity'[k] = [affinity[k] EXCEPT !.age = Older(@, AffinityTTL)]
    BY <1>4 DEF Tick
  <2>2. affinity'[k].worker = affinity[k].worker
    BY <1>1, <2>1 DEF AffinityBinding
  <2>3. QED
    BY <2>1, <2>2
<1>5. CASE WorkerReports
  BY <1>5, <1>2 DEF WorkerReports, Heartbeat, Register
<1>6. ASSUME NEW c \in Caller, RequestStep(c)
      PROVE  \E s \in Session, m \in Model, w \in Worker :
               /\ k = <<s, m>> /\ affinity'[k].worker = w
               /\ SelectAndReserve(c, s, m, w)
  <2>1. CASE DropBindings(c)
    BY <2>1, <1>1 DEF DropBindings, Retain
  <2>2. CASE Release(c) \/ MarkOffline(c) \/ Abandon(c) \/ AbandonMark(c)
             \/ LeaveSelection(c) \/ \E s \in Session, m \in Model : ReadBinding(c, s, m)
    BY <2>2, <1>2 DEF Release, MarkOffline, Abandon, AbandonMark, LeaveSelection, ReadBinding
  <2>3. ASSUME NEW s \in Session \cup {NoSession}, NEW m \in Model, NEW w \in Worker,
               SelectAndReserve(c, s, m, w)
        PROVE  s \in Session /\ k = <<s, m>> /\ affinity'[k].worker = w
    <3>1. /\ s # NoSession
          /\ affinity' = Put(affinity, <<s, m>>, [worker |-> w, age |-> selecting.age])
      BY <2>3, <1>2 DEF SelectAndReserve
    <3>2. k = <<s, m>>
      BY <3>1, <1>1 DEF Put
    <3>3. QED
      BY <3>1, <3>2 DEF Put
  <2>4. QED
    BY <1>6, <2>1, <2>2, <2>3 DEF RequestStep, SelectionStep
<1>7. QED
  BY <1>3, <1>4, <1>5, <1>6 DEF Next

LEMMA BindingsKnownStep == IndInv /\ BindingsKnown /\ [Next]_vars => BindingsKnown'
<1> SUFFICES ASSUME IndInv, BindingsKnown, [Next]_vars, NEW k \in DOMAIN affinity'
             PROVE  affinity'[k].worker \in DOMAIN workers'
  BY DEF BindingsKnown
<1>1. CASE Restart
  BY <1>1 DEF Restart, EmptyMap
<1>2. CASE ~Restart /\ k \in DOMAIN affinity /\ affinity'[k].worker = affinity[k].worker
  BY <1>2, RecordsStay DEF BindingsKnown
<1>3. CASE /\ ~Restart
           /\ k \in DOMAIN affinity => affinity'[k].worker # affinity[k].worker
  <2>1. CASE Next
    <3>1. PICK c \in Caller, s \in Session, m \in Model, w \in Worker :
            affinity'[k].worker = w /\ SelectAndReserve(c, s, m, w)
      BY <1>3, <2>1, BindingStep
    <3>2. w \in DOMAIN workers
      BY <3>1, RoutedEligible DEF Eligible
    <3>3. QED
      BY <1>3, <3>1, <3>2, RecordsStay
  <2>2. CASE UNCHANGED vars
    BY <1>3, <2>2 DEF vars
  <2>3. QED
    BY <2>1, <2>2
<1>4. QED
  BY <1>1, <1>2, <1>3

LEMMA BindingsAlwaysKnown == Spec => []BindingsKnown
<1>1. Init => BindingsKnown
  BY DEF Init, EmptyMap, BindingsKnown
<1>2. QED
  BY <1>1, BindingsKnownStep, Inductive, PTL DEF Spec

(* What a selection has read stays true of the binding it will overwrite,  *)
(* if that is still there: bindings only age and disappear meanwhile.      *)
LookupTrue ==
  selecting # NoLookup =>
    LET k == <<selecting.session, selecting.model>> IN
    k \in DOMAIN affinity =>
      \/ selecting.preferred = affinity[k].worker
      \/ affinity[k].age > AffinityTTL

LEMMA SelectionBegins ==
  ASSUME IndInv, NEW c \in Caller, NEW s \in Session, NEW m \in Model,
         ReadBinding(c, s, m)
  PROVE  LookupTrue'
<1>1. /\ selecting'.session = s /\ selecting'.model = m
      /\ selecting'.preferred = Preferred(s, m) /\ affinity' = affinity
  BY DEF ReadBinding
<1>2. ASSUME <<s, m>> \in DOMAIN affinity
      PROVE  \/ Preferred(s, m) = affinity[<<s, m>>].worker
             \/ affinity[<<s, m>>].age > AffinityTTL
  <2>1. affinity[<<s, m>>].age \in Nat /\ AffinityTTL \in Nat
    BY <1>2, RegistryAssumption DEF IndInv, TypeOK, AffinityBinding
  <2>2. QED
    BY <1>2, <2>1 DEF Preferred
<1>3. QED
  BY <1>1, <1>2 DEF LookupTrue

(* A step that is no part of a selection: the binding stays as it is, gets *)
(* older or goes.                                                          *)
LEMMA LookupKept ==
  ASSUME LookupTrue, selecting' # NoLookup => selecting # NoLookup,
         selecting # NoLookup =>
           /\ selecting'.session = selecting.session
           /\ selecting'.model = selecting.model
           /\ selecting'.preferred = selecting.preferred,
         DOMAIN affinity' \subseteq DOMAIN affinity,
         \A k \in DOMAIN affinity' :
           /\ affinity'[k].worker = affinity[k].worker
           /\ affinity[k].age > AffinityTTL => affinity'[k].age > AffinityTTL
  PROVE  LookupTrue'
BY DEF LookupTrue

LEMMA LookupTrueStep == IndInv /\ LookupTrue /\ [Next]_vars => LookupTrue'
<1> SUFFICES ASSUME IndInv, LookupTrue, [Next]_vars PROVE LookupTrue'
  OBVIOUS
<1>t. affinity \in [DOMAIN affinity -> AffinityBinding]
  BY DEF IndInv, TypeOK
<1>1. ASSUME UNCHANGED <<affinity, selecting>> PROVE LookupTrue'
  BY <1>1 DEF LookupTrue
<1>2. ASSUME selecting' = NoLookup PROVE LookupTrue'
  BY <1>2 DEF LookupTrue
<1>3. CASE WorkerReports
  BY <1>3, <1>1 DEF WorkerReports, Heartbeat, Register
<1>4. ASSUME NEW c \in Caller, RequestStep(c) PROVE LookupTrue'
  <2>1. ASSUME NEW s \in Session, NEW m \in Model, ReadBinding(c, s, m) PROVE LookupTrue'
    BY <2>1, SelectionBegins
  <2>2. ASSUME NEW s \in Session \cup {NoSession}, NEW m \in Model, NEW w \in Worker,
               SelectAndReserve(c, s, m, w)
        PROVE  LookupTrue'
    BY <2>2, <1>2 DEF SelectAndReserve, Unlocked
  <2>3. CASE DropBindings(c)
    BY <2>3, LookupKept DEF DropBindings, Retain
  <2>4. CASE LeaveSelection(c) \/ Release(c) \/ MarkOffline(c) \/ Abandon(c) \/ AbandonMark(c)
    BY <2>4, <1>1, <1>2 DEF LeaveSelection, Release, MarkOffline, Abandon, AbandonMark
  <2>5. QED
    BY <1>4, <2>1, <2>2, <2>3, <2>4 DEF RequestStep, SelectionStep
<1>5. CASE ExpireAt \/ Restart
  BY <1>5, <1>2 DEF ExpireAt, Restart, Unlocked
<1>6. CASE Tick
  <2>1. ASSUME NEW k \in DOMAIN affinity'
        PROVE  /\ k \in DOMAIN affinity /\ affinity'[k].worker = affinity[k].worker
               /\ affinity[k].age > AffinityTTL => affinity'[k].age > AffinityTTL
    BY <2>1, <1>6, <1>t DEF Tick, AffinityBinding, Older
  <2>2. /\ selecting' # NoLookup => selecting # NoLookup
        /\ selecting # NoLookup =>
             /\ selecting'.session = selecting.session
             /\ selecting'.model = selecting.model
             /\ selecting'.preferred = selecting.preferred
    BY <1>6 DEF Tick, IndInv, TypeOK, Unlocked, Lookup, NoLookup
  <2>3. QED
    BY <2>1, <2>2, LookupKept
<1>7. CASE UNCHANGED vars
  BY <1>7, <1>1 DEF vars
<1>8. QED
  BY <1>3, <1>4, <1>5, <1>6, <1>7 DEF Next

LEMMA LookupAlwaysTrue == Spec => []LookupTrue
<1>1. Init => LookupTrue
  BY DEF Init, LookupTrue
<1>2. QED
  BY <1>1, LookupTrueStep, Inductive, PTL DEF Spec

(* A session moves to another worker, or loses its binding, only for one   *)
(* of the reasons AffinityKept lists, whichever requests, reports, expiry  *)
(* and offline marks run together.                                         *)
THEOREM SessionsStay == Spec => AffinityKept
<1> DEFINE Reason(k) ==
      LET w == affinity[k].worker IN
        \/ k \in DOMAIN affinity' /\ affinity'[k].worker = w
        \/ affinity[k].age > AffinityTTL
        \/ k \in DOMAIN affinity' /\ ~Eligible(w, k[2])
        \/ k \notin DOMAIN affinity'
             /\ \/ workers[w].state = "Offline"
                \/ Stale(w)
                \/ \E c \in Caller : marking[c] /\ holds[c] = w
        \/ DOMAIN workers' = {}
<1>1. ASSUME IndInv, BindingsKnown, LookupTrue, Next, NEW k \in DOMAIN affinity PROVE Reason(k)
  <2>1. CASE Restart
    BY <2>1 DEF Restart, EmptyMap
  <2>2. CASE ~Restart /\ k \in DOMAIN affinity' /\ affinity'[k].worker # affinity[k].worker
    <3>1. PICK c \in Caller, s \in Session, m \in Model, w \in Worker :
            k = <<s, m>> /\ affinity'[k].worker = w /\ SelectAndReserve(c, s, m, w)
      BY <1>1, <2>2, BindingStep
    <3>2. /\ selecting # NoLookup /\ selecting.session = s /\ selecting.model = m
          /\ Routed(selecting.preferred, m, w)
      BY <3>1, RegistryAssumption DEF SelectAndReserve
    <3>3. \/ selecting.preferred = affinity[k].worker
          \/ affinity[k].age > AffinityTTL
      BY <1>1, <3>1, <3>2 DEF LookupTrue
    <3>4. affinity[k].age > AffinityTTL \/ ~Eligible(affinity[k].worker, m)
      BY <2>2, <3>1, <3>2, <3>3 DEF Routed
    <3>5. k[2] = m
      BY <3>1
    <3>6. QED
      BY <2>2, <3>4, <3>5
  <2>3. CASE ~Restart /\ k \notin DOMAIN affinity'
    <3>1. CASE ExpireAt
      <4>1. \/ ~(affinity[k].age <= AffinityTTL)
            \/ affinity[k].worker \notin DOMAIN workers
            \/ workers'[affinity[k].worker].state = "Offline"
        BY <1>1, <2>3, <3>1 DEF ExpireAt, Retain
      <4>2. affinity[k].age \in Nat /\ AffinityTTL \in Nat
        BY <1>1, RegistryAssumption DEF IndInv, TypeOK, AffinityBinding
      <4>3. affinity[k].worker \in DOMAIN workers
        BY <1>1 DEF BindingsKnown
      <4>4. \/ Stale(affinity[k].worker)
            \/ workers'[affinity[k].worker] = workers[affinity[k].worker]
        BY <3>1, <4>3 DEF ExpireAt
      <4>5. QED
        BY <2>3, <4>1, <4>2, <4>3, <4>4
    <3>2. ASSUME NEW c \in Caller, RequestStep(c) PROVE Reason(k)
      <4>1. CASE DropBindings(c)
        BY <4>1, <1>1, <2>3 DEF DropBindings, Retain
      <4>2. CASE Release(c) \/ MarkOffline(c) \/ Abandon(c) \/ AbandonMark(c)
                 \/ LeaveSelection(c) \/ \E s \in Session, m \in Model : ReadBinding(c, s, m)
        BY <4>2, <1>1, <2>3 DEF Release, MarkOffline, Abandon, AbandonMark, LeaveSelection,
                                ReadBinding
      <4>3. ASSUME NEW s \in Session \cup {NoSession}, NEW m \in Model, NEW w \in Worker,
                   SelectAndReserve(c, s, m, w)
            PROVE  FALSE
        BY <4>3, <1>1, <2>3 DEF SelectAndReserve, Put
      <4>4. QED
        BY <3>2, <4>1, <4>2, <4>3 DEF RequestStep, SelectionStep
    <3>3. CASE WorkerReports
      BY <3>3, <1>1, <2>3 DEF WorkerReports, Heartbeat, Register
    <3>4. CASE Tick
      BY <3>4, <1>1, <2>3 DEF Tick
    <3>5. QED
      BY <1>1, <2>3, <3>1, <3>2, <3>3, <3>4 DEF Next
  <2>4. QED
    BY <2>1, <2>2, <2>3
<1>2. IndInv /\ BindingsKnown /\ LookupTrue /\ [Next]_vars
        => [\A k \in DOMAIN affinity : Reason(k)]_vars
  BY <1>1
<1>3. QED
  BY <1>2, Inductive, BindingsAlwaysKnown, LookupAlwaysTrue, PTL DEF Spec, AffinityKept

-----------------------------------------------------------------------------
(* The fleet.                                                              *)

(* What every request task keeps.  The second part is why no slot is given *)
(* back early: a task whose calls did not fail and that lets go of a       *)
(* worker whose answer it has not seen is the task of a unary request      *)
(* whose connection is closed.                                             *)
ReservationOf(c) ==
  /\ IF step[c] \in {"idle", "selecting", "done"} THEN holds[c] = NoWorker
     ELSE holds[c] = selected[c].id /\ holds[c] # NoWorker
  /\ marking[c] => step[c] \in {"failed", "broken", "cancelFailed"}

Gone(c) == c \in closed /\ c \notin StreamingCaller

EndOf(c) ==
  /\ step[c] \in {"forwarding", "blocked", "broken"}
       => c \in StreamingCaller /\ at[c] # "wire"
  /\ step[c] \in {"cancelling", "awaiting"} => Gone(c) \/ at[c] # "wire"
  /\ step[c] \in {"releasing", "refusing"}
       => Gone(c) \/ at[c] \notin {"wire"} \cup Unfinished

PlaceOf(c) == at[c] \in Admitted => Reachable(c)

TaskOf(c) == ReservationOf(c) /\ EndOf(c) /\ PlaceOf(c)

TasksInv == \A c \in Caller : TaskOf(c)

SlotsInv == \A w \in Worker : Used(w) <= Slots[w]

(* Reports in flight were true when they were sent, and so still lie       *)
(* within the worker's limit.                                              *)
ReportOf(w) ==
  report[w].kind \in {"register", "heartbeat"} => report[w].cap \in Capabilities(w)

ReportsInv == \A w \in Worker : ReportOf(w)

FleetTypes ==
  /\ step \in [Caller -> Step]
  /\ selected \in [Caller -> SelectedWorker \cup {NoSelection}]
  /\ at \in [Caller -> Progress]
  /\ closed \subseteq Caller
  /\ up \in [Worker -> BOOLEAN]
  /\ addr \in [Worker -> Address]
  /\ report \in [Worker -> Reports]
  /\ budget \in Budget

FleetInv == IndInv /\ FleetTypes /\ TasksInv /\ SlotsInv /\ ReportsInv

-----------------------------------------------------------------------------
(* Reports.                                                                *)

LEMMA CapabilityTrue ==
  ASSUME NEW w \in Worker, SlotsInv
  PROVE  Capability(w) \in Capabilities(w)
<1>1. IsFiniteSet(Occupants(w))
  <2>1. Occupants(w) \subseteq Caller
    BY DEF Occupants
  <2>2. QED
    BY <2>1, FleetAssumption, FS_Subset
<1>2. Used(w) \in Nat
  BY <1>1, FS_CardinalityType DEF Used
<1>3. Used(w) <= Slots[w] /\ Slots[w] \in Nat
  BY RegistryAssumption DEF SlotsInv
<1>4. Used(w) \in 0..Slots[w]
  BY <1>2, <1>3
<1>5. Serves[w] \in Model
  BY FleetAssumption
<1> DEFINE st == IF Used(w) >= Slots[w] THEN "Busy" ELSE "Available"
<1>6. /\ st \in {"Available", "Busy", "Draining"}
      /\ st = "Busy" => Used(w) = Slots[w]
      /\ st = "Available" => Used(w) < Slots[w]
  BY <1>2, <1>3
<1>7. Capability(w) = [models |-> {Serves[w]}, active |-> Used(w),
                       max |-> Slots[w], state |-> st]
  BY DEF Capability
<1> HIDE DEF st
<1>8. Capability(w) \in [models : {{m} : m \in Model}, active : 0..Slots[w],
             max : {Slots[w]}, state : {"Available", "Busy", "Draining"}]
  BY <1>4, <1>5, <1>6, <1>7
<1>9. QED
  BY <1>6, <1>7, <1>8 DEF Capabilities

LEMMA CapabilitiesTyped ==
  ASSUME NEW w \in Worker, NEW cap \in Capabilities(w)
  PROVE  cap \in CapabilityRecord
<1>1. cap \in [models : {{m} : m \in Model}, active : 0..Slots[w],
             max : {Slots[w]}, state : {"Available", "Busy", "Draining"}]
  BY DEF Capabilities
<1>2. Slots[w] \in Nat
  BY RegistryAssumption
<1>3. QED
  BY <1>1, <1>2 DEF CapabilityRecord, WorkerState

-----------------------------------------------------------------------------
(* The registry under the fleet.                                           *)

LEMMA Stutters ==
  ASSUME UNCHANGED registryVars
  PROVE  [Next]_vars
BY DEF registryVars

(* A step of one request: of its task, its client or its worker.           *)
RequestActs(c) ==
  TaskProgress(c) \/ CallBreaks(c) \/ CancelBreaks(c) \/ ClientActs(c) \/ WorkerActs(c)

LEMMA TaskRefines ==
  ASSUME FleetInv, NEW c \in Caller, RequestActs(c)
  PROVE  [Next]_vars
<1>1. CASE Reply(c) \/ StreamEnds(c) \/ CallFails(c) \/ CancelArrives(c)
           \/ CancelAnswers(c) \/ CancelFails(c) \/ StreamLeaves(c) \/ ClientStalls(c)
  BY <1>1, Stutters DEF Reply, StreamEnds, CallFails, CancelArrives, CancelAnswers,
                        CancelFails, StreamLeaves, ClientStalls, TaskStep
<1>2. CASE WorkerActs(c)
  BY <1>2, Stutters DEF WorkerActs, WorkerProgress, WorkerAnswers, CallLost, WorkerEnds,
                        WorkerFinishes, Stall, HandlerDropped, WorkerStep
<1>3. CASE CallBreaks(c) \/ CancelBreaks(c)
  BY <1>3, Stutters DEF CallBreaks, CancelBreaks
<1>4. CASE MarkFailed(c)
  BY <1>4 DEF MarkFailed, Next, RequestStep
<1>5. CASE DropFailed(c)
  BY <1>5 DEF DropFailed, Next, RequestStep
<1>6. CASE StreamAbandoned(c)
  BY <1>6 DEF StreamAbandoned, Next, RequestStep
<1>7. CASE ReleaseWorker(c)
  BY <1>7 DEF ReleaseWorker, Next, RequestStep
<1>8. CASE SelectionEnds(c)
  BY <1>8 DEF SelectionEnds, Next, RequestStep, SelectionStep
<1>9. CASE UnaryLeaves(c)
  <2>1. /\ marking' = [marking EXCEPT ![c] = FALSE]
        /\ UNCHANGED <<workers, affinity, holds, selecting>>
    BY <1>9 DEF UnaryLeaves
  <2>2. CASE marking[c]
    BY <2>1, <2>2 DEF AbandonMark, Next, RequestStep
  <2>3. CASE ~marking[c]
    <3>1. marking \in [Caller -> BOOLEAN]
      BY DEF FleetInv, IndInv, TypeOK
    <3>2. marking' = marking
      BY <2>1, <2>3, <3>1
    <3>3. QED
      BY <2>1, <3>2 DEF vars
  <2>4. QED
    BY <2>2, <2>3
<1>10. QED
  BY <1>1, <1>2, <1>3, <1>4, <1>5, <1>6, <1>7, <1>8, <1>9
     DEF RequestActs, TaskProgress, ClientActs

LEMMA ReportRefines ==
  ASSUME FleetInv, NEW w \in Worker, ReportProgress(w)
  PROVE  [Next]_vars
<1>0. ReportOf(w)
  BY DEF FleetInv, ReportsInv
<1>1. CASE SendHeartbeat(w) \/ Reregister(w)
  BY <1>1, Stutters DEF SendHeartbeat, Reregister
<1>2. CASE DeliverHeartbeat(w)
  <2>1. report[w].cap \in Capabilities(w)
    BY <1>0, <1>2 DEF ReportOf, DeliverHeartbeat
  <2>2. Heartbeat(w, report[w].cap) \/ UNCHANGED registryVars
    BY <1>2 DEF DeliverHeartbeat
  <2>3. QED
    BY <2>1, <2>2, Stutters DEF Next, WorkerReports
<1>3. CASE DeliverRegistration(w)
  <2>1. /\ report[w].kind = "register" /\ report[w].cap \in Capabilities(w)
        /\ Register(w, report[w].addr, report[w].cap)
    BY <1>0, <1>3 DEF ReportOf, DeliverRegistration
  <2>2. report[w] \in Reports
    BY DEF FleetInv, FleetTypes
  <2>3. report[w].addr \in Address
    BY <2>1, <2>2 DEF Reports, NoReport, NotFound
  <2>4. QED
    BY <2>1, <2>3 DEF Next, WorkerReports
<1>4. QED
  BY <1>1, <1>2, <1>3 DEF ReportProgress

LEMMA StepRefines == FleetInv /\ [FleetNext]_fleetVars => [Next]_vars
<1> SUFFICES ASSUME FleetInv, [FleetNext]_fleetVars PROVE [Next]_vars
  OBVIOUS
<1>1. ASSUME NEW c \in Caller, NEW m \in Model, TurnAway(c, m) PROVE [Next]_vars
  BY <1>1, Stutters DEF TurnAway
<1>2. ASSUME NEW c \in Caller, NEW s \in Session \cup {NoSession}, NEW m \in Model,
             NEW w \in Worker, Dispatch(c, s, m, w)
      PROVE  [Next]_vars
  BY <1>2 DEF Dispatch, Next, RequestStep, SelectionStep
<1>b. ASSUME NEW c \in Caller, NEW s \in Session, NEW m \in Model, BeginSelection(c, s, m)
      PROVE  [Next]_vars
  BY <1>b DEF BeginSelection, Next, RequestStep
<1>3. ASSUME NEW c \in Caller, RequestActs(c) PROVE [Next]_vars
  BY <1>3, TaskRefines
<1>4. ASSUME NEW w \in Worker, ReportProgress(w) PROVE [Next]_vars
  BY <1>4, ReportRefines
<1>5. ASSUME NEW w \in Worker, ReportLost(w) \/ CrashWorker(w) PROVE [Next]_vars
  BY <1>5, Stutters DEF ReportLost, CrashWorker
<1>6. ASSUME NEW w \in Worker, NEW a \in Address, StartWorker(w, a) PROVE [Next]_vars
  BY <1>6, Stutters DEF StartWorker
<1>7. CASE RestartCoordinator \/ ClockStep
  BY <1>7 DEF RestartCoordinator, ClockStep, Next
<1>8. CASE UNCHANGED fleetVars
  BY <1>8, Stutters DEF fleetVars
<1>9. QED
  BY <1>1, <1>2, <1>b, <1>3, <1>4, <1>5, <1>6, <1>7, <1>8 DEF FleetNext, RequestActs

-----------------------------------------------------------------------------
(* What a step leaves alone.                                               *)

LEMMA Updated ==
  ASSUME NEW S, NEW T, NEW f \in [S -> T], NEW x \in S, NEW v \in T
  PROVE  /\ [f EXCEPT ![x] = v] \in [S -> T]
         /\ [f EXCEPT ![x] = v][x] = v
         /\ \A y \in S \ {x} : [f EXCEPT ![x] = v][y] = f[y]
OBVIOUS

Untouched(p) ==
  /\ step'[p] = step[p] /\ selected'[p] = selected[p] /\ at'[p] = at[p]
  /\ holds'[p] = holds[p] /\ marking'[p] = marking[p]
  /\ p \in closed => p \in closed'

LEMMA UntouchedKept ==
  ASSUME NEW p \in Caller, TaskOf(p), Untouched(p), UNCHANGED workerVars
  PROVE  TaskOf(p)'
<1>1. ReservationOf(p)'
  BY DEF TaskOf, ReservationOf, Untouched
<1>2. EndOf(p)'
  BY DEF TaskOf, EndOf, Untouched, Gone
<1>3. PlaceOf(p)'
  BY DEF TaskOf, PlaceOf, Untouched, Reachable, workerVars
<1>4. QED
  BY <1>1, <1>2, <1>3 DEF TaskOf

LEMMA SlotsKept ==
  ASSUME SlotsInv,
         \A c \in Caller : at'[c] \in Admitted =>
            at[c] \in Admitted /\ selected'[c] = selected[c]
  PROVE  SlotsInv'
<1> SUFFICES ASSUME NEW w \in Worker PROVE Used(w)' <= Slots[w]
  BY DEF SlotsInv
<1>1. Occupants(w)' \subseteq Occupants(w)
  BY DEF Occupants
<1>2. IsFiniteSet(Occupants(w))
  <2>1. Occupants(w) \subseteq Caller
    BY DEF Occupants
  <2>2. QED
    BY <2>1, FleetAssumption, FS_Subset
<1>3. /\ Used(w) \in Nat /\ Used(w)' \in Nat /\ Used(w)' <= Used(w)
  BY <1>1, <1>2, FS_Subset, FS_CardinalityType DEF Used
<1>4. Used(w) <= Slots[w] /\ Slots[w] \in Nat
  BY RegistryAssumption DEF SlotsInv
<1>5. QED
  BY <1>3, <1>4

LEMMA ReportsKept ==
  ASSUME ReportsInv, UNCHANGED report
  PROVE  ReportsInv'
BY DEF ReportsInv, ReportOf

-----------------------------------------------------------------------------
(* A step of a request task: its own part of the invariant, and nothing    *)
(* else changes.                                                           *)

TaskChange(c) ==
  /\ FleetTypes'
  /\ TaskOf(c)'
  /\ \A p \in Caller \ {c} : Untouched(p)
  /\ UNCHANGED <<workerVars, report>>

LEMMA TaskChangeKept ==
  ASSUME FleetInv, NEW c \in Caller, TaskChange(c)
  PROVE  TasksInv' /\ ReportsInv'
<1>1. ASSUME NEW p \in Caller PROVE TaskOf(p)'
  <2>1. CASE p = c
    BY <2>1 DEF TaskChange
  <2>2. CASE p # c
    BY <2>2, UntouchedKept DEF TaskChange, FleetInv, TasksInv
  <2>3. QED
    BY <2>1, <2>2
<1>2. QED
  BY <1>1, ReportsKept DEF TasksInv, FleetInv, TaskChange

LEMMA MoveOnly ==
  ASSUME FleetTypes, IndInv, NEW c \in Caller, NEW from \in SUBSET Step, NEW to \in Step,
         TaskStep(c, from, to)
  PROVE  /\ FleetTypes' /\ step[c] \in from /\ step'[c] = to
         /\ \A p \in Caller \ {c} : Untouched(p)
         /\ UNCHANGED <<selected, at, closed, holds, marking, workerVars, report>>
<1>1. /\ step[c] \in from /\ step' = [step EXCEPT ![c] = to]
      /\ UNCHANGED <<registryVars, selected, closed, at, workerVars, report, budget>>
  BY DEF TaskStep, Move
<1>2. /\ step' \in [Caller -> Step] /\ step'[c] = to
      /\ \A p \in Caller \ {c} : step'[p] = step[p]
  BY <1>1, Updated DEF FleetTypes
<1>3. UNCHANGED <<selected, closed, at, up, addr, report, budget, holds, marking>>
  BY <1>1 DEF registryVars, vars, workerVars
<1>4. FleetTypes'
  BY <1>2, <1>3 DEF FleetTypes
<1>5. QED
  BY <1>1, <1>2, <1>3, <1>4 DEF Untouched, workerVars

LEMMA MoveKept ==
  ASSUME FleetInv, NEW c \in Caller,
         Reply(c) \/ StreamEnds(c) \/ CallFails(c) \/ CancelArrives(c)
           \/ CancelAnswers(c) \/ CancelFails(c) \/ StreamLeaves(c) \/ ClientStalls(c)
  PROVE  TaskChange(c) /\ UNCHANGED <<selected, at>>
<1> DEFINE Held == {"sending", "forwarding", "blocked", "cancelling", "awaiting"}
           Others == \A p \in Caller \ {c} : Untouched(p)
           Same == UNCHANGED <<selected, at, closed, holds, marking, workerVars, report>>
<1>t. FleetTypes /\ IndInv /\ TaskOf(c)
  BY DEF FleetInv, TasksInv
<1>e. ReservationOf(c) /\ EndOf(c) /\ PlaceOf(c)
  BY <1>t DEF TaskOf
<1>k. ASSUME NEW to \in Step \ {"idle", "selecting", "done"}, step[c] \in Held,
             step'[c] = to, FleetTypes', Others, Same, EndOf(c)'
      PROVE  TaskChange(c) /\ UNCHANGED <<selected, at>>
  <2>1. ReservationOf(c)'
    BY <1>k, <1>e DEF ReservationOf
  <2>2. PlaceOf(c)'
    BY <1>k, <1>e DEF PlaceOf, Reachable, workerVars
  <2>3. QED
    BY <1>k, <2>1, <2>2 DEF TaskChange, TaskOf
<1>1. CASE Reply(c)
  <2>1. PICK to \in {"releasing", "forwarding", "refusing"} :
          /\ TaskStep(c, {"sending"}, to)
          /\ \/ to # "forwarding" /\ at[c] \in {"finished", "refused"}
             \/ to = "forwarding" /\ at[c] # "wire" /\ c \in StreamingCaller
    BY <1>1 DEF Reply
  <2>2. step[c] = "sending" /\ step'[c] = to /\ FleetTypes' /\ Others /\ Same
    BY <2>1, <1>t, MoveOnly DEF Step
  <2>3. EndOf(c)'
    BY <2>1, <2>2 DEF EndOf, Gone, Unfinished
  <2>4. QED
    BY <2>2, <2>3, <1>k DEF Step
<1>2. CASE StreamEnds(c)
  <2>1. at[c] \in {"ended", "finished"} /\ TaskStep(c, {"forwarding"}, "releasing")
    BY <1>2 DEF StreamEnds
  <2>2. step[c] = "forwarding" /\ step'[c] = "releasing" /\ FleetTypes' /\ Others /\ Same
    BY <2>1, <1>t, MoveOnly DEF Step
  <2>3. EndOf(c)'
    BY <2>1, <2>2 DEF EndOf, Gone, Unfinished
  <2>4. QED
    BY <2>2, <2>3, <1>k DEF Step
<1>3. CASE CallFails(c)
  <2> DEFINE to == IF step[c] = "sending" THEN "failed" ELSE "broken"
  <2>1. at[c] = "lost" /\ TaskStep(c, {"sending", "forwarding"}, to)
    BY <1>3 DEF CallFails
  <2>2. to \in Step
    BY DEF Step
  <2>3. /\ step[c] \in {"sending", "forwarding"} /\ step'[c] = to
        /\ FleetTypes' /\ Others /\ Same
    <3> HIDE DEF to
    <3>1. {"sending", "forwarding"} \in SUBSET Step
      BY DEF Step
    <3>2. QED
      BY <2>1, <2>2, <3>1, <1>t, MoveOnly
  <2>4. EndOf(c)'
    BY <2>1, <2>3, <1>e DEF EndOf, Gone
  <2>5. QED
    BY <2>2, <2>3, <2>4, <1>k
<1>4. CASE CancelArrives(c)
  <2> DEFINE to == IF at[c] \in Admitted THEN "awaiting" ELSE "releasing"
  <2>1. TaskStep(c, {"cancelling"}, to)
    BY <1>4 DEF CancelArrives
  <2>2. to \in Step
    BY DEF Step
  <2>3. step[c] = "cancelling" /\ step'[c] = to /\ FleetTypes' /\ Others /\ Same
    <3> HIDE DEF to
    <3>1. {"cancelling"} \in SUBSET Step
      BY DEF Step
    <3>2. QED
      BY <2>1, <2>2, <3>1, <1>t, MoveOnly
  <2>4. EndOf(c)'
    BY <2>3, <1>e DEF EndOf, Gone, Admitted
  <2>5. QED
    BY <2>2, <2>3, <2>4, <1>k
<1>5. CASE CancelAnswers(c)
  <2>1. at[c] = "finished" /\ TaskStep(c, {"awaiting"}, "releasing")
    BY <1>5 DEF CancelAnswers
  <2>2. step[c] = "awaiting" /\ step'[c] = "releasing" /\ FleetTypes' /\ Others /\ Same
    BY <2>1, <1>t, MoveOnly DEF Step
  <2>3. EndOf(c)'
    BY <2>1, <2>2 DEF EndOf, Gone, Unfinished
  <2>4. QED
    BY <2>2, <2>3, <1>k DEF Step
<1>6. CASE CancelFails(c)
  <2>1. PICK from \in {"cancelling", "awaiting"} : TaskStep(c, {from}, "cancelFailed")
    BY <1>6 DEF CancelFails
  <2>2. step[c] = from /\ step'[c] = "cancelFailed" /\ FleetTypes' /\ Others /\ Same
    <3>1. {from} \in SUBSET Step /\ "cancelFailed" \in Step
      BY DEF Step
    <3>2. QED
      BY <2>1, <3>1, <1>t, MoveOnly
  <2>3. EndOf(c)'
    BY <2>2 DEF EndOf
  <2>4. QED
    BY <2>2, <2>3, <1>k DEF Step
<1>7. CASE StreamLeaves(c) \/ ClientStalls(c)
  <2>1. PICK from \in {"forwarding", "blocked"}, to \in {"cancelling", "releasing", "blocked"} :
          /\ TaskStep(c, {from}, to)
          /\ to = "releasing" => at[c] \notin Unfinished
    <3>1. CASE ClientStalls(c)
      BY <3>1 DEF ClientStalls
    <3>2. CASE StreamLeaves(c)
      BY <3>2 DEF StreamLeaves, TaskStep, Move
    <3>3. QED
      BY <1>7, <3>1, <3>2
  <2>2. step[c] = from /\ step'[c] = to /\ FleetTypes' /\ Others /\ Same
    <3>1. {from} \in SUBSET Step /\ to \in Step
      BY DEF Step
    <3>2. QED
      BY <2>1, <3>1, <1>t, MoveOnly
  <2>3. EndOf(c)'
    BY <2>1, <2>2, <1>e DEF EndOf, Gone
  <2>4. QED
    BY <2>2, <2>3, <1>k DEF Step
<1>8. QED
  BY <1>1, <1>2, <1>3, <1>4, <1>5, <1>6, <1>7

LEMMA CancelBreaksKept ==
  ASSUME FleetInv, NEW c \in Caller, CancelBreaks(c)
  PROVE  TaskChange(c) /\ UNCHANGED <<selected, at>>
<1>e. FleetTypes /\ ReservationOf(c) /\ PlaceOf(c)
  BY DEF FleetInv, TasksInv, TaskOf
<1>1. /\ budget.breaks > 0 /\ budget' = [budget EXCEPT !.breaks = budget.breaks - 1]
      /\ step[c] \in {"cancelling", "awaiting"}
      /\ step' = [step EXCEPT ![c] = "cancelFailed"]
      /\ UNCHANGED <<selected, closed, at, up, addr, report, holds, marking>>
  BY DEF CancelBreaks, Move, registryVars, vars, workerVars
<1>2. /\ step' \in [Caller -> Step] /\ step'[c] = "cancelFailed"
      /\ \A p \in Caller \ {c} : step'[p] = step[p]
  BY <1>1, <1>e, Updated DEF FleetTypes, Step
<1>3. FleetTypes'
  BY <1>1, <1>2, <1>e, FleetAssumption DEF FleetTypes, Budget
<1>4. TaskOf(c)'
  BY <1>1, <1>2, <1>e DEF TaskOf, ReservationOf, EndOf, PlaceOf, Reachable
<1>5. QED
  BY <1>1, <1>2, <1>3, <1>4 DEF TaskChange, Untouched, workerVars

LEMMA CallBreaksKept ==
  ASSUME FleetInv, NEW c \in Caller, CallBreaks(c)
  PROVE  TaskChange(c) /\ SlotsInv'
<1>e. FleetTypes /\ ReservationOf(c) /\ EndOf(c) /\ PlaceOf(c)
  BY DEF FleetInv, TasksInv, TaskOf
<1>1. PICK to \in {"failed", "broken"} :
        /\ step[c] = IF to = "failed" THEN "sending" ELSE "forwarding"
        /\ step' = [step EXCEPT ![c] = to]
  BY DEF CallBreaks, Move
<1>2. PICK now \in {at[c], "lost"} :
        /\ at' = [at EXCEPT ![c] = now]
        /\ at[c] = "wire" => to = "failed"
  BY <1>1, <1>e DEF CallBreaks, EndOf, FleetTypes
<1>3. /\ budget.breaks > 0 /\ budget' = [budget EXCEPT !.breaks = budget.breaks - 1]
      /\ closed' = closed \cup {c}
      /\ UNCHANGED <<selected, up, addr, report, holds, marking>>
  BY DEF CallBreaks, registryVars, vars, workerVars
<1>4. /\ step' \in [Caller -> Step] /\ step'[c] = to
      /\ \A p \in Caller \ {c} : step'[p] = step[p]
  BY <1>1, <1>e, Updated DEF FleetTypes, Step
<1>5. /\ at' \in [Caller -> Progress] /\ at'[c] = now
      /\ \A p \in Caller \ {c} : at'[p] = at[p]
  <2>1. now \in Progress
    BY <1>e DEF FleetTypes, Progress
  <2>2. QED
    BY <1>2, <1>e, <2>1, Updated DEF FleetTypes
<1>6. FleetTypes'
  BY <1>3, <1>4, <1>5, <1>e, FleetAssumption DEF FleetTypes, Budget
<1>7. TaskOf(c)'
  <2>1. ReservationOf(c)'
    BY <1>1, <1>3, <1>4, <1>e DEF ReservationOf
  <2>2. EndOf(c)'
    BY <1>1, <1>2, <1>4, <1>5, <1>e DEF EndOf
  <2>3. PlaceOf(c)'
    BY <1>2, <1>3, <1>5, <1>e DEF PlaceOf, Reachable, Admitted, Unfinished
  <2>4. QED
    BY <2>1, <2>2, <2>3 DEF TaskOf
<1>8. SlotsInv'
  <2>1. ASSUME NEW p \in Caller, at'[p] \in Admitted
        PROVE  at[p] \in Admitted /\ selected'[p] = selected[p]
    BY <2>1, <1>2, <1>3, <1>5 DEF Admitted, Unfinished
  <2>2. QED
    BY <2>1, SlotsKept DEF FleetInv
<1>9. QED
  BY <1>3, <1>4, <1>5, <1>6, <1>7, <1>8 DEF TaskChange, Untouched, workerVars

-----------------------------------------------------------------------------
(* The worker's steps: only the progress of one request changes.           *)

LEMMA WorkerChange ==
  ASSUME FleetInv, NEW c \in Caller, NEW from, NEW to \in Progress,
         WorkerStep(c, from, to)
  PROVE  /\ FleetTypes' /\ at[c] = from /\ at'[c] = to
         /\ \A p \in Caller \ {c} : Untouched(p)
         /\ UNCHANGED <<step, selected, closed, holds, marking, workerVars, report>>
<1>1. /\ at[c] = from /\ at' = [at EXCEPT ![c] = to]
      /\ UNCHANGED <<registryVars, taskVars, workerVars, report, budget>>
  BY DEF WorkerStep
<1>2. /\ at' \in [Caller -> Progress] /\ at'[c] = to
      /\ \A p \in Caller \ {c} : at'[p] = at[p]
  BY <1>1, Updated DEF FleetInv, FleetTypes
<1>3. UNCHANGED <<step, selected, closed, up, addr, report, budget, holds, marking>>
  BY <1>1 DEF registryVars, vars, workerVars, taskVars
<1>4. FleetTypes'
  BY <1>2, <1>3 DEF FleetTypes, FleetInv
<1>5. QED
  BY <1>1, <1>2, <1>3, <1>4 DEF Untouched, workerVars

LEMMA OneMore ==
  ASSUME NEW S, IsFiniteSet(S), NEW x
  PROVE  /\ IsFiniteSet(S \cup {x})
         /\ Cardinality(S \cup {x}) <= Cardinality(S) + 1
         /\ Cardinality(S \cup {x}) \in Nat
<1>1. IsFiniteSet(S \cup {x}) /\ Cardinality(S) \in Nat
  BY FS_AddElement, FS_CardinalityType, Zenon
<1>2. Cardinality(S \cup {x}) = IF x \in S THEN Cardinality(S) ELSE Cardinality(S) + 1
  BY FS_AddElement, Zenon
<1>3. QED
  BY <1>1, <1>2

LEMMA WorkerKept ==
  ASSUME FleetInv, NEW c \in Caller, WorkerActs(c)
  PROVE  TaskChange(c) /\ SlotsInv'
<1> DEFINE Others == \A p \in Caller \ {c} : Untouched(p)
           Same == UNCHANGED <<step, selected, closed, holds, marking, workerVars, report>>
<1>e. ReservationOf(c) /\ EndOf(c) /\ PlaceOf(c)
  BY DEF FleetInv, TasksInv, TaskOf
<1>k. ASSUME FleetTypes', Others, Same, EndOf(c)', PlaceOf(c)' PROVE TaskChange(c)
  <2>1. ReservationOf(c)'
    BY <1>k, <1>e DEF ReservationOf
  <2>2. QED
    BY <1>k, <2>1 DEF TaskChange, TaskOf
<1>s. ASSUME Others, UNCHANGED selected,
             at'[c] \in Admitted => at[c] \in Admitted
      PROVE  SlotsInv'
  <2>1. ASSUME NEW p \in Caller, at'[p] \in Admitted
        PROVE  at[p] \in Admitted /\ selected'[p] = selected[p]
    BY <2>1, <1>s DEF Untouched
  <2>2. QED
    BY <2>1, SlotsKept DEF FleetInv
<1>1. CASE WorkerAnswers(c)
  <2> DEFINE w == selected[c].id
             to == IF Used(w) < Slots[w] THEN "running" ELSE "refused"
  <2>1. Reachable(c) /\ WorkerStep(c, "wire", to)
    BY <1>1 DEF WorkerAnswers
  <2>2. to \in Progress
    BY DEF Progress
  <2>3. FleetTypes' /\ at[c] = "wire" /\ at'[c] = to /\ Others /\ Same
    <3> HIDE DEF to
    <3>1. QED
      BY <2>1, <2>2, WorkerChange
  <2>4. EndOf(c)'
    BY <2>3, <1>e DEF EndOf, Gone
  <2>5. PlaceOf(c)'
    BY <2>1, <2>3 DEF PlaceOf, Reachable, workerVars
  <2>6. ASSUME NEW v \in Worker PROVE Used(v)' <= Slots[v]
    <3>1. Occupants(v) \subseteq Caller /\ IsFiniteSet(Occupants(v))
      <4>1. Occupants(v) \subseteq Caller
        BY DEF Occupants
      <4>2. QED
        BY <4>1, FleetAssumption, FS_Subset
    <3>2. Used(v) \in Nat /\ Used(v) <= Slots[v] /\ Slots[v] \in Nat
      BY <3>1, FS_CardinalityType, RegistryAssumption DEF Used, FleetInv, SlotsInv
    <3>3. CASE v = w /\ to = "running"
      <4>1. Used(v) < Slots[v]
        BY <3>3
      <4>2. Occupants(v)' \subseteq Occupants(v) \cup {c}
        BY <2>3 DEF Occupants, Untouched
      <4>3. /\ IsFiniteSet(Occupants(v) \cup {c})
            /\ Cardinality(Occupants(v) \cup {c}) <= Used(v) + 1
            /\ Cardinality(Occupants(v) \cup {c}) \in Nat
        BY <3>1, OneMore DEF Used
      <4>4. Used(v)' \in Nat /\ Used(v)' <= Cardinality(Occupants(v) \cup {c})
        BY <4>2, <4>3, FS_Subset, FS_CardinalityType DEF Used
      <4>5. QED
        BY <3>2, <4>1, <4>3, <4>4
    <3>4. CASE ~(v = w /\ to = "running")
      <4>1. Occupants(v)' \subseteq Occupants(v)
        BY <2>3, <3>4 DEF Occupants, Untouched, Admitted, Unfinished
      <4>2. Used(v)' \in Nat /\ Used(v)' <= Used(v)
        BY <3>1, <4>1, FS_Subset, FS_CardinalityType DEF Used
      <4>3. QED
        BY <3>2, <4>2
    <3>5. QED
      BY <3>3, <3>4
  <2>7. QED
    BY <2>3, <2>4, <2>5, <2>6, <1>k DEF SlotsInv
<1>2. CASE CallLost(c)
  <2>1. at[c] = "wire" /\ WorkerStep(c, "wire", "lost")
    BY <1>2 DEF CallLost
  <2>2. FleetTypes' /\ at'[c] = "lost" /\ Others /\ Same
    BY <2>1, WorkerChange DEF Progress
  <2>3. EndOf(c)' /\ PlaceOf(c)'
    BY <2>2, <1>e DEF EndOf, PlaceOf, Gone, Admitted, Unfinished
  <2>4. QED
    BY <2>2, <2>3, <1>k, <1>s DEF Admitted, Unfinished
<1>3. CASE WorkerEnds(c) \/ WorkerFinishes(c) \/ Stall(c) \/ HandlerDropped(c)
  <2>1. PICK from \in Admitted, to \in {"finished", "ended", "stalled", "leaked"} :
          /\ WorkerStep(c, from, to)
          /\ to \in Unfinished => from \in Unfinished
    BY <1>3 DEF WorkerEnds, WorkerFinishes, Stall, HandlerDropped, Admitted, Unfinished
  <2>2. FleetTypes' /\ at[c] = from /\ at'[c] = to /\ Others /\ Same
    BY <2>1, WorkerChange DEF Progress
  <2>3. EndOf(c)'
    BY <2>1, <2>2, <1>e DEF EndOf, Gone, Admitted, Unfinished
  <2>4. PlaceOf(c)'
    BY <2>1, <2>2, <1>e DEF PlaceOf, Reachable, workerVars
  <2>5. QED
    BY <2>1, <2>2, <2>3, <2>4, <1>k, <1>s
<1>4. QED
  BY <1>1, <1>2, <1>3 DEF WorkerActs, WorkerProgress

-----------------------------------------------------------------------------
(* The steps of a request task that change the registry.                   *)

LEMMA StepTyped ==
  ASSUME FleetTypes, NEW c \in Caller, NEW from, NEW to \in Step, Move(c, from, to)
  PROVE  /\ step[c] \in from /\ step'[c] = to /\ step' \in [Caller -> Step]
         /\ \A p \in Caller \ {c} : step'[p] = step[p]
BY Updated DEF FleetTypes, Move

LEMMA HoldsSet ==
  ASSUME IndInv, NEW c \in Caller, NEW w \in Worker \cup {NoWorker},
         holds' = [holds EXCEPT ![c] = w]
  PROVE  holds'[c] = w /\ \A p \in Caller \ {c} : holds'[p] = holds[p]
BY DEF IndInv, TypeOK

LEMMA MarkingSet ==
  ASSUME IndInv, NEW c \in Caller, NEW b \in BOOLEAN,
         marking' = [marking EXCEPT ![c] = b]
  PROVE  marking'[c] = b /\ \A p \in Caller \ {c} : marking'[p] = marking[p]
BY DEF IndInv, TypeOK

LEMMA TurnAwayKept ==
  ASSUME FleetInv, NEW c \in Caller, NEW m \in Model, TurnAway(c, m)
  PROVE  TaskChange(c) /\ UNCHANGED <<selected, at>>
<1>1. TaskStep(c, {"idle"}, "done")
  BY DEF TurnAway, TaskStep
<1>2. /\ FleetTypes' /\ step[c] = "idle" /\ step'[c] = "done"
      /\ \A p \in Caller \ {c} : Untouched(p)
      /\ UNCHANGED <<selected, at, closed, holds, marking, workerVars, report>>
  BY <1>1, MoveOnly DEF Step, FleetInv
<1>3. TaskOf(c)'
  BY <1>2 DEF FleetInv, TasksInv, TaskOf, ReservationOf, EndOf, PlaceOf, Reachable,
              workerVars
<1>4. QED
  BY <1>2, <1>3 DEF TaskChange

LEMMA DispatchKept ==
  ASSUME FleetInv, NEW c \in Caller, NEW s \in Session \cup {NoSession}, NEW m \in Model,
         NEW w \in Worker, Dispatch(c, s, m, w)
  PROVE  TaskChange(c) /\ SlotsInv'
<1> DEFINE sel == [id |-> w, address |-> workers[w].address]
<1>1. /\ holds' = [holds EXCEPT ![c] = w] /\ UNCHANGED marking
      /\ Eligible(w, m)
  BY RoutedEligible DEF Dispatch, SelectAndReserve, Reserve
<1>2. /\ Move(c, {IF s = NoSession THEN "idle" ELSE "selecting"}, "sending")
      /\ selected' = [selected EXCEPT ![c] = sel]
      /\ at' = [at EXCEPT ![c] = "wire"]
      /\ UNCHANGED <<closed, workerVars, report, budget>>
  BY DEF Dispatch
<1>3. sel \in SelectedWorker
  <2>1. w \in DOMAIN workers /\ workers \in [DOMAIN workers -> WorkerRecord]
    BY <1>1 DEF Eligible, FleetInv, IndInv, TypeOK
  <2>2. workers[w].address \in Address
    BY <2>1 DEF WorkerRecord
  <2>3. QED
    BY <2>2 DEF SelectedWorker
<1> HIDE DEF sel
<1>4. /\ step'[c] = "sending" /\ step' \in [Caller -> Step]
      /\ \A p \in Caller \ {c} : step'[p] = step[p]
  BY <1>2, StepTyped DEF FleetInv, Step
<1>a. step[c] \in {"idle", "selecting"}
  BY <1>2 DEF Move
<1>5. /\ selected' \in [Caller -> SelectedWorker \cup {NoSelection}] /\ selected'[c] = sel
      /\ \A p \in Caller \ {c} : selected'[p] = selected[p]
  BY <1>2, <1>3, Updated DEF FleetInv, FleetTypes
<1>6. /\ at' \in [Caller -> Progress] /\ at'[c] = "wire"
      /\ \A p \in Caller \ {c} : at'[p] = at[p]
  BY <1>2, Updated DEF FleetInv, FleetTypes, Progress
<1>7. /\ holds'[c] = w /\ \A p \in Caller \ {c} : holds'[p] = holds[p]
  BY <1>1, HoldsSet DEF FleetInv
<1>8. FleetTypes'
  BY <1>2, <1>4, <1>5, <1>6 DEF FleetTypes, FleetInv, workerVars
<1>9. \A p \in Caller \ {c} : Untouched(p)
  BY <1>1, <1>2, <1>4, <1>5, <1>6, <1>7 DEF Untouched
<1>10. ~marking[c]
  BY <1>a DEF FleetInv, TasksInv, TaskOf, ReservationOf
<1>11. TaskOf(c)'
  <2>1. ReservationOf(c)'
    <3>1. w # NoWorker /\ sel.id = w
      BY RegistryAssumption DEF sel
    <3>2. QED
      BY <1>1, <1>4, <1>5, <1>7, <1>10, <3>1 DEF ReservationOf
  <2>2. EndOf(c)' /\ PlaceOf(c)'
    BY <1>4, <1>6 DEF EndOf, PlaceOf, Admitted, Unfinished
  <2>3. QED
    BY <2>1, <2>2 DEF TaskOf
<1>12. SlotsInv'
  <2>1. ASSUME NEW p \in Caller, at'[p] \in Admitted
        PROVE  at[p] \in Admitted /\ selected'[p] = selected[p]
    BY <2>1, <1>5, <1>6 DEF Admitted, Unfinished
  <2>2. QED
    BY <2>1, SlotsKept DEF FleetInv
<1>13. QED
  BY <1>2, <1>8, <1>9, <1>11, <1>12 DEF TaskChange

LEMMA BeginSelectionKept ==
  ASSUME FleetInv, NEW c \in Caller, NEW s \in Session, NEW m \in Model,
         BeginSelection(c, s, m)
  PROVE  TaskChange(c) /\ UNCHANGED <<selected, at>>
<1>1. /\ Move(c, {"idle"}, "selecting")
      /\ UNCHANGED <<holds, marking, selected, closed, at, workerVars, report, budget>>
  BY DEF BeginSelection, ReadBinding
<1>2. /\ step[c] = "idle" /\ step'[c] = "selecting" /\ step' \in [Caller -> Step]
      /\ \A p \in Caller \ {c} : step'[p] = step[p]
  BY <1>1, StepTyped DEF FleetInv, Step
<1>3. FleetTypes'
  BY <1>1, <1>2 DEF FleetTypes, FleetInv, workerVars
<1>4. TaskOf(c)'
  BY <1>1, <1>2 DEF FleetInv, TasksInv, TaskOf, ReservationOf, EndOf, PlaceOf, Reachable,
                    workerVars
<1>5. QED
  BY <1>1, <1>2, <1>3, <1>4 DEF TaskChange, Untouched

LEMMA RegistryStepKept ==
  ASSUME FleetInv, NEW c \in Caller,
         SelectionEnds(c) \/ MarkFailed(c) \/ DropFailed(c) \/ UnaryLeaves(c) \/ StreamAbandoned(c)
           \/ ReleaseWorker(c)
  PROVE  TaskChange(c) /\ UNCHANGED <<selected, at>>
<1>t. FleetTypes /\ IndInv /\ ReservationOf(c) /\ EndOf(c) /\ PlaceOf(c)
  BY DEF FleetInv, TasksInv, TaskOf
<1>k. ASSUME step' \in [Caller -> Step], closed' \subseteq Caller, closed \subseteq closed',
             \A p \in Caller \ {c} :
               step'[p] = step[p] /\ holds'[p] = holds[p] /\ marking'[p] = marking[p],
             UNCHANGED <<selected, at, workerVars, report, budget>>,
             ReservationOf(c)', EndOf(c)'
      PROVE  TaskChange(c) /\ UNCHANGED <<selected, at>>
  <2>1. PlaceOf(c)'
    BY <1>k, <1>t DEF PlaceOf, Reachable, workerVars
  <2>2. \A p \in Caller \ {c} : Untouched(p)
    BY <1>k DEF Untouched
  <2>3. FleetTypes'
    BY <1>k, <1>t DEF FleetTypes, workerVars
  <2>4. QED
    BY <1>k, <2>1, <2>2, <2>3 DEF TaskChange, TaskOf
<1>1. CASE MarkFailed(c)
  <2>1. /\ step[c] \in {"failed", "broken", "cancelFailed"}
        /\ marking' = [marking EXCEPT ![c] = TRUE]
        /\ UNCHANGED <<step, selected, closed, holds, at, workerVars, report, budget>>
    BY <1>1 DEF MarkFailed, MarkOffline, taskVars
  <2>2. \A p \in Caller \ {c} : marking'[p] = marking[p]
    BY <2>1, <1>t, MarkingSet
  <2>3. ReservationOf(c)' /\ EndOf(c)'
    BY <2>1, <1>t DEF ReservationOf, EndOf, Gone
  <2>4. QED
    BY <2>1, <2>2, <2>3, <1>k, <1>t DEF FleetTypes
<1>2. CASE DropFailed(c)
  <2>1. PICK to \in AfterMark(c) :
          /\ Move(c, {"failed", "broken", "cancelFailed"}, to)
          /\ marking' = [marking EXCEPT ![c] = FALSE]
          /\ UNCHANGED <<holds, selected, closed, at, workerVars, report, budget>>
    BY <1>2 DEF DropFailed, DropBindings
  <2>2. /\ step[c] = "broken" => to = "cancelling" \/ (to = "releasing" /\ at[c] \notin Unfinished)
        /\ step[c] # "broken" => to \in {"failing", "gaveUp"}
    BY DEF AfterMark
  <2>3. to \in {"cancelling", "releasing", "failing", "gaveUp"}
    BY <2>2
  <2>4. /\ step[c] \in {"failed", "broken", "cancelFailed"} /\ step'[c] = to
        /\ step' \in [Caller -> Step] /\ \A p \in Caller \ {c} : step'[p] = step[p]
    BY <2>1, <2>3, <1>t, StepTyped DEF Step
  <2>5. marking'[c] = FALSE /\ \A p \in Caller \ {c} : marking'[p] = marking[p]
    BY <2>1, <1>t, MarkingSet
  <2>6. ReservationOf(c)'
    BY <2>1, <2>3, <2>4, <2>5, <1>t DEF ReservationOf
  <2>7. EndOf(c)'
    BY <2>1, <2>2, <2>3, <2>4, <1>t DEF EndOf, Gone
  <2>8. QED
    BY <2>1, <2>4, <2>5, <2>6, <2>7, <1>k, <1>t DEF FleetTypes
<1>3. CASE UnaryLeaves(c)
  <2>1. /\ c \notin StreamingCaller /\ Move(c, {"sending", "failed"}, "cancelling")
        /\ closed' = closed \cup {c} /\ marking' = [marking EXCEPT ![c] = FALSE]
        /\ UNCHANGED <<holds, selected, at, workerVars, report, budget>>
    BY <1>3 DEF UnaryLeaves
  <2>2. /\ step[c] \in {"sending", "failed"} /\ step'[c] = "cancelling"
        /\ step' \in [Caller -> Step] /\ \A p \in Caller \ {c} : step'[p] = step[p]
    BY <2>1, <1>t, StepTyped DEF Step
  <2>3. marking'[c] = FALSE /\ \A p \in Caller \ {c} : marking'[p] = marking[p]
    BY <2>1, <1>t, MarkingSet
  <2>4. ReservationOf(c)' /\ EndOf(c)'
    BY <2>1, <2>2, <2>3, <1>t DEF ReservationOf, EndOf, Gone
  <2>5. closed' \subseteq Caller /\ closed \subseteq closed'
    BY <2>1, <1>t DEF FleetTypes
  <2>6. QED
    BY <2>1, <2>2, <2>3, <2>4, <2>5, <1>k
<1>4. CASE StreamAbandoned(c)
  <2>1. /\ Move(c, {"sending", "failed", "refusing", "failing"}, "done")
        /\ holds' = [holds EXCEPT ![c] = NoWorker]
        /\ closed' = closed \cup {c} /\ marking' = [marking EXCEPT ![c] = FALSE]
        /\ UNCHANGED <<selected, at, workerVars, report, budget>>
    BY <1>4 DEF StreamAbandoned, Abandon
  <2>2. /\ step'[c] = "done"
        /\ step' \in [Caller -> Step] /\ \A p \in Caller \ {c} : step'[p] = step[p]
    BY <2>1, <1>t, StepTyped DEF Step
  <2>3. /\ marking'[c] = FALSE /\ holds'[c] = NoWorker
        /\ \A p \in Caller \ {c} : marking'[p] = marking[p] /\ holds'[p] = holds[p]
    BY <2>1, <1>t, MarkingSet, HoldsSet
  <2>4. ReservationOf(c)' /\ EndOf(c)'
    BY <2>2, <2>3 DEF ReservationOf, EndOf
  <2>5. closed' \subseteq Caller /\ closed \subseteq closed'
    BY <2>1, <1>t DEF FleetTypes
  <2>6. QED
    BY <2>1, <2>2, <2>3, <2>4, <2>5, <1>k
<1>5. CASE ReleaseWorker(c)
  <2>1. /\ Move(c, {"releasing", "refusing", "failing", "gaveUp"}, "done") /\ ~marking[c]
        /\ holds' = [holds EXCEPT ![c] = NoWorker]
        /\ closed' = closed \cup {c} /\ UNCHANGED marking
        /\ UNCHANGED <<selected, at, workerVars, report, budget>>
    BY <1>5 DEF ReleaseWorker, Release
  <2>2. /\ step'[c] = "done"
        /\ step' \in [Caller -> Step] /\ \A p \in Caller \ {c} : step'[p] = step[p]
    BY <2>1, <1>t, StepTyped DEF Step
  <2>3. /\ holds'[c] = NoWorker
        /\ \A p \in Caller \ {c} : marking'[p] = marking[p] /\ holds'[p] = holds[p]
    BY <2>1, <1>t, HoldsSet
  <2>4. ReservationOf(c)' /\ EndOf(c)'
    BY <2>1, <2>2, <2>3 DEF ReservationOf, EndOf
  <2>5. closed' \subseteq Caller /\ closed \subseteq closed'
    BY <2>1, <1>t DEF FleetTypes
  <2>6. QED
    BY <2>1, <2>2, <2>3, <2>4, <2>5, <1>k
<1>6. CASE SelectionEnds(c)
  <2>1. /\ Move(c, {"selecting"}, "done")
        /\ UNCHANGED <<holds, marking, selected, closed, at, workerVars, report, budget>>
    BY <1>6 DEF SelectionEnds, LeaveSelection
  <2>2. /\ step[c] = "selecting" /\ step'[c] = "done"
        /\ step' \in [Caller -> Step] /\ \A p \in Caller \ {c} : step'[p] = step[p]
    BY <2>1, <1>t, StepTyped DEF Step
  <2>3. ReservationOf(c)' /\ EndOf(c)'
    BY <2>1, <2>2, <1>t DEF ReservationOf, EndOf
  <2>4. QED
    BY <2>1, <2>2, <2>3, <1>k, <1>t DEF FleetTypes
<1>7. QED
  BY <1>1, <1>2, <1>3, <1>4, <1>5, <1>6

-----------------------------------------------------------------------------
(* The workers' reports and the processes.                                 *)

FleetStep == FleetTypes' /\ TasksInv' /\ SlotsInv' /\ ReportsInv'

LEMMA SlotsSame ==
  ASSUME SlotsInv, UNCHANGED <<selected, at>>
  PROVE  SlotsInv'
BY DEF SlotsInv, Used, Occupants

(* Reports and crashes aside, nothing of a task changes.                   *)
LEMMA TasksSame ==
  ASSUME FleetInv, UNCHANGED <<step, selected, closed, at, up, addr, holds, marking>>
  PROVE  TasksInv' /\ SlotsInv'
<1>1. \A p \in Caller : Untouched(p) /\ TaskOf(p)
  BY DEF Untouched, FleetInv, TasksInv
<1>2. \A p \in Caller : TaskOf(p)'
  BY <1>1, UntouchedKept DEF workerVars
<1>3. QED
  BY <1>2, SlotsSame DEF TasksInv, FleetInv

LEMMA ReportSet ==
  ASSUME FleetInv, NEW w \in Worker, NEW rep \in Reports,
         rep.kind \in {"register", "heartbeat"} => rep.cap \in Capabilities(w),
         report' = [report EXCEPT ![w] = rep]
  PROVE  report' \in [Worker -> Reports] /\ ReportsInv'
<1>1. /\ report' \in [Worker -> Reports] /\ report'[w] = rep
      /\ \A v \in Worker \ {w} : report'[v] = report[v]
  BY Updated DEF FleetInv, FleetTypes
<1>2. QED
  BY <1>1 DEF ReportsInv, ReportOf, FleetInv

LEMMA ReportKinds ==
  ASSUME NEW a \in Address, NEW cap \in CapabilityRecord
  PROVE  /\ NoReport \in Reports /\ NotFound \in Reports
         /\ HeartbeatOf(cap) \in Reports /\ Registration(a, cap) \in Reports
         /\ NoReport.kind = "none" /\ NotFound.kind = "notFound"
         /\ HeartbeatOf(cap).cap = cap /\ Registration(a, cap).cap = cap
BY DEF Reports, NoReport, NotFound, HeartbeatOf, Registration

LEMMA EmptyReports ==
  /\ NoReport \in Reports /\ NotFound \in Reports
  /\ NoReport.kind = "none" /\ NotFound.kind = "notFound"
BY DEF Reports, NoReport, NotFound

LEMMA ReportProgressKept ==
  ASSUME FleetInv, NEW w \in Worker, ReportProgress(w)
  PROVE  FleetStep
<1>1. Capability(w) \in Capabilities(w) /\ Capability(w) \in CapabilityRecord
  BY CapabilityTrue, CapabilitiesTyped DEF FleetInv
<1>2. addr[w] \in Address
  BY DEF FleetInv, FleetTypes
<1>3. PICK rep : /\ rep \in Reports
                 /\ rep.kind \in {"register", "heartbeat"} => rep.cap \in Capabilities(w)
                 /\ ReportStep(w, rep) /\ UNCHANGED <<holds, marking>>
  <2>1. CASE SendHeartbeat(w)
    BY <2>1, <1>1, <1>2, ReportKinds DEF SendHeartbeat, registryVars, vars
  <2>2. CASE Reregister(w)
    BY <2>2, <1>1, <1>2, ReportKinds DEF Reregister, registryVars, vars
  <2>3. CASE DeliverHeartbeat(w)
    BY <2>3, EmptyReports DEF DeliverHeartbeat, Heartbeat, registryVars, vars
  <2>4. CASE DeliverRegistration(w)
    BY <2>4, EmptyReports DEF DeliverRegistration, Register
  <2>5. QED
    BY <2>1, <2>2, <2>3, <2>4 DEF ReportProgress
<1>4. /\ report' = [report EXCEPT ![w] = rep]
      /\ UNCHANGED <<step, selected, closed, at, up, addr, budget>>
  BY <1>3 DEF ReportStep, taskVars, workerVars
<1>5. report' \in [Worker -> Reports] /\ ReportsInv'
  BY <1>3, <1>4, ReportSet
<1>6. TasksInv' /\ SlotsInv'
  BY <1>3, <1>4, TasksSame
<1>7. FleetTypes'
  BY <1>4, <1>5 DEF FleetTypes, FleetInv
<1>8. QED
  BY <1>5, <1>6, <1>7 DEF FleetStep

LEMMA ReportLostKept ==
  ASSUME FleetInv, NEW w \in Worker, ReportLost(w)
  PROVE  FleetStep
<1>1. /\ report' = [report EXCEPT ![w] = NoReport] /\ budget.losses > 0
      /\ budget' = [budget EXCEPT !.losses = budget.losses - 1]
      /\ UNCHANGED <<registryVars, taskVars, at, workerVars>>
  BY DEF ReportLost
<1>2. UNCHANGED <<step, selected, closed, at, up, addr, holds, marking>>
  BY <1>1 DEF registryVars, vars, taskVars, workerVars
<1>3. report' \in [Worker -> Reports] /\ ReportsInv'
  BY <1>1, EmptyReports, ReportSet
<1>4. budget' \in Budget
  BY <1>1, FleetAssumption DEF FleetInv, FleetTypes, Budget
<1>5. FleetTypes'
  BY <1>2, <1>3, <1>4 DEF FleetTypes, FleetInv
<1>6. QED
  BY <1>2, <1>3, <1>5, TasksSame DEF FleetStep

LEMMA CrashKept ==
  ASSUME FleetInv, NEW w \in Worker, CrashWorker(w)
  PROVE  FleetStep
<1> DEFINE rep == IF report[w] = NotFound THEN NoReport ELSE report[w]
<1>1. /\ budget.crashes > 0 /\ budget' = [budget EXCEPT !.crashes = budget.crashes - 1]
      /\ up' = [up EXCEPT ![w] = FALSE]
      /\ at' = [c \in Caller |-> IF c \in Occupants(w) THEN "lost" ELSE at[c]]
      /\ report' = [report EXCEPT ![w] = rep]
      /\ UNCHANGED <<registryVars, taskVars, addr>>
  BY DEF CrashWorker
<1>2. UNCHANGED <<step, selected, closed, addr, holds, marking>>
  BY <1>1 DEF registryVars, vars, taskVars
<1>3. /\ rep \in Reports
      /\ rep.kind \in {"register", "heartbeat"} => rep.cap \in Capabilities(w)
  BY EmptyReports DEF FleetInv, FleetTypes, ReportsInv, ReportOf
<1> HIDE DEF rep
<1>4. report' \in [Worker -> Reports] /\ ReportsInv'
  BY <1>1, <1>3, ReportSet
<1>5. budget' \in Budget
  BY <1>1, FleetAssumption DEF FleetInv, FleetTypes, Budget
<1>6. at' \in [Caller -> Progress] /\ up' \in [Worker -> BOOLEAN]
  BY <1>1, Updated DEF FleetInv, FleetTypes, Progress
<1>7. FleetTypes'
  BY <1>2, <1>4, <1>5, <1>6 DEF FleetTypes, FleetInv
<1>8. ASSUME NEW p \in Caller PROVE TaskOf(p)'
  <2>1. ReservationOf(p) /\ EndOf(p) /\ PlaceOf(p)
    BY DEF FleetInv, TasksInv, TaskOf
  <2>2. at'[p] = IF p \in Occupants(w) THEN "lost" ELSE at[p]
    BY <1>1
  <2>3. ReservationOf(p)' /\ EndOf(p)'
    BY <2>1, <2>2, <1>2 DEF ReservationOf, EndOf, Gone, Unfinished
  <2>4. ASSUME at'[p] \in Admitted PROVE Reachable(p)'
    <3>1. at[p] \in Admitted /\ p \notin Occupants(w)
      BY <2>2, <2>4 DEF Admitted, Unfinished
    <3>2. Reachable(p) /\ selected[p].id # w
      BY <2>1, <3>1 DEF PlaceOf, Occupants
    <3>3. selected[p].id \in Worker
      BY <3>2 DEF Reachable, FleetInv, FleetTypes, SelectedWorker
    <3>4. up'[selected[p].id] = up[selected[p].id]
      BY <1>1, <3>2, <3>3 DEF FleetInv, FleetTypes
    <3>5. QED
      BY <1>2, <3>2, <3>4 DEF Reachable
  <2>5. QED
    BY <2>3, <2>4 DEF TaskOf, PlaceOf
<1>9. SlotsInv'
  <2>1. ASSUME NEW p \in Caller, at'[p] \in Admitted
        PROVE  at[p] \in Admitted /\ selected'[p] = selected[p]
    BY <2>1, <1>1, <1>2 DEF Admitted, Unfinished
  <2>2. QED
    BY <2>1, SlotsKept DEF FleetInv
<1>10. QED
  BY <1>4, <1>7, <1>8, <1>9 DEF FleetStep, TasksInv

LEMMA StartKept ==
  ASSUME FleetInv, NEW w \in Worker, NEW a \in Address, StartWorker(w, a)
  PROVE  FleetStep
<1>1. /\ ~up[w] /\ up' = [up EXCEPT ![w] = TRUE] /\ addr' = [addr EXCEPT ![w] = a]
      /\ report' = [report EXCEPT ![w] = Registration(a, Capability(w))]
      /\ UNCHANGED <<registryVars, taskVars, at, budget>>
  BY DEF StartWorker
<1>2. UNCHANGED <<step, selected, closed, at, budget, holds, marking>>
  BY <1>1 DEF registryVars, vars, taskVars
<1>3. Capability(w) \in Capabilities(w) /\ Capability(w) \in CapabilityRecord
  BY CapabilityTrue, CapabilitiesTyped DEF FleetInv
<1>4. report' \in [Worker -> Reports] /\ ReportsInv'
  BY <1>1, <1>3, ReportKinds, ReportSet
<1>5. up' \in [Worker -> BOOLEAN] /\ addr' \in [Worker -> Address]
  BY <1>1, Updated DEF FleetInv, FleetTypes
<1>6. FleetTypes'
  BY <1>2, <1>4, <1>5 DEF FleetTypes, FleetInv
<1>7. ASSUME NEW p \in Caller PROVE TaskOf(p)'
  <2>1. ReservationOf(p) /\ EndOf(p) /\ PlaceOf(p)
    BY DEF FleetInv, TasksInv, TaskOf
  <2>2. ReservationOf(p)' /\ EndOf(p)'
    BY <2>1, <1>2 DEF ReservationOf, EndOf, Gone
  <2>3. ASSUME at'[p] \in Admitted PROVE Reachable(p)'
    <3>1. Reachable(p)
      BY <2>1, <2>3, <1>2 DEF PlaceOf
    <3>2. selected[p].id \in Worker /\ selected[p].id # w
      BY <3>1, <1>1 DEF Reachable, FleetInv, FleetTypes, SelectedWorker
    <3>3. /\ up'[selected[p].id] = up[selected[p].id]
          /\ addr'[selected[p].id] = addr[selected[p].id]
      BY <1>1, <3>2 DEF FleetInv, FleetTypes
    <3>4. QED
      BY <1>2, <3>1, <3>3 DEF Reachable
  <2>4. QED
    BY <2>2, <2>3 DEF TaskOf, PlaceOf
<1>8. SlotsInv'
  BY <1>2, SlotsSame DEF FleetInv
<1>9. QED
  BY <1>4, <1>6, <1>7, <1>8 DEF FleetStep, TasksInv

LEMMA RestartKept ==
  ASSUME FleetInv, RestartCoordinator
  PROVE  FleetStep
<1>1. /\ budget.restarts > 0 /\ budget' = [budget EXCEPT !.restarts = budget.restarts - 1]
      /\ holds' = [c \in Caller |-> NoWorker] /\ marking' = [c \in Caller |-> FALSE]
      /\ step' = [c \in Caller |-> IF step[c] = "idle" THEN "idle" ELSE "done"]
      /\ closed' = {c \in Caller : step[c] # "idle"}
      /\ report' = [w \in Worker |-> NoReport]
      /\ UNCHANGED <<selected, at, workerVars>>
  BY DEF RestartCoordinator, Restart
<1>2. budget' \in Budget
  BY <1>1, FleetAssumption DEF FleetInv, FleetTypes, Budget
<1>3. step' \in [Caller -> Step] /\ closed' \subseteq Caller /\ report' \in [Worker -> Reports]
  BY <1>1, EmptyReports DEF Step
<1>4. FleetTypes'
  BY <1>1, <1>2, <1>3 DEF FleetTypes, FleetInv, workerVars
<1>5. ReportsInv'
  BY <1>1, EmptyReports DEF ReportsInv, ReportOf
<1>6. ASSUME NEW p \in Caller PROVE TaskOf(p)'
  <2>1. step'[p] \in {"idle", "done"} /\ holds'[p] = NoWorker /\ ~marking'[p]
    BY <1>1
  <2>2. ReservationOf(p)' /\ EndOf(p)'
    BY <2>1 DEF ReservationOf, EndOf
  <2>3. PlaceOf(p)'
    BY <1>1 DEF FleetInv, TasksInv, TaskOf, PlaceOf, Reachable, workerVars
  <2>4. QED
    BY <2>2, <2>3 DEF TaskOf
<1>7. SlotsInv'
  BY <1>1, SlotsSame DEF FleetInv
<1>8. QED
  BY <1>4, <1>5, <1>6, <1>7 DEF FleetStep, TasksInv

-----------------------------------------------------------------------------

LEMMA FleetInitInv == FleetInit => FleetInv
<1> SUFFICES ASSUME FleetInit PROVE FleetInv
  OBVIOUS
<1>1. IndInv
  BY InitInv DEF FleetInit
<1>2. FleetTypes
  BY EmptyReports, FleetAssumption DEF FleetInit, FleetTypes, Step, Progress, Budget
<1>3. TasksInv
  BY DEF FleetInit, Init, TasksInv, TaskOf, ReservationOf, EndOf, PlaceOf, Admitted,
         Unfinished
<1>4. SlotsInv
  <2>1. ASSUME NEW w \in Worker PROVE Occupants(w) = {}
    BY DEF FleetInit, Occupants, Admitted, Unfinished
  <2>2. \A w \in Worker : Used(w) = 0 /\ Slots[w] \in Nat
    BY <2>1, FS_EmptySet, RegistryAssumption DEF Used
  <2>3. QED
    BY <2>2 DEF SlotsInv
<1>5. ReportsInv
  BY EmptyReports DEF FleetInit, ReportsInv, ReportOf
<1>6. QED
  BY <1>1, <1>2, <1>3, <1>4, <1>5 DEF FleetInv

LEMMA FleetStepInv == FleetInv /\ [FleetNext]_fleetVars => FleetInv'
<1> SUFFICES ASSUME FleetInv, [FleetNext]_fleetVars PROVE FleetInv'
  OBVIOUS
<1>1. IndInv'
  BY StepRefines, StepInv DEF FleetInv
<1>2. FleetStep
  <2>1. ASSUME NEW c \in Caller, TaskChange(c), SlotsInv' PROVE FleetStep
    BY <2>1, TaskChangeKept DEF FleetStep, TaskChange
  <2>2. ASSUME NEW c \in Caller, TaskChange(c), UNCHANGED <<selected, at>> PROVE FleetStep
    BY <2>1, <2>2, SlotsSame DEF FleetInv
  <2>3. ASSUME NEW c \in Caller, NEW m \in Model, TurnAway(c, m) PROVE FleetStep
    BY <2>2, <2>3, TurnAwayKept
  <2>4. ASSUME NEW c \in Caller, NEW s \in Session \cup {NoSession}, NEW m \in Model,
               NEW w \in Worker, Dispatch(c, s, m, w)
        PROVE  FleetStep
    BY <2>1, <2>4, DispatchKept
  <2>b. ASSUME NEW c \in Caller, NEW s \in Session, NEW m \in Model, BeginSelection(c, s, m)
        PROVE  FleetStep
    BY <2>2, <2>b, BeginSelectionKept
  <2>5. ASSUME NEW c \in Caller, RequestActs(c) PROVE FleetStep
    <3>1. CASE WorkerActs(c)
      BY <3>1, <2>1, WorkerKept
    <3>2. CASE TaskProgress(c) \/ ClientActs(c)
      BY <3>2, <2>2, MoveKept, RegistryStepKept DEF TaskProgress, ClientActs
    <3>3. CASE CallBreaks(c) \/ CancelBreaks(c)
      BY <3>3, <2>1, <2>2, CallBreaksKept, CancelBreaksKept
    <3>4. QED
      BY <2>5, <3>1, <3>2, <3>3 DEF RequestActs
  <2>6. ASSUME NEW w \in Worker, ReportProgress(w) \/ ReportLost(w) \/ CrashWorker(w)
        PROVE  FleetStep
    BY <2>6, ReportProgressKept, ReportLostKept, CrashKept
  <2>7. ASSUME NEW w \in Worker, NEW a \in Address, StartWorker(w, a) PROVE FleetStep
    BY <2>7, StartKept
  <2>8. CASE RestartCoordinator
    BY <2>8, RestartKept
  <2>9. CASE ClockStep \/ UNCHANGED fleetVars
    <3>1. UNCHANGED <<step, selected, closed, at, up, addr, report, budget, holds, marking>>
      BY <2>9 DEF ClockStep, ExpireAt, Tick, fleetVars, registryVars, vars, taskVars, workerVars
    <3>2. FleetTypes'
      BY <3>1 DEF FleetInv, FleetTypes
    <3>3. QED
      BY <3>1, <3>2, TasksSame, ReportsKept DEF FleetStep, FleetInv
  <2>10. QED
    BY <2>3, <2>4, <2>b, <2>5, <2>6, <2>7, <2>8, <2>9 DEF FleetNext, RequestActs
<1>3. QED
  BY <1>1, <1>2 DEF FleetInv, FleetStep

LEMMA FleetInductive == FleetSpec => []FleetInv
<1>1. QED
  BY FleetInitInv, FleetStepInv, PTL DEF FleetSpec

(* In every reachable state of coordinator and workers, exactly the tasks  *)
(* between selection and release hold a reservation, each on the worker    *)
(* its request was sent to: no path of api.rs releases twice or never      *)
(* reaches its release.                                                    *)
THEOREM ReservationAlwaysMatchesStep == FleetSpec => []ReservationMatchesStep
<1>1. FleetInv => ReservationMatchesStep
  BY DEF FleetInv, FleetTypes, IndInv, FleetTypeOK, TasksInv, TaskOf, ReservationOf,
         ReservationMatchesStep
<1>2. QED
  BY <1>1, FleetInductive, PTL

(* Calls and cancellations may fail although the worker lives, streams may *)
(* stall and workers may crash: a task whose call or cancellation did not  *)
(* fail gives no slot back under a running request, but for the one whose  *)
(* cancellation overtook the call of a unary client that left.             *)
THEOREM NeverReleasedEarly == FleetSpec => []NoEarlyRelease
<1>1. FleetInv => NoEarlyRelease
  BY DEF FleetInv, TasksInv, TaskOf, EndOf, Gone, NoEarlyRelease
<1>2. QED
  BY <1>1, FleetInductive, PTL

(* Whatever tasks, workers, crashes and clients do together, the registry  *)
(* sees only what Registry allows, so its theorems hold inside the fleet.  *)
THEOREM FleetRefinesRegistry == FleetSpec => ImplementsRegistry
<1>1. FleetInit => Init
  BY DEF FleetInit
<1>2. QED
  BY <1>1, StepRefines, FleetInductive, PTL DEF FleetSpec, ImplementsRegistry

(* One of them: no reachable record of the running fleet has a state that  *)
(* disagrees with its counter.                                             *)
THEOREM FleetStateMatchesLoad == FleetSpec => []StateMatchesLoad
<1>1. FleetInv => StateMatchesLoad
  BY DEF FleetInv, IndInv, StateMatchesLoad
<1>2. QED
  BY <1>1, FleetInductive, PTL

=============================================================================
