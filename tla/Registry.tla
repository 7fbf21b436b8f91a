------------------------------ MODULE Registry ------------------------------
(***************************************************************************)
(* The coordinator's in-memory registry (coordinator/src/registry.rs) and  *)
(* its scheduler (coordinator/src/scheduler.rs): worker records refreshed  *)
(* by registrations and heartbeats, session affinity, reservation, release *)
(* and the two ways a worker is taken offline.                             *)
(*                                                                         *)
(* Every method that takes the workers lock for its whole body and no      *)
(* other is one action.  mark_offline takes the workers lock, drops it and *)
(* then takes the affinity lock, so it is two actions of the calling       *)
(* request task.  select_and_reserve for a session keeps the workers lock  *)
(* and takes the affinity lock twice, to read the binding and to write it: *)
(* two actions, between which only what needs no workers lock can happen.  *)
(* Instants are ages, advanced by Tick and saturating one past the limit   *)
(* they are compared with.                                                 *)
(***************************************************************************)
EXTENDS Integers, FiniteSets

CONSTANTS Worker,            \* worker ids: naturals, ids are compared for order
          Address,           \* addresses workers register with
          Model,             \* model ids
          Session,           \* X-Decompute-Session-Id values
          Caller,            \* the coordinator's request tasks
          NoWorker,          \* "this task holds no reservation"
          NoSession,         \* a request without a session id
          Rank,              \* acceleration rank of each worker's hardware
          Slots,             \* max_requests each worker is configured with
          HeartbeatTimeout,  \* expire_stale's timeout, in ticks
          AffinityTTL        \* AFFINITY_TTL, in ticks

ASSUME RegistryAssumption ==
  /\ Worker \subseteq Nat
  /\ NoWorker \notin Worker
  /\ NoSession \notin Session
  /\ Rank \in [Worker -> {0, 1}]
  /\ Slots \in [Worker -> Nat]
  /\ HeartbeatTimeout \in Nat
  /\ AffinityTTL \in Nat

VARIABLES workers,   \* worker id -> record; a partial function
          affinity,  \* <<session, model>> -> binding; a partial function
          holds,     \* the worker a request task has reserved, or NoWorker
          marking,   \* is the task between the two halves of mark_offline?
          selecting  \* the task that keeps the workers lock in mid-selection

vars == <<workers, affinity, holds, marking, selecting>>

-----------------------------------------------------------------------------

WorkerState == {"Available", "Busy", "Draining", "Offline"}

WorkerRecord ==
  [address : Address, models : SUBSET Model, active : Nat, max : Nat,
   state : WorkerState, age : 0..(HeartbeatTimeout + 1)]

AffinityBinding == [worker : Worker, age : 0..(AffinityTTL + 1)]

(* A selection between its two looks at the affinity map: for whom, the    *)
(* worker the session's binding named, if it was fresh, and for how long   *)
(* (the new binding will date from the beginning of the selection).        *)
Lookup ==
  [caller : Caller, session : Session, model : Model,
   preferred : Worker \cup {NoWorker}, age : 0..(AffinityTTL + 1)]

NoLookup == [caller |-> "none"]

(* What a worker reports (WorkerRuntime::capabilities): its one model,     *)
(* loaded, and a state derived from the counters read with it.             *)
Capabilities(w) ==
  { cap \in [models : {{m} : m \in Model}, active : 0..Slots[w],
             max : {Slots[w]}, state : {"Available", "Busy", "Draining"}] :
      /\ cap.state = "Busy" => cap.active = cap.max
      /\ cap.state = "Available" => cap.active < cap.max }

TypeOK ==
  /\ DOMAIN workers \subseteq Worker
  /\ workers \in [DOMAIN workers -> WorkerRecord]
  /\ DOMAIN affinity \subseteq Session \X Model
  /\ affinity \in [DOMAIN affinity -> AffinityBinding]
  /\ holds \in [Caller -> Worker \cup {NoWorker}]
  /\ marking \in [Caller -> BOOLEAN]
  /\ selecting \in Lookup \cup {NoLookup}

Put(f, key, val) == [k \in DOMAIN f \cup {key} |-> IF k = key THEN val ELSE f[k]]

Retain(f, keep) == [k \in keep |-> f[k]]

EmptyMap == [k \in {} |-> k]

Init ==
  /\ workers = EmptyMap
  /\ affinity = EmptyMap
  /\ holds = [c \in Caller |-> NoWorker]
  /\ marking = [c \in Caller |-> FALSE]
  /\ selecting = NoLookup

-----------------------------------------------------------------------------
(* The scheduler.                                                          *)

Eligible(w, m) ==
  /\ w \in DOMAIN workers
  /\ workers[w].state = "Available"
  /\ workers[w].active < workers[w].max
  /\ m \in workers[w].models

(* The order of min_by_key: acceleration rank, active requests, id.        *)
Before(v, w) ==
  \/ Rank[v] < Rank[w]
  \/ /\ Rank[v] = Rank[w]
     /\ \/ workers[v].active < workers[w].active
        \/ workers[v].active = workers[w].active /\ v < w

SelectWorker(m, w) ==
  /\ Eligible(w, m)
  /\ \A v \in Worker \ {w} : Eligible(v, m) => Before(w, v)

\* Defect: the session follows the scheduler's choice every time.
RoutedByLoad(preferred, m, w) == SelectWorker(m, w)

(* The worker the session is bound to, when it can take the request.       *)
Routed(preferred, m, w) ==
  IF Eligible(preferred, m) THEN w = preferred ELSE SelectWorker(m, w)

-----------------------------------------------------------------------------
(* The registry's methods.                                                 *)

(* The workers lock is free.                                               *)
Unlocked == selecting = NoLookup

\* Defect: a worker that is known already keeps the address it had.
RegisterKeepsAddress(w, addr, cap) ==
  /\ Unlocked
  /\ workers' = Put(workers, w,
       [address |-> IF w \in DOMAIN workers THEN workers[w].address ELSE addr,
        models |-> cap.models, active |-> cap.active,
        max |-> cap.max, state |-> cap.state, age |-> 0])
  /\ UNCHANGED <<affinity, holds, marking, selecting>>

Register(w, addr, cap) ==
  /\ Unlocked
  /\ workers' = Put(workers, w,
       [address |-> addr, models |-> cap.models, active |-> cap.active,
        max |-> cap.max, state |-> cap.state, age |-> 0])
  /\ UNCHANGED <<affinity, holds, marking, selecting>>

\* Defect: the heartbeat refreshes the counters but not the state.
HeartbeatKeepsState(w, cap) ==
  /\ Unlocked
  /\ w \in DOMAIN workers
  /\ workers' = [workers EXCEPT ![w] =
       [@ EXCEPT !.models = cap.models, !.active = cap.active,
                 !.max = cap.max, !.age = 0]]
  /\ UNCHANGED <<affinity, holds, marking, selecting>>

\* Defect: the heartbeat does not correct the coordinator's own count.
HeartbeatKeepsCount(w, cap) ==
  /\ Unlocked
  /\ w \in DOMAIN workers
  /\ workers' = [workers EXCEPT ![w] =
       [@ EXCEPT !.models = cap.models, !.max = cap.max, !.age = 0,
                 !.state = IF @ = "Offline" THEN "Available" ELSE @]]
  /\ UNCHANGED <<affinity, holds, marking, selecting>>

(* Everything but the address is overwritten; an unknown id is refused.    *)
Heartbeat(w, cap) ==
  /\ Unlocked
  /\ w \in DOMAIN workers
  /\ workers' = [workers EXCEPT ![w] =
       [@ EXCEPT !.models = cap.models, !.active = cap.active,
                 !.max = cap.max, !.state = cap.state, !.age = 0]]
  /\ UNCHANGED <<affinity, holds, marking, selecting>>

Reserved(r) ==
  [r EXCEPT !.active = @ + 1,
            !.state = IF r.active + 1 >= r.max THEN "Busy" ELSE @]

(* The worker of the session's binding, if the binding is fresh.           *)
Preferred(s, m) ==
  IF <<s, m>> \in DOMAIN affinity /\ affinity[<<s, m>>].age <= AffinityTTL
  THEN affinity[<<s, m>>].worker ELSE NoWorker

(* The first half of select_and_reserve for a session: the workers lock is *)
(* taken and kept, the affinity lock only for the look.                    *)
ReadBinding(c, s, m) ==
  /\ Unlocked
  /\ holds[c] = NoWorker
  /\ selecting' = [caller |-> c, session |-> s, model |-> m,
                   preferred |-> Preferred(s, m), age |-> 0]
  /\ UNCHANGED <<workers, affinity, holds, marking>>

Reserve(c, w) ==
  /\ workers' = [workers EXCEPT ![w] = Reserved(@)]
  /\ holds' = [holds EXCEPT ![c] = w]
  /\ UNCHANGED marking

(* The second half, and the whole of it for a request without a session.   *)
SelectAndReserve(c, s, m, w) ==
  \/ /\ s = NoSession
     /\ Unlocked
     /\ holds[c] = NoWorker
     /\ SelectWorker(m, w)
     /\ Reserve(c, w)
     /\ UNCHANGED <<affinity, selecting>>
  \/ /\ s # NoSession
     /\ selecting # NoLookup
     /\ selecting.caller = c /\ selecting.session = s /\ selecting.model = m
     /\ Routed(selecting.preferred, m, w)
     /\ affinity' = Put(affinity, <<s, m>>, [worker |-> w, age |-> selecting.age])
     /\ Reserve(c, w)
     /\ selecting' = NoLookup

(* No worker is eligible, or the handler is dropped at the affinity lock:  *)
(* the workers lock is given back and nothing was changed.                 *)
LeaveSelection(c) ==
  /\ selecting # NoLookup
  /\ selecting.caller = c
  /\ selecting' = NoLookup
  /\ UNCHANGED <<workers, affinity, holds, marking>>

\* Defect: a free slot makes the worker available whatever its state was.
ReleasedRevives(r) ==
  LET left == IF r.active = 0 THEN 0 ELSE r.active - 1 IN
  [r EXCEPT !.active = left, !.state = IF left < r.max THEN "Available" ELSE @]

Released(r) ==
  LET left == IF r.active = 0 THEN 0 ELSE r.active - 1 IN
  [r EXCEPT !.active = left,
            !.state = IF @ = "Busy" /\ left < r.max THEN "Available" ELSE @]

Release(c) ==
  /\ Unlocked
  /\ holds[c] # NoWorker
  /\ ~marking[c]
  /\ workers' = [workers EXCEPT ![holds[c]] = Released(@)]
  /\ holds' = [holds EXCEPT ![c] = NoWorker]
  /\ UNCHANGED <<affinity, marking, selecting>>

MarkOffline(c) ==
  /\ Unlocked
  /\ holds[c] # NoWorker
  /\ ~marking[c]
  /\ workers' = [workers EXCEPT ![holds[c]].state = "Offline"]
  /\ marking' = [marking EXCEPT ![c] = TRUE]
  /\ UNCHANGED <<affinity, holds, selecting>>

DropBindings(c) ==
  /\ marking[c]
  /\ affinity' = Retain(affinity,
       {k \in DOMAIN affinity : affinity[k].worker # holds[c]})
  /\ marking' = [marking EXCEPT ![c] = FALSE]
  /\ UNCHANGED <<workers, holds, selecting>>

(* A streaming handler is dropped with its client's connection while it    *)
(* waits for the worker's response or for the affinity lock: the           *)
(* reservation is not released and the bindings are not dropped.           *)
Abandon(c) ==
  /\ holds[c] # NoWorker
  /\ holds' = [holds EXCEPT ![c] = NoWorker]
  /\ marking' = [marking EXCEPT ![c] = FALSE]
  /\ UNCHANGED <<workers, affinity, selecting>>

(* A unary task's call is dropped by its select while it waits for the     *)
(* affinity lock: the bindings stay, and the task still has its            *)
(* reservation to release.                                                 *)
AbandonMark(c) ==
  /\ marking[c]
  /\ marking' = [marking EXCEPT ![c] = FALSE]
  /\ UNCHANGED <<workers, affinity, holds, selecting>>

Stale(w) == workers[w].age > HeartbeatTimeout

\* Defect: only an available worker is taken offline.
ExpireOnlyAvailable ==
  /\ Unlocked
  /\ workers' = [w \in DOMAIN workers |->
       IF Stale(w) /\ workers[w].state = "Available"
       THEN [workers[w] EXCEPT !.state = "Offline"] ELSE workers[w]]
  /\ UNCHANGED <<affinity, holds, marking, selecting>>

ExpireAt ==
  /\ Unlocked
  /\ workers' = [w \in DOMAIN workers |->
       IF Stale(w) THEN [workers[w] EXCEPT !.state = "Offline"] ELSE workers[w]]
  /\ affinity' = Retain(affinity,
       {k \in DOMAIN affinity :
          /\ affinity[k].age <= AffinityTTL
          /\ affinity[k].worker \in DOMAIN workers
          /\ workers'[affinity[k].worker].state # "Offline"})
  /\ UNCHANGED <<holds, marking, selecting>>

(* The coordinator process stops and starts again: nothing is persisted.   *)
Restart ==
  /\ workers' = EmptyMap
  /\ affinity' = EmptyMap
  /\ holds' = [c \in Caller |-> NoWorker]
  /\ marking' = [c \in Caller |-> FALSE]
  /\ selecting' = NoLookup

Older(age, limit) == IF age > limit THEN age ELSE age + 1

Tick ==
  /\ workers' = [w \in DOMAIN workers |->
       [workers[w] EXCEPT !.age = Older(@, HeartbeatTimeout)]]
  /\ affinity' = [k \in DOMAIN affinity |->
       [affinity[k] EXCEPT !.age = Older(@, AffinityTTL)]]
  /\ selecting' = IF Unlocked THEN selecting
                  ELSE [selecting EXCEPT !.age = Older(@, AffinityTTL)]
  /\ UNCHANGED <<holds, marking>>

-----------------------------------------------------------------------------

WorkerReports ==
  \E w \in Worker : \E cap \in Capabilities(w) :
    \/ Heartbeat(w, cap)
    \/ \E addr \in Address : Register(w, addr, cap)

SelectionStep(c) ==
  \/ \E s \in Session \cup {NoSession}, m \in Model, w \in Worker :
       SelectAndReserve(c, s, m, w)
  \/ LeaveSelection(c)

RequestStep(c) ==
  \/ \E s \in Session, m \in Model : ReadBinding(c, s, m)
  \/ SelectionStep(c)
  \/ Release(c)
  \/ MarkOffline(c)
  \/ DropBindings(c)
  \/ Abandon(c)
  \/ AbandonMark(c)

Next ==
  \/ WorkerReports
  \/ \E c \in Caller : RequestStep(c)
  \/ ExpireAt
  \/ Restart
  \/ Tick

(* main.rs drives expire_stale from an interval; nothing forces a worker   *)
(* to report or a request to arrive.  Whoever keeps the workers lock goes  *)
(* on, and tokio's lock serves its waiters in their order, so that the     *)
(* expiry gets it although selections follow one another: strong fairness. *)
Spec ==
  /\ Init /\ [][Next]_vars
  /\ SF_vars(ExpireAt)
  /\ WF_vars(~Unlocked /\ \E c \in Caller : SelectionStep(c))

-----------------------------------------------------------------------------
(* Properties.                                                             *)

Consistent(r) ==
  /\ r.active <= r.max
  /\ r.state = "Available" => r.active < r.max
  /\ r.state = "Busy" => r.active = r.max

RecordsConsistent == \A w \in DOMAIN workers : Consistent(workers[w])

(* A record's counter does not underflow and never disagrees with its      *)
(* state: an Available worker has a free slot and a Busy one has none,     *)
(* whatever mix of reservations, releases, heartbeats with older counts    *)
(* and offline marks led there.  A Busy record with a free slot would be   *)
(* skipped by the scheduler until a heartbeat repaired it.                 *)
StateMatchesLoad == TypeOK /\ RecordsConsistent

(* A task that holds a reservation finds its worker's record: release and  *)
(* mark_offline are never silently skipped, because records are replaced   *)
(* but not removed while the process lives.                                *)
ReservationKnown ==
  \A c \in Caller :
    /\ holds[c] # NoWorker => holds[c] \in DOMAIN workers
    /\ marking[c] => holds[c] # NoWorker

(* Only the worker itself brings its record back from Offline or Draining: *)
(* a late release by a request whose worker failed does not.               *)
NoResurrection ==
  [][ \A w \in DOMAIN workers \cap DOMAIN workers' :
        /\ workers[w].state \in {"Offline", "Draining"}
        /\ workers'[w].state \in {"Available", "Busy"}
        => WorkerReports ]_vars

(* A session leaves its worker only for a reason: the worker cannot take   *)
(* the request, the binding is too old, or (when the binding disappears)   *)
(* the worker is offline or one of the tasks holding it is taking it       *)
(* offline; or the coordinator restarted.  That the binding was read       *)
(* before it is written changes nothing of this.                           *)
AffinityKept ==
  [][ \A k \in DOMAIN affinity :
        LET w == affinity[k].worker IN
        \/ k \in DOMAIN affinity' /\ affinity'[k].worker = w
        \/ affinity[k].age > AffinityTTL
        \/ k \in DOMAIN affinity' /\ ~Eligible(w, k[2])
        \/ k \notin DOMAIN affinity'
             /\ \/ workers[w].state = "Offline"
                \/ Stale(w)
                \/ \E c \in Caller : marking[c] /\ holds[c] = w
        \/ DOMAIN workers' = {} ]_vars

(* A worker that stopped reporting is taken out of routing.                *)
SilentGoesOffline ==
  \A w \in Worker :
    (w \in DOMAIN workers /\ Stale(w)) ~>
      (w \in DOMAIN workers => ~Stale(w) \/ workers[w].state = "Offline")

=============================================================================
