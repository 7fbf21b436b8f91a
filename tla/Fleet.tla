------------------------------- MODULE Fleet --------------------------------
(***************************************************************************)
(* The coordinator and its workers together: the request tasks of          *)
(* coordinator/src/api.rs, the heartbeat loop of worker/src/heartbeat.rs,  *)
(* the HTTP calls between them, calls that fail although the worker lives, *)
(* clients that leave or read no more, worker crashes and coordinator      *)
(* restarts.  The registry's own steps are those of Registry; a worker is  *)
(* reduced to the slots it has given out (WorkerRuntime is its detailed    *)
(* model).                                                                 *)
(*                                                                         *)
(* A Caller is one client request.  Its task in the coordinator is at      *)
(* step[c]; what the worker it was sent to has made of it is at[c].        *)
(***************************************************************************)
EXTENDS Registry

CONSTANTS StreamingCaller,  \* the requests that ask for a stream
          Serves,           \* the model each worker has loaded
          MaxCrashes,       \* bound: worker crashes
          MaxRestarts,      \* bound: coordinator restarts
          MaxLost,          \* bound: reports that do not reach the coordinator
          MaxBreaks         \* bound: calls that fail although the worker lives

ASSUME FleetAssumption ==
  /\ IsFiniteSet(Caller)
  /\ StreamingCaller \subseteq Caller
  /\ Serves \in [Worker -> Model]
  /\ MaxCrashes \in Nat /\ MaxRestarts \in Nat
  /\ MaxLost \in Nat /\ MaxBreaks \in Nat

VARIABLES step,      \* where each request task is
          selected,  \* the SelectedWorker of each request
          at,        \* what that worker has made of the request
          closed,    \* requests whose connection to the worker is closed
          up,        \* is the worker process running?
          addr,      \* the address it listens on
          report,    \* its registration or heartbeat in flight
          budget     \* crashes, restarts, losses and broken calls left

registryVars == vars
taskVars == <<step, selected, closed>>
workerVars == <<up, addr>>
fleetVars == <<registryVars, taskVars, at, workerVars, report, budget>>

-----------------------------------------------------------------------------

(* "blocked": the task waits to hand its client an event that the client   *)
(* does not read.  "failed": the call to the worker failed before its      *)
(* response, "broken": in the middle of its stream.  Four steps release:   *)
(* "releasing" once the worker has answered, ended or been told to,        *)
(* "gaveUp" when the call or the cancellation failed; "refusing" and       *)
(* "failing" likewise, but in the handler, which its client can abort.     *)
Step == {"idle", "selecting", "sending", "forwarding", "blocked", "cancelling",
         "awaiting", "failed", "broken", "cancelFailed", "refusing", "failing",
         "gaveUp", "releasing", "done"}

(* "wire": sent and not yet handled; "stalled": its response is full and   *)
(* nobody will read it; "ended": its last event is sent and the task has   *)
(* its slot for a moment more; "leaked": the handler was dropped while it  *)
(* held a slot; "lost": the call did not arrive or the worker crashed.     *)
Progress == {"none", "wire", "running", "stalled", "ended", "leaked", "refused",
             "finished", "lost"}

(* The worker has not done with the request; it has a slot for it.         *)
Unfinished == {"running", "stalled", "leaked"}
Admitted == Unfinished \cup {"ended"}

NoSelection == [id |-> NoWorker]
SelectedWorker == [id : Worker, address : Address]

CapabilityRecord ==
  [models : SUBSET Model, active : Nat, max : Nat, state : WorkerState]

NoReport == [kind |-> "none"]
NotFound == [kind |-> "notFound"]
Registration(a, cap) == [kind |-> "register", addr |-> a, cap |-> cap]
HeartbeatOf(cap) == [kind |-> "heartbeat", cap |-> cap]

Reports == {NoReport, NotFound}
  \cup [kind : {"register"}, addr : Address, cap : CapabilityRecord]
  \cup [kind : {"heartbeat"}, cap : CapabilityRecord]

Budget == [crashes : 0..MaxCrashes, restarts : 0..MaxRestarts,
           losses : 0..MaxLost, breaks : 0..MaxBreaks]

FleetTypeOK ==
  /\ TypeOK
  /\ step \in [Caller -> Step]
  /\ selected \in [Caller -> SelectedWorker \cup {NoSelection}]
  /\ at \in [Caller -> Progress]
  /\ closed \subseteq Caller
  /\ up \in [Worker -> BOOLEAN]
  /\ addr \in [Worker -> Address]
  /\ report \in [Worker -> Reports]
  /\ budget \in Budget

FleetInit ==
  /\ Init
  /\ step = [c \in Caller |-> "idle"]
  /\ selected = [c \in Caller |-> NoSelection]
  /\ at = [c \in Caller |-> "none"]
  /\ closed = {}
  /\ up = [w \in Worker |-> FALSE]
  /\ addr \in [Worker -> Address]
  /\ report = [w \in Worker |-> NoReport]
  /\ budget = [crashes |-> MaxCrashes, restarts |-> MaxRestarts,
               losses |-> MaxLost, breaks |-> MaxBreaks]

(* The requests that hold a slot of the worker, and what it would report.  *)
Occupants(w) == {c \in Caller : selected[c].id = w /\ at[c] \in Admitted}
Used(w) == Cardinality(Occupants(w))

Capability(w) ==
  [models |-> {Serves[w]}, active |-> Used(w), max |-> Slots[w],
   state |-> IF Used(w) >= Slots[w] THEN "Busy" ELSE "Available"]

Reachable(c) ==
  /\ selected[c] # NoSelection
  /\ up[selected[c].id]
  /\ addr[selected[c].id] = selected[c].address

Move(c, from, to) == step[c] \in from /\ step' = [step EXCEPT ![c] = to]

-----------------------------------------------------------------------------
(* route_request and stream_request: reserve a worker and call it.         *)

BeginSelection(c, s, m) ==
  /\ ReadBinding(c, s, m)
  /\ Move(c, {"idle"}, "selecting")
  /\ UNCHANGED <<selected, closed, at, workerVars, report, budget>>

Dispatch(c, s, m, w) ==
  /\ SelectAndReserve(c, s, m, w)
  /\ Move(c, {IF s = NoSession THEN "idle" ELSE "selecting"}, "sending")
  /\ selected' = [selected EXCEPT ![c] = [id |-> w, address |-> workers[w].address]]
  /\ at' = [at EXCEPT ![c] = "wire"]
  /\ UNCHANGED <<closed, workerVars, report, budget>>

(* 503: no eligible worker has the model.                                  *)
TurnAway(c, m) ==
  /\ Unlocked
  /\ ~ \E w \in Worker : Eligible(w, m)
  /\ Move(c, {"idle"}, "done")
  /\ UNCHANGED <<registryVars, selected, closed, at, workerVars, report, budget>>

(* The same in mid-selection, where the handler can also be dropped.       *)
SelectionEnds(c) ==
  /\ LeaveSelection(c)
  /\ Move(c, {"selecting"}, "done")
  /\ UNCHANGED <<selected, closed, at, workerVars, report, budget>>

-----------------------------------------------------------------------------
(* The worker's side of a call.                                            *)

WorkerStep(c, from, to) ==
  /\ at[c] = from
  /\ at' = [at EXCEPT ![c] = to]
  /\ UNCHANGED <<registryVars, taskVars, workerVars, report, budget>>

\* Defect: admission compares with <= and gives out one slot too many.
WorkerAnswersBeyondLimit(c) ==
  /\ Reachable(c)
  /\ WorkerStep(c, "wire", IF Used(selected[c].id) <= Slots[selected[c].id]
                           THEN "running" ELSE "refused")

WorkerAnswers(c) ==
  /\ Reachable(c)
  /\ WorkerStep(c, "wire", IF Used(selected[c].id) < Slots[selected[c].id]
                           THEN "running" ELSE "refused")

CallLost(c) == at[c] = "wire" /\ ~Reachable(c) /\ WorkerStep(c, "wire", "lost")

(* The generation ends: what is left of it is the end of the stream's task *)
(* (finish_request).  A stalled stream ends when its connection closes.    *)
WorkerEnds(c) ==
  \/ WorkerStep(c, "running", IF c \in StreamingCaller THEN "ended" ELSE "finished")
  \/ c \in closed /\ WorkerStep(c, "stalled", "ended")

WorkerFinishes(c) == WorkerStep(c, "ended", "finished")

(* A stream's response fills up and will not be read again: its client has *)
(* stopped reading, or the task is past reading it and waits for the       *)
(* worker to acknowledge its cancellation.                                 *)
Stall(c) ==
  /\ c \in StreamingCaller \ closed
  /\ step[c] \in {"blocked", "cancelling", "awaiting"}
  /\ WorkerStep(c, "running", "stalled")

(* The future of a /generate handler is dropped with its connection.       *)
HandlerDropped(c) ==
  /\ c \in closed \ StreamingCaller
  /\ WorkerStep(c, "running", "leaked")

-----------------------------------------------------------------------------
(* The rest of the coordinator's task.                                     *)

TaskStep(c, from, to) ==
  /\ Move(c, from, to)
  /\ UNCHANGED <<registryVars, selected, closed, at, workerVars, report, budget>>

Reply(c) ==
  \/ /\ c \notin StreamingCaller
     /\ at[c] \in {"finished", "refused"}
     /\ TaskStep(c, {"sending"}, "releasing")
  \/ /\ c \in StreamingCaller
     /\ at[c] \in {"running", "ended", "finished"}
     /\ TaskStep(c, {"sending"}, "forwarding")
  \/ /\ c \in StreamingCaller
     /\ at[c] = "refused"
     /\ TaskStep(c, {"sending"}, "refusing")

StreamEnds(c) ==
  at[c] \in {"ended", "finished"} /\ TaskStep(c, {"forwarding"}, "releasing")

CallFails(c) ==
  /\ at[c] = "lost"
  /\ TaskStep(c, {"sending", "forwarding"},
              IF step[c] = "sending" THEN "failed" ELSE "broken")

(* The connection of the call breaks or is refused while the worker lives: *)
(* the request may have arrived there, and it goes on.                     *)
CallBreaks(c) ==
  /\ budget.breaks > 0
  /\ budget' = [budget EXCEPT !.breaks = @ - 1]
  /\ \/ Move(c, {"sending"}, "failed")
     \/ Move(c, {"forwarding"}, "broken")
  /\ \/ at[c] # "lost" /\ UNCHANGED at
     \/ at[c] = "wire" /\ at' = [at EXCEPT ![c] = "lost"]
  /\ closed' = closed \cup {c}
  /\ UNCHANGED <<registryVars, selected, workerVars, report>>

(* The first half of mark_offline, then the second and what follows it: a  *)
(* broken stream is cancelled unless its completion had been read.         *)
MarkFailed(c) ==
  /\ step[c] \in {"failed", "broken", "cancelFailed"}
  /\ MarkOffline(c)
  /\ UNCHANGED <<taskVars, at, workerVars, report, budget>>

AfterMark(c) ==
  CASE step[c] = "broken" -> {"cancelling"} \cup
         (IF at[c] \in Unfinished THEN {} ELSE {"releasing"})
    [] step[c] = "failed" /\ c \in StreamingCaller -> {"failing"}
    [] OTHER -> {"gaveUp"}

DropFailed(c) ==
  /\ DropBindings(c)
  /\ \E next \in AfterMark(c) :
       Move(c, {"failed", "broken", "cancelFailed"}, next)
  /\ UNCHANGED <<selected, closed, at, workerVars, report, budget>>

\* Defect: a unary client that leaves ends the task without a release.
UnaryLeavesUnreleased(c) ==
  /\ c \notin StreamingCaller
  /\ Move(c, {"sending", "failed"}, "done")
  /\ closed' = closed \cup {c}
  /\ marking' = [marking EXCEPT ![c] = FALSE]
  /\ UNCHANGED <<workers, affinity, holds, selecting>>
  /\ UNCHANGED <<selected, at, workerVars, report, budget>>

(* A unary client leaves: the select drops the call, which closes its      *)
(* connection (and abandons a mark_offline the call had begun), and then   *)
(* cancels.                                                                *)
UnaryLeaves(c) ==
  /\ c \notin StreamingCaller
  /\ Move(c, {"sending", "failed"}, "cancelling")
  /\ closed' = closed \cup {c}
  /\ marking' = [marking EXCEPT ![c] = FALSE]
  /\ UNCHANGED <<workers, affinity, holds, selecting>>
  /\ UNCHANGED <<selected, at, workerVars, report, budget>>

(* A streaming client leaves before its stream was opened: the handler is  *)
(* dropped where it waits and nothing releases the reservation.            *)
StreamAbandoned(c) ==
  /\ c \in StreamingCaller
  /\ Move(c, {"sending", "failed", "refusing", "failing"}, "done")
  /\ Abandon(c)
  /\ closed' = closed \cup {c}
  /\ UNCHANGED <<selected, at, workerVars, report, budget>>

(* It stops reading, but stays: the task waits in its send.                *)
ClientStalls(c) == TaskStep(c, {"forwarding"}, "blocked")

(* It leaves later: sending the next event fails, so the task cancels, or  *)
(* releases at once if the event was one of the last.                      *)
StreamLeaves(c) ==
  \/ TaskStep(c, {"forwarding", "blocked"}, "cancelling")
  \/ at[c] \notin Unfinished /\ TaskStep(c, {"blocked"}, "releasing")

\* Defect: the cancellation request is answered without waiting.
CancelWithoutWaiting(c) ==
  /\ Reachable(c)
  /\ TaskStep(c, {"cancelling"}, "releasing")

(* POST /requests/{id}/cancel finds the request, or answers 404.           *)
CancelArrives(c) ==
  /\ Reachable(c)
  /\ TaskStep(c, {"cancelling"},
              IF at[c] \in Admitted THEN "awaiting" ELSE "releasing")

CancelAnswers(c) == at[c] = "finished" /\ TaskStep(c, {"awaiting"}, "releasing")

\* Defect: a worker that dies with the cancellation pending is not noticed.
CancelFailsAtOnce(c) ==
  ~Reachable(c) /\ TaskStep(c, {"cancelling"}, "cancelFailed")

CancelFails(c) ==
  \/ ~Reachable(c) /\ TaskStep(c, {"cancelling"}, "cancelFailed")
  \/ at[c] = "lost" /\ TaskStep(c, {"awaiting"}, "cancelFailed")

(* The cancellation's own call breaks although the worker lives.           *)
CancelBreaks(c) ==
  /\ budget.breaks > 0
  /\ budget' = [budget EXCEPT !.breaks = @ - 1]
  /\ Move(c, {"cancelling", "awaiting"}, "cancelFailed")
  /\ UNCHANGED <<registryVars, selected, closed, at, workerVars, report>>

(* The task ends, and the worker's response is dropped with it.            *)
ReleaseWorker(c) ==
  /\ Move(c, {"releasing", "refusing", "failing", "gaveUp"}, "done")
  /\ Release(c)
  /\ closed' = closed \cup {c}
  /\ UNCHANGED <<selected, at, workerVars, report, budget>>

-----------------------------------------------------------------------------
(* The worker's reports.                                                   *)

ReportStep(w, rep) ==
  /\ report' = [report EXCEPT ![w] = rep]
  /\ UNCHANGED <<taskVars, at, workerVars, budget>>

SendHeartbeat(w) ==
  /\ up[w]
  /\ report[w] = NoReport
  /\ ReportStep(w, HeartbeatOf(Capability(w)))
  /\ UNCHANGED registryVars

DeliverHeartbeat(w) ==
  /\ report[w].kind = "heartbeat"
  /\ \/ Heartbeat(w, report[w].cap) /\ ReportStep(w, NoReport)
     \/ /\ Unlocked /\ w \notin DOMAIN workers
        /\ ReportStep(w, NotFound) /\ UNCHANGED registryVars

Reregister(w) ==
  /\ up[w]
  /\ report[w] = NotFound
  /\ ReportStep(w, Registration(addr[w], Capability(w)))
  /\ UNCHANGED registryVars

DeliverRegistration(w) ==
  /\ report[w].kind = "register"
  /\ Register(w, report[w].addr, report[w].cap)
  /\ ReportStep(w, NoReport)

ReportLost(w) ==
  /\ report[w].kind \in {"register", "heartbeat"}
  /\ budget.losses > 0
  /\ budget' = [budget EXCEPT !.losses = @ - 1]
  /\ report' = [report EXCEPT ![w] = NoReport]
  /\ UNCHANGED <<registryVars, taskVars, at, workerVars>>

-----------------------------------------------------------------------------
(* Processes come and go.                                                  *)

(* heartbeat::start registers once and then only sends heartbeats.         *)
StartWorker(w, a) ==
  /\ ~up[w]
  /\ report[w] = NoReport
  /\ up' = [up EXCEPT ![w] = TRUE]
  /\ addr' = [addr EXCEPT ![w] = a]
  /\ report' = [report EXCEPT ![w] = Registration(a, Capability(w))]
  /\ UNCHANGED <<registryVars, taskVars, at, budget>>

CrashWorker(w) ==
  /\ up[w]
  /\ budget.crashes > 0
  /\ budget' = [budget EXCEPT !.crashes = @ - 1]
  /\ up' = [up EXCEPT ![w] = FALSE]
  /\ at' = [c \in Caller |-> IF c \in Occupants(w) THEN "lost" ELSE at[c]]
  /\ report' = [report EXCEPT ![w] = IF @ = NotFound THEN NoReport ELSE @]
  /\ UNCHANGED <<registryVars, taskVars, addr>>

RestartCoordinator ==
  /\ budget.restarts > 0
  /\ budget' = [budget EXCEPT !.restarts = @ - 1]
  /\ Restart
  /\ step' = [c \in Caller |-> IF step[c] = "idle" THEN "idle" ELSE "done"]
  /\ closed' = {c \in Caller : step[c] # "idle"}
  /\ report' = [w \in Worker |-> NoReport]
  /\ UNCHANGED <<selected, at, workerVars>>

ClockStep == (ExpireAt \/ Tick) /\ UNCHANGED <<taskVars, at, workerVars, report, budget>>

-----------------------------------------------------------------------------

TaskProgress(c) ==
  \/ SelectionEnds(c)
  \/ Reply(c) \/ StreamEnds(c) \/ CallFails(c) \/ MarkFailed(c) \/ DropFailed(c)
  \/ CancelArrives(c) \/ CancelAnswers(c) \/ CancelFails(c) \/ ReleaseWorker(c)

ClientActs(c) ==
  UnaryLeaves(c) \/ StreamAbandoned(c) \/ ClientStalls(c) \/ StreamLeaves(c)

WorkerProgress(c) == WorkerAnswers(c) \/ CallLost(c) \/ WorkerFinishes(c)

WorkerActs(c) == WorkerProgress(c) \/ WorkerEnds(c) \/ Stall(c) \/ HandlerDropped(c)

ReportProgress(w) ==
  SendHeartbeat(w) \/ DeliverHeartbeat(w) \/ Reregister(w) \/ DeliverRegistration(w)

FleetNext ==
  \/ \E c \in Caller :
       \/ \E m \in Model :
            \/ TurnAway(c, m)
            \/ \E s \in Session : BeginSelection(c, s, m)
            \/ \E s \in Session \cup {NoSession}, w \in Worker : Dispatch(c, s, m, w)
       \/ TaskProgress(c) \/ CallBreaks(c) \/ CancelBreaks(c)
       \/ ClientActs(c) \/ WorkerActs(c)
  \/ \E w \in Worker :
       \/ ReportProgress(w) \/ ReportLost(w) \/ CrashWorker(w)
       \/ \E a \in Address : StartWorker(w, a)
  \/ RestartCoordinator
  \/ ClockStep

(* A stalled stream may hold the worker's one model thread in its callback *)
(* (blocking_send), and with it every other job of the worker.             *)
HeldUp(w) ==
  \E c \in Caller \ closed : selected[c].id = w /\ at[c] = "stalled"

(* Tasks are polled and workers answer; the heartbeat interval keeps       *)
(* firing.  A generation ends (max_tokens bounds it) unless a stalled      *)
(* stream holds the model thread up.  Clients, crashes, starts, losses and *)
(* broken calls are not forced.  A request takes finitely many steps, so   *)
(* one condition for its task and its worker is as strong as one for each. *)
RequestProgress(c) ==
  \/ TaskProgress(c)
  \/ WorkerProgress(c)
  \/ WorkerEnds(c) /\ ~HeldUp(selected[c].id)

FleetFairness ==
  /\ \A c \in Caller : WF_fleetVars(RequestProgress(c))
  /\ \A w \in Worker : WF_fleetVars(ReportProgress(w))

FleetSpec == FleetInit /\ [][FleetNext]_fleetVars /\ FleetFairness

-----------------------------------------------------------------------------
(* Properties.                                                             *)

(* The task, its reservation and the worker's record agree: exactly the    *)
(* steps between selection and release hold the reservation, and it is on  *)
(* the worker the request was sent to.                                     *)
ReservationMatchesStep ==
  /\ FleetTypeOK
  /\ \A c \in Caller :
       IF step[c] \in {"idle", "selecting", "done"} THEN holds[c] = NoWorker
       ELSE holds[c] = selected[c].id /\ holds[c] # NoWorker

(* A task that has the worker's answer, the end of its stream or the       *)
(* acknowledgement of its cancellation does not give the slot back while   *)
(* the worker still runs the request, except after a cancellation that     *)
(* overtook the call it was to cancel: the worker had answered 404 and     *)
(* admits it afterwards.  What is left are the tasks whose call or         *)
(* cancellation failed (step "failing" or "gaveUp"): the worker may be     *)
(* alive and running, and they have taken it out of routing before.        *)
NoEarlyRelease ==
  \A c \in Caller :
    step[c] \in {"releasing", "refusing"} /\ at[c] \in Unfinished
      => c \in closed \ StreamingCaller

KnownAt(w, a) == w \in DOMAIN workers /\ workers[w].address = a

(* A worker that stays up is known to the coordinator sooner or later,     *)
(* whatever was lost and however often the coordinator forgot it; and it   *)
(* is known at the address it listens on, also when it came back at        *)
(* another one, unless the report that would have told was lost.           *)
WorkersBecomeKnown ==
  \A w \in Worker :
    up[w] ~> \/ ~up[w]
             \/ KnownAt(w, addr[w])
             \/ w \in DOMAIN workers /\ budget.losses < MaxLost

(* What the coordinator and its workers do to the registry is what         *)
(* Registry allows its callers: a reservation per task, a release for each *)
(* that is not abandoned, and reports that lie within a worker's limit.    *)
ImplementsRegistry == Init /\ [][Next]_vars

Quiet(w) ==
  /\ up[w]
  /\ \A c \in Caller :
       /\ step[c] \in {"idle", "done"}
       /\ at[c] \notin {"wire", "running", "stalled", "ended"}

Synced(w) ==
  /\ w \in DOMAIN workers
  /\ workers[w].active = Used(w)
  /\ workers[w].state # "Offline"

(* Once the requests are over, the heartbeats repair whatever drift the    *)
(* stale counts, abandoned handlers and offline marks left behind: the     *)
(* coordinator's count is the worker's own again.                          *)
CountsConverge == \A w \in Worker : Quiet(w) ~> (Synced(w) \/ ~Quiet(w))

(* Every reservation ends, unless the worker leaked the slot, the client   *)
(* of the stream has stopped reading and stays, or a stalled stream holds  *)
(* the worker up: a reservation that never ends has one of them for ever,  *)
(* as none of them comes back once it is over.                             *)
ReservationsEnd ==
  \A c \in Caller :
    holds[c] # NoWorker ~>
      \/ holds[c] = NoWorker
      \/ at[c] = "leaked" \/ step[c] = "blocked" \/ HeldUp(selected[c].id)

(* README.md: if the client disconnects, the coordinator cancels at the    *)
(* worker, which stops and then releases its capacity.                     *)
DisconnectReleases ==
  \A c \in Caller :
    step[c] = "cancelling" ~> (step[c] = "done" /\ c \notin Occupants(selected[c].id))

=============================================================================
