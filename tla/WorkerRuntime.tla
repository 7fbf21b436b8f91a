--------------------------- MODULE WorkerRuntime ----------------------------
(***************************************************************************)
(* A worker process (worker/src/state.rs and worker/src/api.rs): admission *)
(* by a compare-and-swap loop on the active counter, the table of request  *)
(* controls that cancellation goes through, the two routes that run a      *)
(* generation, and draining.                                               *)
(*                                                                         *)
(* A Handler is one invocation of POST /generate or /generate/stream, a    *)
(* Canceller one invocation of POST /requests/{id}/cancel; both run on     *)
(* their own thread of the runtime, so every atomic access, every lock and *)
(* every await is a step of its own.  The request body of a handler is     *)
(* reduced to the id it carries; bodies refused before try_reserve (a      *)
(* malformed body, another model) never become a handler.                  *)
(***************************************************************************)
EXTENDS Integers, FiniteSets

CONSTANTS Handler, Canceller, RequestId,
          Streaming,    \* the handlers of /generate/stream
          IdOf,         \* the request id each handler's body carries
          MaxRequests,
          NoHandler

ASSUME WorkerAssumption ==
  /\ IsFiniteSet(Handler)
  /\ Streaming \subseteq Handler
  /\ IdOf \in [Handler -> RequestId]
  /\ MaxRequests \in Nat
  /\ NoHandler \notin Handler

VARIABLES active,     \* the AtomicUsize
          draining,   \* the AtomicBool
          controls,   \* request id -> the handler whose control is listed
          completed,  \* handlers whose completion channel holds true
          cancelled,  \* handlers whose cancellation token is cancelled
          pc,         \* where each handler is
          seen,       \* the counter value a handler last loaded
          job,        \* each handler's generation on the model thread
          gone,       \* handlers whose HTTP peer closed the connection
          unread,     \* streams whose peer neither reads nor leaves
          cancel,     \* where each canceller is
          target      \* the handler whose control a canceller found

slotVars == <<active, draining, pc, seen>>
controlVars == <<controls, completed, cancelled>>
cancelVars == <<cancel, target>>
peerVars == <<gone, unread>>
vars == <<slotVars, controlVars, cancelVars, job, peerVars>>

-----------------------------------------------------------------------------

HandlerPc == {"idle", "loading", "deciding", "rejected", "reserved", "conflict",
              "conflicted", "serving", "ending", "unlisted", "finished", "dropped"}

TypeOK ==
  /\ active \in Nat
  /\ draining \in BOOLEAN
  /\ controls \in [RequestId -> Handler \cup {NoHandler}]
  /\ completed \subseteq Handler
  /\ cancelled \subseteq Handler
  /\ pc \in [Handler -> HandlerPc]
  /\ seen \in [Handler -> Nat]
  /\ job \in [Handler -> {"none", "running", "ended"}]
  /\ gone \subseteq Handler /\ unread \subseteq Streaming
  /\ cancel \in [Canceller -> {"idle", "found", "waiting", "acked", "absent"}]
  /\ target \in [Canceller -> Handler \cup {NoHandler}]

Init ==
  /\ active = 0
  /\ draining = FALSE
  /\ controls = [id \in RequestId |-> NoHandler]
  /\ completed = {}
  /\ cancelled = {}
  /\ pc = [h \in Handler |-> "idle"]
  /\ seen = [h \in Handler |-> 0]
  /\ job = [h \in Handler |-> "none"]
  /\ gone = {} /\ unread = {}
  /\ cancel = [c \in Canceller |-> "idle"]
  /\ target = [c \in Canceller |-> NoHandler]

Goto(h, from, to) == pc[h] = from /\ pc' = [pc EXCEPT ![h] = to]

-----------------------------------------------------------------------------
(* try_reserve.                                                            *)

CheckDraining(h) ==
  /\ Goto(h, "idle", IF draining THEN "rejected" ELSE "loading")
  /\ UNCHANGED <<active, draining, seen, controlVars, cancelVars, job, peerVars>>

LoadActive(h) ==
  /\ Goto(h, "loading", "deciding")
  /\ seen' = [seen EXCEPT ![h] = active]
  /\ UNCHANGED <<active, draining, controlVars, cancelVars, job, peerVars>>

RejectAtCapacity(h) ==
  /\ seen[h] >= MaxRequests
  /\ Goto(h, "deciding", "rejected")
  /\ UNCHANGED <<active, draining, seen, controlVars, cancelVars, job, peerVars>>

\* Defect: a plain store of the loaded value plus one, without the compare.
ReserveWithoutCompare(h) ==
  /\ seen[h] < MaxRequests
  /\ Goto(h, "deciding", "reserved")
  /\ active' = seen[h] + 1
  /\ UNCHANGED <<draining, seen, controlVars, cancelVars, job, peerVars>>

Reserve(h) ==
  /\ seen[h] < MaxRequests
  /\ active = seen[h]
  /\ Goto(h, "deciding", "reserved")
  /\ active' = active + 1
  /\ UNCHANGED <<draining, seen, controlVars, cancelVars, job, peerVars>>

(* compare_exchange_weak fails because the counter moved, or spuriously.   *)
RetryReserve(h) ==
  /\ pc[h] = "deciding"
  /\ seen[h] < MaxRequests
  /\ seen' = [seen EXCEPT ![h] = active]
  /\ UNCHANGED <<active, draining, pc, controlVars, cancelVars, job, peerVars>>

-----------------------------------------------------------------------------
(* begin_request, or release_unstarted_request when the id is in use.      *)

Begin(h) ==
  /\ controls[IdOf[h]] = NoHandler
  /\ Goto(h, "reserved", "serving")
  /\ controls' = [controls EXCEPT ![IdOf[h]] = h]
  /\ UNCHANGED <<active, draining, seen, completed, cancelled, cancelVars, job, peerVars>>

RefuseDuplicate(h) ==
  /\ controls[IdOf[h]] # NoHandler
  /\ Goto(h, "reserved", "conflict")
  /\ UNCHANGED <<active, draining, seen, controlVars, cancelVars, job, peerVars>>

\* Defect: the conflicting request keeps the slot it had reserved.
ReleaseUnstartedForgotten(h) ==
  /\ Goto(h, "conflict", "conflicted")
  /\ UNCHANGED <<active, draining, seen, controlVars, cancelVars, job, peerVars>>

ReleaseUnstarted(h) ==
  /\ Goto(h, "conflict", "conflicted")
  /\ active' = active - 1
  /\ UNCHANGED <<draining, seen, controlVars, cancelVars, job, peerVars>>

-----------------------------------------------------------------------------
(* The generation.  It is submitted to the model thread once the session   *)
(* lease was obtained or given up; it ends by itself, or at the next safe  *)
(* boundary after its token was cancelled.  The worker has one model       *)
(* thread: a stream that nobody reads fills its channels, and the thread   *)
(* blocks in its event callback, where it looks at no token.               *)

Blocked == \E g \in unread : job[g] = "running"

SubmitJob(h) ==
  /\ pc[h] = "serving"
  /\ job[h] = "none"
  /\ job' = [job EXCEPT ![h] = "running"]
  /\ UNCHANGED <<slotVars, controlVars, cancelVars, peerVars>>

JobEnds(h) ==
  /\ job[h] = "running" /\ ~Blocked
  /\ job' = [job EXCEPT ![h] = "ended"]
  /\ UNCHANGED <<slotVars, controlVars, cancelVars, peerVars>>

JobStops(h) == h \in cancelled /\ JobEnds(h)

(* The HTTP peer closes its connection.  The future of a /generate handler *)
(* is then dropped at its await, with nothing run after it; the task that  *)
(* /generate/stream spawned lives on and only finds its receiver gone.     *)
PeerLeaves(h) ==
  /\ pc[h] \notin {"idle", "rejected", "conflicted", "finished"}
  /\ gone' = gone \cup {h} /\ unread' = unread \ {h}
  /\ UNCHANGED <<slotVars, controlVars, cancelVars, job>>

(* The peer of a stream stops reading and stays connected, and the events  *)
(* pile up to the stream's task: its send has no deadline.                 *)
PeerStalls(h) ==
  /\ h \in Streaming \ gone
  /\ pc[h] = "serving" /\ job[h] # "none"
  /\ job[h] = "running" => ~Blocked
  /\ unread' = unread \cup {h}
  /\ UNCHANGED <<slotVars, controlVars, cancelVars, job, gone>>

DropHandler(h) ==
  /\ h \in gone \ Streaming
  /\ Goto(h, "serving", "dropped")
  /\ UNCHANGED <<active, draining, seen, controlVars, cancelVars, job, peerVars>>

(* stream(): forwarding an event fails, so it cancels the token and leaves *)
(* its loop without waiting for the model thread.                          *)
StreamBreaks(h) ==
  /\ h \in Streaming \cap gone
  /\ job[h] # "none"
  /\ Goto(h, "serving", "ending")
  /\ cancelled' = cancelled \cup {h}
  /\ UNCHANGED <<active, draining, seen, controls, completed, cancelVars, job, peerVars>>

GenerationReturns(h) ==
  /\ job[h] = "ended" /\ h \notin unread
  /\ Goto(h, "serving", "ending")
  /\ UNCHANGED <<active, draining, seen, controlVars, cancelVars, job, peerVars>>

-----------------------------------------------------------------------------
(* finish_request: the control is removed and its waiters told, and only   *)
(* then is the slot given back.                                            *)

Unlist(h) ==
  /\ Goto(h, "ending", "unlisted")
  /\ completed' = completed \cup ({controls[IdOf[h]]} \ {NoHandler})
  /\ controls' = [controls EXCEPT ![IdOf[h]] = NoHandler]
  /\ UNCHANGED <<active, draining, seen, cancelled, cancelVars, job, peerVars>>

ReleaseSlot(h) ==
  /\ Goto(h, "unlisted", "finished")
  /\ active' = active - 1
  /\ UNCHANGED <<draining, seen, controlVars, cancelVars, job, peerVars>>

-----------------------------------------------------------------------------
(* RequestControls::cancel.                                                *)

FindControl(c, id) ==
  /\ cancel[c] = "idle"
  /\ cancel' = [cancel EXCEPT ![c] =
       IF controls[id] = NoHandler THEN "absent" ELSE "found"]
  /\ target' = [target EXCEPT ![c] = controls[id]]
  /\ UNCHANGED <<slotVars, controlVars, job, peerVars>>

\* Defect: the canceller waits without cancelling the token.
SignalNothing(c) ==
  /\ cancel[c] = "found"
  /\ cancel' = [cancel EXCEPT ![c] = "waiting"]
  /\ UNCHANGED <<slotVars, controls, completed, cancelled, target, job, peerVars>>

SignalCancel(c) ==
  /\ cancel[c] = "found"
  /\ cancel' = [cancel EXCEPT ![c] = "waiting"]
  /\ cancelled' = cancelled \cup {target[c]}
  /\ UNCHANGED <<slotVars, controls, completed, target, job, peerVars>>

\* Defect: the canceller answers once the token is cancelled.
AcknowledgeEarly(c) ==
  /\ cancel[c] = "waiting"
  /\ cancel' = [cancel EXCEPT ![c] = "acked"]
  /\ UNCHANGED <<slotVars, controlVars, target, job, peerVars>>

AcknowledgeCancel(c) ==
  /\ cancel[c] = "waiting"
  /\ target[c] \in completed
  /\ cancel' = [cancel EXCEPT ![c] = "acked"]
  /\ UNCHANGED <<slotVars, controlVars, target, job, peerVars>>

Drain ==
  /\ ~draining
  /\ draining' = TRUE
  /\ UNCHANGED <<active, pc, seen, controlVars, cancelVars, job, peerVars>>

-----------------------------------------------------------------------------

TryReserve(h) ==
  CheckDraining(h) \/ LoadActive(h) \/ RejectAtCapacity(h) \/ Reserve(h) \/ RetryReserve(h)

BeginRequest(h) == Begin(h) \/ RefuseDuplicate(h) \/ ReleaseUnstarted(h)

Generate(h) ==
  SubmitJob(h) \/ JobEnds(h) \/ StreamBreaks(h) \/ GenerationReturns(h)

FinishRequest(h) == Unlist(h) \/ ReleaseSlot(h)

Disconnect(h) == PeerLeaves(h) \/ PeerStalls(h) \/ DropHandler(h)

CancelRequest(c) ==
  (\E id \in RequestId : FindControl(c, id)) \/ SignalCancel(c) \/ AcknowledgeCancel(c)

Next ==
  \/ \E h \in Handler : \/ TryReserve(h) \/ BeginRequest(h) \/ Generate(h)
                        \/ FinishRequest(h) \/ Disconnect(h)
  \/ \E c \in Canceller : CancelRequest(c)
  \/ Drain

(* Tokio polls every runnable task, and the model thread checks the token  *)
(* between batches; the job of a cancelled request comes to that check     *)
(* while the thread is not Blocked, because max_tokens bounds the jobs     *)
(* before it.  Nothing is assumed of the peers, which may never read, of   *)
(* new requests, or of how long a generation runs that nobody cancels.     *)
Fairness ==
  /\ \A h \in Handler : /\ WF_vars(SubmitJob(h)) /\ WF_vars(JobStops(h))
                        /\ WF_vars(GenerationReturns(h))
                        /\ WF_vars(Unlist(h)) /\ WF_vars(ReleaseSlot(h))
  /\ \A c \in Canceller : WF_vars(SignalCancel(c)) /\ WF_vars(AcknowledgeCancel(c))

Spec == Init /\ [][Next]_vars /\ Fairness

-----------------------------------------------------------------------------
(* Properties.                                                             *)

HoldingPc == {"reserved", "conflict", "serving", "ending", "unlisted", "dropped"}

Holders == {h \in Handler : pc[h] \in HoldingPc}

Spent == {h \in Handler : pc[h] \in {"conflicted", "finished"}}

CounterCounts == active = Cardinality(Holders)

(* The counter is exactly the number of handlers between their admission   *)
(* and their release: no path through conflict, cancellation, streaming or *)
(* a dropped future decrements twice or for another handler.               *)
SlotAccounting == TypeOK /\ CounterCounts

(* The worker never runs more requests than it was configured for, whatever *)
(* the interleaving of the compare-and-swap loops.                          *)
CapacityRespected == active <= MaxRequests

(* A handler being served owns the control listed under its id, so at most *)
(* one handler per request id is served and finishing it never removes the *)
(* control of another.                                                     *)
ServingOwnsControl ==
  \A h \in Handler :
    pc[h] \in {"serving", "ending", "dropped"} => controls[IdOf[h]] = h

(* A canceller that answers 204 answers for a request that left the table; *)
(* a unary one has also stopped generating.                                *)
AckMeansFinished ==
  \A c \in Canceller : cancel[c] = "acked" =>
    /\ pc[target[c]] \in {"unlisted", "finished"}
    /\ target[c] \notin Streaming => job[target[c]] = "ended"

WaitsFor(c, h) == cancel[c] = "waiting" /\ target[c] = h

(* Every cancellation is answered, unless the handler it waits for was     *)
(* dropped with its connection, or as long as some stream of the worker    *)
(* has a peer that neither reads nor leaves: the cancelled stream itself,  *)
(* or one that holds the model thread.                                     *)
CancelAnswered ==
  \A c \in Canceller, h \in Handler :
    WaitsFor(c, h) ~> (cancel[c] = "acked" \/ pc[h] = "dropped" \/ unread # {})

(* README.md: a worker whose client disconnected stops at the next safe    *)
(* llama.cpp boundary and only then releases its capacity.                 *)
ReleasedAfterStop ==
  \A h \in Handler : pc[h] = "finished" => job[h] # "running"

(* The counter and the compare-and-swap loop implement the slots.          *)
Slots == INSTANCE WorkerSlots WITH holding <- Holders, spent <- Spent

ImplementsSlots == Slots!Spec

=============================================================================
