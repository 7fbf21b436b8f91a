----------------------------- MODULE StreamRelay ----------------------------
(***************************************************************************)
(* One streamed request, end to end: the model thread                      *)
(* (decompute-sdk/src/gguf.rs) pushes events into the SDK's bounded        *)
(* channel, the worker task (worker/src/state.rs, stream) moves them to    *)
(* the channel behind its SSE response (worker/src/api.rs), the response   *)
(* crosses a connection with finite buffers, and the coordinator's task    *)
(* (coordinator/src/api.rs, forward_worker_stream) moves them to the       *)
(* bounded channel behind the client's SSE response.  Every hop blocks     *)
(* when the next one is full.                                              *)
(*                                                                         *)
(* Text(i) is the i-th text delta of the generation.                       *)
(***************************************************************************)
EXTENDS Integers, Sequences, SequencesExt

CONSTANTS MaxDeltas,   \* bound: text deltas of the generation (max_tokens)
          SdkCap,      \* mpsc::channel(32) in gguf.rs
          WorkerCap,   \* mpsc::channel(32) in worker api.rs
          WireCap,     \* socket and HTTP buffers between the processes
          PublicCap    \* mpsc::channel(32) in coordinator api.rs

ASSUME RelayAssumption == {MaxDeltas, SdkCap, WorkerCap, WireCap, PublicCap} \subseteq Nat \ {0}

VARIABLES gen,        \* the model thread
          deltas,     \* deltas generated so far
          outcome,    \* what the thread has handed on as its end
          token,      \* is the request's cancellation token cancelled?
          sdk,        \* the SDK's channel
          worker,     \* the worker's task: "relaying", "broken" or "done"
          events,     \* the worker's channel
          wire,       \* what is between the processes
          link,       \* "open", "ended" by the worker, "dropped" by the coordinator, "reset"
          coord,      \* the coordinator's task
          completed,  \* its flag
          public,     \* its channel
          connected,  \* is the client there?
          got         \* what the client has received

genVars == <<gen, deltas, outcome>>
workerVars == <<worker, events>>
coordVars == <<coord, completed, public>>
clientVars == <<connected, got>>
vars == <<genVars, token, sdk, workerVars, wire, link, coordVars, clientVars>>

Text(i) == <<"text", i>>
Completed(o) == <<"completed", o>>
Error == <<"error", 0>>
Role == <<"role", 0>>
Done == <<"[DONE]", 0>>
ToolCalls == <<"tool_calls", 0>>
Finish == <<"finish", 0>>

(* The model's answer is text, or text and tool calls.                     *)
Outcome == {"text", "calls"}

Delta == {Text(i) : i \in 1..MaxDeltas}
Completion == {Completed(o) : o \in Outcome}
Event == Delta \cup Completion \cup {Error}
Chunk == Delta \cup {Role, ToolCalls, Finish, Error, Done}

TypeOK ==
  /\ gen \in {"computing", "sending", "completing", "failing", "ended"}
  /\ deltas \in 0..MaxDeltas /\ outcome \in Outcome \cup {"none", "error"}
  /\ token \in BOOLEAN
  /\ sdk \in Seq(Event) /\ Len(sdk) <= SdkCap
  /\ worker \in {"relaying", "broken", "done", "crashed"}
  /\ events \in Seq(Event) /\ Len(events) <= WorkerCap
  /\ wire \in Seq(Event \cup {Done}) /\ Len(wire) <= WireCap
  /\ link \in {"open", "ended", "dropped", "reset"}
  /\ coord \in {"role", "reading", "finishing", "ended", "cancelling", "awaiting",
                "releasing", "released", "givingUp", "gaveUp", "crashed"}
  /\ completed \in BOOLEAN
  /\ public \in Seq(Chunk) /\ Len(public) <= PublicCap
  /\ connected \in BOOLEAN
  /\ got \in Seq(Chunk)

(* The worker has accepted the request and answered 200.                   *)
Init ==
  /\ gen = "computing" /\ deltas = 0 /\ outcome = "none" /\ token = FALSE
  /\ sdk = <<>> /\ worker = "relaying" /\ events = <<>>
  /\ wire = <<>> /\ link = "open"
  /\ coord = "role" /\ completed = FALSE /\ public = <<>>
  /\ connected = TRUE /\ got = <<>>

-----------------------------------------------------------------------------
(* The model thread.  blocking_send blocks it inside the callback, where   *)
(* it does not look at the cancellation token.                             *)

Compute ==
  /\ gen = "computing"
  /\ gen' \in IF token THEN {"failing"}
              ELSE {"completing", "failing"} \cup (IF deltas < MaxDeltas THEN {"sending"} ELSE {})
  /\ UNCHANGED <<deltas, outcome, token, sdk, workerVars, wire, link, coordVars, clientVars>>

Push(e) ==
  /\ worker = "relaying" /\ Len(sdk) < SdkCap
  /\ sdk' = Append(sdk, e)
  /\ UNCHANGED <<token, workerVars, wire, link, coordVars, clientVars>>

SendText ==
  /\ gen = "sending" /\ gen' = "computing"
  /\ deltas' = deltas + 1 /\ Push(Text(deltas + 1))
  /\ UNCHANGED outcome

SendEnd ==
  /\ gen' = "ended" /\ UNCHANGED deltas
  /\ \/ /\ gen = "completing"
        /\ \E o \in Outcome : outcome' = o /\ Push(Completed(o))
     \/ gen = "failing" /\ outcome' = "error" /\ Push(Error)

(* The receiver was dropped: the callback fails and so does the event that *)
(* would report it.                                                        *)
SendFails ==
  /\ gen \in {"sending", "completing", "failing"}
  /\ worker # "relaying"
  /\ gen' = "ended"
  /\ UNCHANGED <<deltas, outcome, token, sdk, workerVars, wire, link, coordVars, clientVars>>

-----------------------------------------------------------------------------
(* The worker.                                                             *)

RelayEvent ==
  /\ worker = "relaying"
  /\ sdk # <<>>
  /\ link = "open"
  /\ Len(events) < WorkerCap
  /\ events' = Append(events, Head(sdk))
  /\ sdk' = Tail(sdk)
  /\ UNCHANGED <<genVars, token, worker, wire, link, coordVars, clientVars>>

RelayBreaks ==
  /\ worker = "relaying"
  /\ sdk # <<>>
  /\ link \in {"dropped", "reset"}
  /\ token' = TRUE
  /\ worker' = "broken"
  /\ sdk' = <<>>
  /\ UNCHANGED <<genVars, events, wire, link, coordVars, clientVars>>

(* finish_request: after the loop broke, or saw the end of the generation. *)
WorkerDone ==
  /\ \/ worker = "broken"
     \/ worker = "relaying" /\ sdk = <<>> /\ gen = "ended"
  /\ worker' = "done"
  /\ UNCHANGED <<genVars, token, sdk, events, wire, link, coordVars, clientVars>>

WriteResponse ==
  /\ link = "open"
  /\ events # <<>>
  /\ Len(wire) < WireCap
  /\ wire' = Append(wire, Head(events))
  /\ events' = Tail(events)
  /\ UNCHANGED <<genVars, token, sdk, worker, link, coordVars, clientVars>>

EndResponse ==
  /\ link = "open"
  /\ events = <<>>
  /\ worker = "done"
  /\ Len(wire) < WireCap
  /\ wire' = Append(wire, Done)
  /\ link' = "ended"
  /\ UNCHANGED <<genVars, token, sdk, workerVars, coordVars, clientVars>>

(* Of what was on its way, some initial part still arrives.                *)
CutOff ==
  /\ link = "open" /\ link' = "reset"
  /\ \E k \in 0..Len(wire) : wire' = SubSeq(wire, 1, k)

CrashWorker ==
  /\ worker # "crashed"
  /\ worker' = "crashed"
  /\ gen' = "ended"
  /\ sdk' = <<>> /\ events' = <<>>
  /\ CutOff \/ (link # "open" /\ UNCHANGED <<link, wire>>)
  /\ UNCHANGED <<deltas, outcome, token, coordVars, clientVars>>

-----------------------------------------------------------------------------
(* The connection breaks under a worker that goes on: the response and the *)
(* receiver of its channel are dropped with it.                            *)
ConnectionBreaks ==
  /\ CutOff /\ events' = <<>>
  /\ UNCHANGED <<genVars, token, sdk, worker, coordVars, clientVars>>

-----------------------------------------------------------------------------
(* The coordinator's task.  An event for the client needs room in the      *)
(* channel; it fails at once when the client is gone.                      *)

Room == Len(public) < PublicCap

Publish(e, next) ==
  /\ connected /\ Room
  /\ public' = Append(public, e)
  /\ coord' = next

(* A send whose failure is ignored.                                        *)
PublishAnyway(e, next) ==
  \/ Publish(e, next)
  \/ ~connected /\ coord' = next /\ UNCHANGED public

Others == <<genVars, token, sdk, workerVars, clientVars>>

SendRole ==
  /\ coord = "role"
  /\ \/ Publish(Role, "reading")
     \/ ~connected /\ coord' = "cancelling" /\ UNCHANGED public
  /\ UNCHANGED <<completed, wire, link, Others>>

\* Defect: the first delta is logged and not forwarded.
ForwardAllButFirst ==
  /\ coord = "reading"
  /\ wire # <<>> /\ Head(wire) \in Delta
  /\ wire' = Tail(wire)
  /\ \/ Head(wire) = Text(1) /\ UNCHANGED <<coord, public>>
     \/ Head(wire) # Text(1) /\ Publish(Head(wire), "reading")
     \/ ~connected /\ coord' = "cancelling" /\ UNCHANGED public
  /\ UNCHANGED <<completed, link, Others>>

ForwardDelta ==
  /\ coord = "reading"
  /\ wire # <<>> /\ Head(wire) \in Delta
  /\ wire' = Tail(wire)
  /\ \/ Publish(Head(wire), "reading")
     \/ ~connected /\ coord' = "cancelling" /\ UNCHANGED public
  /\ UNCHANGED <<completed, link, Others>>

(* A final chunk: the tool calls if there are any, then the finish.        *)
PublishFinal(e) ==
  \/ e = ToolCalls /\ Publish(e, "finishing") /\ UNCHANGED completed
  \/ e = Finish /\ Publish(e, "reading") /\ completed' = TRUE

\* Defect: the task returns without a release when the client is gone.
ForwardCompletedUnreleased ==
  /\ coord = "reading"
  /\ wire # <<>> /\ Head(wire) \in Completion
  /\ connected
  /\ wire' = Tail(wire)
  /\ PublishFinal(IF Head(wire) = Completed("calls") THEN ToolCalls ELSE Finish)
  /\ UNCHANGED <<link, Others>>

ForwardCompleted ==
  /\ coord = "reading"
  /\ wire # <<>> /\ Head(wire) \in Completion
  /\ wire' = Tail(wire)
  /\ \/ PublishFinal(IF Head(wire) = Completed("calls") THEN ToolCalls ELSE Finish)
     \/ ~connected /\ coord' = "releasing" /\ UNCHANGED <<public, completed>>
  /\ UNCHANGED <<link, Others>>

ForwardFinish ==
  /\ coord = "finishing"
  /\ \/ PublishFinal(Finish)
     \/ ~connected /\ coord' = "releasing" /\ UNCHANGED <<public, completed>>
  /\ UNCHANGED <<wire, link, Others>>

\* Defect: the worker's error is logged and not forwarded.
ForwardErrorSilently ==
  /\ coord = "reading"
  /\ wire # <<>> /\ Head(wire) = Error
  /\ wire' = Tail(wire)
  /\ coord' = "releasing"
  /\ UNCHANGED <<completed, public, link, Others>>

ForwardError ==
  /\ coord = "reading"
  /\ wire # <<>> /\ Head(wire) = Error
  /\ wire' = Tail(wire)
  /\ PublishAnyway(Error, "releasing")
  /\ UNCHANGED <<completed, link, Others>>

SkipDone ==
  /\ coord = "reading"
  /\ wire # <<>> /\ Head(wire) = Done
  /\ wire' = Tail(wire)
  /\ UNCHANGED <<coordVars, link, Others>>

BodyFails ==
  /\ coord = "reading"
  /\ link = "reset" /\ wire = <<>>
  /\ PublishAnyway(Error, "ended")
  /\ UNCHANGED <<completed, wire, link, Others>>

BodyEnds ==
  /\ coord = "reading"
  /\ link = "ended" /\ wire = <<>>
  /\ coord' = "ended"
  /\ UNCHANGED <<completed, public, wire, link, Others>>

\* Defect: a stream that was cut short is closed like a complete one.
CloseAlwaysDone ==
  /\ coord = "ended"
  /\ PublishAnyway(Done, "releasing")
  /\ UNCHANGED <<completed, wire, link, Others>>

CloseStream ==
  /\ coord = "ended"
  /\ IF completed THEN PublishAnyway(Done, "releasing")
                  ELSE PublishAnyway(Error, "cancelling")
  /\ UNCHANGED <<completed, wire, link, Others>>

\* Defect: the cancellation is sent and its answer not awaited.
CancelInPassing ==
  /\ coord = "cancelling"
  /\ coord' = "releasing"
  /\ token' = TRUE
  /\ UNCHANGED <<genVars, sdk, workerVars, wire, link, completed, public, clientVars>>

(* The cancellation request: 404 when the worker has finished, an error    *)
(* when it is gone; the response is not read meanwhile.                    *)
Cancel ==
  /\ coord = "cancelling"
  /\ IF worker \in {"done", "crashed"}
     THEN coord' = "releasing" /\ UNCHANGED token
     ELSE coord' = "awaiting" /\ token' = TRUE
  /\ UNCHANGED <<genVars, sdk, workerVars, wire, link, completed, public, clientVars>>

CancelReturns ==
  /\ coord = "awaiting"
  /\ worker \in {"done", "crashed"}
  /\ coord' = "releasing"
  /\ UNCHANGED <<completed, public, wire, link, Others>>

(* The request may break with the worker alive, before or after it arrived:*)
(* the task marks the worker offline and releases it all the same.         *)
CancelBreaks ==
  /\ coord \in {"cancelling", "awaiting"}
  /\ coord' = "givingUp"
  /\ token' = TRUE \/ UNCHANGED token
  /\ UNCHANGED <<genVars, sdk, workerVars, wire, link, completed, public, clientVars>>

(* The reservation is released; returning drops the worker's response.     *)
ReleaseAndReturn ==
  /\ \/ coord = "releasing" /\ coord' = "released"
     \/ coord = "givingUp" /\ coord' = "gaveUp"
  /\ link' = IF link = "open" THEN "dropped" ELSE link
  /\ wire' = <<>>
  /\ UNCHANGED <<completed, public, Others>>

(* The coordinator dies, and every connection it held with it.             *)
CrashCoordinator ==
  /\ coord # "crashed"
  /\ coord' = "crashed"
  /\ link' = IF link = "open" THEN "dropped" ELSE link
  /\ connected' = FALSE
  /\ wire' = <<>> /\ public' = <<>>
  /\ UNCHANGED <<genVars, token, sdk, workerVars, completed, got>>

-----------------------------------------------------------------------------
(* The client.                                                             *)

ClientReads ==
  /\ connected
  /\ public # <<>>
  /\ got' = Append(got, Head(public))
  /\ public' = Tail(public)
  /\ UNCHANGED <<genVars, token, sdk, workerVars, wire, link, coord, completed, connected>>

ClientLeaves ==
  /\ connected
  /\ connected' = FALSE
  /\ public' = <<>>
  /\ UNCHANGED <<genVars, token, sdk, workerVars, wire, link, coord, completed, got>>

ModelThread == Compute \/ SendText \/ SendEnd \/ SendFails
WorkerTask == RelayEvent \/ RelayBreaks \/ WorkerDone
Response == WriteResponse \/ EndResponse
CoordinatorTask ==
  \/ SendRole \/ ForwardDelta \/ ForwardCompleted \/ ForwardFinish \/ ForwardError \/ SkipDone
  \/ BodyFails \/ BodyEnds \/ CloseStream \/ Cancel \/ CancelReturns \/ ReleaseAndReturn

Next ==
  \/ ModelThread \/ WorkerTask \/ Response \/ CoordinatorTask
  \/ CrashWorker \/ CrashCoordinator \/ ConnectionBreaks \/ CancelBreaks
  \/ ClientReads \/ ClientLeaves

(* Threads and tasks run; the client may stop reading without leaving, and *)
(* no connection has to break.                                             *)
Fairness == /\ WF_vars(ModelThread) /\ WF_vars(WorkerTask)
            /\ WF_vars(Response) /\ WF_vars(CoordinatorTask)

Spec == Init /\ [][Next]_vars /\ Fairness

-----------------------------------------------------------------------------
(* Properties.                                                             *)

(* How many of the first k chunks of s are text.                           *)
TextsIn(s, k) == Cardinality({j \in 1..k : s[j] \in Delta})

(* No hop holds more than its channel does, and none loses, repeats or     *)
(* reorders text: the n-th text that the client has or is about to get is  *)
(* the n-th that was generated.                                            *)
TextInOrder ==
  /\ TypeOK
  /\ LET s == got \o public IN
     \A k \in DOMAIN s :
       s[k] \in Delta => TextsIn(s, k) <= deltas /\ s[k] = Text(TextsIn(s, k))

D == INSTANCE Delivery WITH generated <- deltas, shown <- got

(* Four bounded queues, crashes, broken connections, cancellations between *)
(* them and two closing chunks notwithstanding, the client receives an     *)
(* answer as Delivery has it: in order, without gaps, and with [DONE] only *)
(* behind a completion shown in full.                                      *)
ImplementsDelivery == D!Spec

(* The task releases the worker only when the worker has ended the request *)
(* or has sent the event that ends it, or is gone, whichever connection    *)
(* broke: the one task that releases a worker still at work is the one     *)
(* whose cancellation request failed (givingUp).                           *)
ReleasedAfterEnd ==
  coord \in {"releasing", "released"} =>
    gen = "ended" \/ worker \in {"done", "crashed"}

(* The worker's task has an event to pass on, and everything between it    *)
(* and the coordinator's task, which waits for it, is full.                *)
Clogged ==
  /\ coord = "awaiting" /\ worker = "relaying"
  /\ sdk # <<>> /\ Len(events) = WorkerCap /\ Len(wire) = WireCap

Settled == coord \in {"released", "gaveUp", "crashed"}

(* After a disconnect the task releases the worker, or the chain is        *)
(* clogged behind it.                                                      *)
DisconnectReleasesOrClogs == ~connected ~> (Settled \/ Clogged)

(* A client that keeps reading gets an ending: [DONE] or an error.         *)
ReaderSeesEnd ==
  WF_vars(ClientReads) =>
    <>(~connected \/ (got # <<>> /\ Last(got) \in {Done, Error} /\ Settled))

(* README.md: if the client disconnects, the coordinator cancels at the    *)
(* worker, which stops and then releases its capacity.                     *)
DisconnectReleases == ~connected ~> Settled

=============================================================================
