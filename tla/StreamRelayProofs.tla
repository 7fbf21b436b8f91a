-------------------------- MODULE StreamRelayProofs -------------------------
(***************************************************************************)
(* For any queue sizes and any length of text: a streamed request never    *)
(* gives its reservation back while the worker still generates for it, and *)
(* what its client receives is an answer as Delivery has it, its text in   *)
(* the order in which it was generated.                                    *)
(***************************************************************************)
EXTENDS StreamRelay, FiniteSetTheorems, TLAPS

(* The events after which the model thread has nothing more to do.         *)
Terminal == Completion \cup {Error}
NoneTerminal(s) == \A i \in DOMAIN s : s[i] \notin Terminal

(* Wherever the event that ends the generation is, the thread has ended;   *)
(* a response that ended or broke off belongs to a worker that is done or  *)
(* gone.                                                                   *)
EndInv ==
  /\ gen = "ended" \/ (NoneTerminal(sdk) /\ NoneTerminal(events) /\ NoneTerminal(wire))
  /\ completed \/ coord = "finishing" => gen = "ended"


-----------------------------------------------------------------------------

(* The events differ from one another.                                     *)
LEMMA EventsDiffer ==
  /\ \A e \in Delta : e \notin Terminal
  /\ Delta \subseteq Event /\ Terminal \subseteq Event /\ Done \notin Terminal
  /\ \A i : Text(i) \notin Terminal
BY DEF Delta, Event, Terminal, Completion, Text, Completed, Error, Done

(* What appending, and taking the first element, do to a bounded queue.    *)
LEMMA Appended ==
  ASSUME NEW S, NEW s \in Seq(S), NEW e \in S, NEW n \in Nat, Len(s) < n
  PROVE  Append(s, e) \in Seq(S) /\ Len(Append(s, e)) <= n
OBVIOUS

LEMMA Taken ==
  ASSUME NEW S, NEW s \in Seq(S), s # <<>>, NEW n \in Nat, Len(s) <= n
  PROVE  Head(s) \in S /\ Tail(s) \in Seq(S) /\ Len(Tail(s)) < n
OBVIOUS

LEMMA Capacities ==
  /\ MaxDeltas \in Nat /\ SdkCap \in Nat /\ WorkerCap \in Nat /\ WireCap \in Nat
  /\ PublicCap \in Nat
BY RelayAssumption

Wired == Event \cup {Done}

QueuesOK ==
  /\ sdk \in Seq(Event) /\ Len(sdk) <= SdkCap
  /\ events \in Seq(Event) /\ Len(events) <= WorkerCap
  /\ wire \in Seq(Wired) /\ Len(wire) <= WireCap
  /\ public \in Seq(Chunk) /\ Len(public) <= PublicCap
  /\ got \in Seq(Chunk)
  /\ deltas \in 0..MaxDeltas

StatesOK ==
  /\ gen \in {"computing", "sending", "completing", "failing", "ended"}
  /\ gen = "sending" => deltas < MaxDeltas
  /\ outcome \in Outcome \cup {"none", "error"}
  /\ token \in BOOLEAN
  /\ worker \in {"relaying", "broken", "done", "crashed"}
  /\ link \in {"open", "ended", "dropped", "reset"}
  /\ coord \in {"role", "reading", "finishing", "ended", "cancelling",
                "awaiting", "releasing", "released", "givingUp", "gaveUp", "crashed"}
  /\ completed \in BOOLEAN
  /\ connected \in BOOLEAN

(* A message the coordinator's task publishes.                             *)
LEMMA PublishType ==
  ASSUME QueuesOK, NEW e \in Chunk, NEW next, PublishAnyway(e, next)
  PROVE  public' \in Seq(Chunk) /\ Len(public') <= PublicCap /\ coord' = next
<1>1. CASE Publish(e, next)
  BY <1>1, Appended, Capacities DEF QueuesOK, Publish, Room
<1>2. CASE ~connected /\ coord' = next /\ UNCHANGED public
  BY <1>2 DEF QueuesOK
<1> QED  BY <1>1, <1>2 DEF PublishAnyway

(* A final chunk, or none because the client is gone.                      *)
LEMMA FinalType ==
  ASSUME QueuesOK, NEW e,
         PublishFinal(e) \/ (~connected /\ coord' = "releasing" /\ UNCHANGED <<public, completed>>)
  PROVE  /\ public' \in Seq(Chunk) /\ Len(public') <= PublicCap
         /\ coord' \in {"reading", "finishing", "releasing"}
<1>1. CASE e = ToolCalls /\ Publish(e, "finishing")
  BY <1>1, PublishType DEF Chunk, PublishAnyway
<1>2. CASE e = Finish /\ Publish(e, "reading")
  BY <1>2, PublishType DEF Chunk, PublishAnyway
<1>3. CASE ~connected /\ coord' = "releasing" /\ UNCHANGED public
  BY <1>3 DEF QueuesOK
<1> QED  BY <1>1, <1>2, <1>3 DEF PublishFinal

(* Every queue holds what it may hold, and no more than its capacity.      *)
LEMMA QueuesStep ==
  ASSUME QueuesOK, StatesOK, [Next]_vars
  PROVE  QueuesOK'
<1> USE Capacities
<1> USE DEF QueuesOK, genVars, workerVars, coordVars, clientVars, Others
<1>e. /\ Error \in Chunk /\ Role \in Chunk /\ Done \in Chunk /\ Delta \subseteq Chunk
      /\ Event \subseteq Wired /\ Done \in Wired /\ Error \in Event
      /\ Completion \subseteq Event
  BY DEF Event, Chunk, Wired
<1>p. ASSUME NEW e \in Event, Push(e)
      PROVE  sdk' \in Seq(Event) /\ Len(sdk') <= SdkCap
             /\ UNCHANGED <<events, wire, public, got>>
  BY <1>p, Appended DEF Push
<1>1. CASE Compute              BY <1>1 DEF Compute
<1>2. CASE SendText
  <2>1. deltas + 1 \in 1..MaxDeltas
    BY <1>2 DEF SendText, StatesOK
  <2>2. Text(deltas + 1) \in Event
    BY <2>1 DEF Event, Delta
  <2> QED  BY <1>2, <1>p, <2>1, <2>2 DEF SendText
<1>2a. CASE SendEnd
  <2>1. PICK e \in Event : Push(e)
    <3>1. \A o \in Outcome : Completed(o) \in Event
      BY DEF Event, Completion
    <3> QED  BY <1>2a, <1>e, <3>1 DEF SendEnd
  <2> QED  BY <1>2a, <1>p, <2>1 DEF SendEnd
<1>3. CASE SendFails            BY <1>3 DEF SendFails
<1>4. CASE RelayEvent
  <2>1. Head(sdk) \in Event /\ sdk' \in Seq(Event) /\ Len(sdk') <= SdkCap
    BY <1>4, Taken DEF RelayEvent
  <2>2. events' \in Seq(Event) /\ Len(events') <= WorkerCap
    BY <1>4, <2>1, Appended DEF RelayEvent
  <2> QED  BY <1>4, <2>1, <2>2 DEF RelayEvent
<1>5. CASE RelayBreaks          BY <1>5 DEF RelayBreaks
<1>6. CASE WorkerDone           BY <1>6 DEF WorkerDone
<1>7. CASE WriteResponse
  <2>1. Head(events) \in Event /\ events' \in Seq(Event) /\ Len(events') <= WorkerCap
    BY <1>7, Taken DEF WriteResponse
  <2>2. wire' \in Seq(Wired) /\ Len(wire') <= WireCap
    BY <1>7, <2>1, <1>e, Appended DEF WriteResponse
  <2> QED  BY <1>7, <2>1, <2>2 DEF WriteResponse
<1>8. CASE EndResponse
  <2>1. wire' \in Seq(Wired) /\ Len(wire') <= WireCap
    BY <1>8, <1>e, Appended DEF EndResponse
  <2> QED  BY <1>8, <2>1 DEF EndResponse
<1>9. CASE CrashWorker \/ ConnectionBreaks
  <2>1. wire' \in Seq(Wired) /\ Len(wire') <= WireCap
    <3>1. CASE UNCHANGED wire
      BY <3>1
    <3>2. ASSUME NEW k \in 0..Len(wire), wire' = SubSeq(wire, 1, k)
          PROVE  wire' \in Seq(Wired) /\ Len(wire') <= WireCap
      <4>1. Len(wire) \in Nat /\ k \in Nat /\ k <= Len(wire)
        BY <3>2
      <4>2. \A i \in 1..k : wire[i] \in Wired
        BY <4>1
      <4>3. wire' = [i \in 1..k |-> wire[i]]
        BY <3>2, <4>1
      <4> QED  BY <4>1, <4>2, <4>3
    <3> QED  BY <1>9, <3>1, <3>2 DEF CrashWorker, ConnectionBreaks, CutOff
  <2>2. CASE CrashWorker
    BY <2>1, <2>2 DEF CrashWorker
  <2>3. CASE ConnectionBreaks
    BY <2>1, <2>3 DEF ConnectionBreaks
  <2> QED  BY <1>9, <2>2, <2>3
<1>t. ASSUME wire # <<>>, wire' = Tail(wire)
      PROVE  Head(wire) \in Wired /\ wire' \in Seq(Wired) /\ Len(wire') <= WireCap
  BY <1>t, Taken
<1>10. CASE SendRole
  <2>1. public' \in Seq(Chunk) /\ Len(public') <= PublicCap
    BY <1>10, <1>e, PublishType DEF SendRole, PublishAnyway
  <2> QED  BY <1>10, <2>1 DEF SendRole
<1>11. CASE ForwardDelta
  <2>1. Head(wire) \in Chunk
    BY <1>11, <1>e DEF ForwardDelta
  <2>2. public' \in Seq(Chunk) /\ Len(public') <= PublicCap
    BY <1>11, <2>1, PublishType DEF ForwardDelta, PublishAnyway
  <2> QED  BY <1>11, <1>t, <2>2 DEF ForwardDelta
<1>12. CASE ForwardCompleted
  <2>1. public' \in Seq(Chunk) /\ Len(public') <= PublicCap
    BY <1>12, FinalType DEF ForwardCompleted
  <2> QED  BY <1>12, <1>t, <2>1 DEF ForwardCompleted
<1>12a. CASE ForwardFinish
  <2>1. public' \in Seq(Chunk) /\ Len(public') <= PublicCap
    BY <1>12a, FinalType DEF ForwardFinish
  <2> QED  BY <1>12a, <2>1 DEF ForwardFinish
<1>13. CASE ForwardError
  <2>1. public' \in Seq(Chunk) /\ Len(public') <= PublicCap
    BY <1>13, <1>e, PublishType DEF ForwardError
  <2> QED  BY <1>13, <1>t, <2>1 DEF ForwardError
<1>14. CASE SkipDone            BY <1>14, <1>t DEF SkipDone
<1>15. CASE BodyFails
  <2>1. public' \in Seq(Chunk) /\ Len(public') <= PublicCap
    BY <1>15, <1>e, PublishType DEF BodyFails
  <2> QED  BY <1>15, <2>1 DEF BodyFails
<1>16. CASE BodyEnds            BY <1>16 DEF BodyEnds
<1>17. CASE CloseStream
  <2>1. public' \in Seq(Chunk) /\ Len(public') <= PublicCap
    BY <1>17, <1>e, PublishType DEF CloseStream
  <2> QED  BY <1>17, <2>1 DEF CloseStream
<1>18. CASE Cancel              BY <1>18 DEF Cancel
<1>19. CASE CancelReturns       BY <1>19 DEF CancelReturns
<1>19a. CASE CancelBreaks       BY <1>19a DEF CancelBreaks
<1>20. CASE ReleaseAndReturn    BY <1>20 DEF ReleaseAndReturn
<1>21. CASE CrashCoordinator    BY <1>21 DEF CrashCoordinator
<1>22. CASE ClientReads
  <2>1. Head(public) \in Chunk /\ public' \in Seq(Chunk) /\ Len(public') <= PublicCap
    BY <1>22, Taken DEF ClientReads
  <2>2. got' \in Seq(Chunk)
    BY <1>22, <2>1 DEF ClientReads
  <2> QED  BY <1>22, <2>1, <2>2 DEF ClientReads
<1>23. CASE ClientLeaves        BY <1>23 DEF ClientLeaves
<1>24. CASE UNCHANGED vars      BY <1>24 DEF vars
<1> QED
  BY <1>1, <1>2, <1>2a, <1>3, <1>4, <1>5, <1>6, <1>7, <1>8, <1>9, <1>10, <1>11, <1>12, <1>12a,
     <1>13, <1>14, <1>15, <1>16, <1>17, <1>18, <1>19, <1>19a, <1>20, <1>21, <1>22, <1>23, <1>24
     DEF Next, ModelThread, WorkerTask, Response, CoordinatorTask

(* Every task is somewhere.                                                *)
LEMMA StatesStep ==
  ASSUME StatesOK, [Next]_vars
  PROVE  StatesOK'
<1> USE DEF StatesOK, genVars, workerVars, coordVars, clientVars, Others
<1>1. CASE ModelThread
  BY <1>1 DEF ModelThread, Compute, SendText, SendEnd, Push, SendFails
<1>2. CASE WorkerTask \/ Response \/ CrashWorker \/ ConnectionBreaks
  BY <1>2 DEF WorkerTask, Response, RelayEvent, RelayBreaks, WorkerDone, WriteResponse, EndResponse,
     CrashWorker, ConnectionBreaks, CutOff
<1>3. CASE SendRole \/ ForwardDelta \/ ForwardError \/ SkipDone
  BY <1>3 DEF SendRole, ForwardDelta, ForwardError, SkipDone, PublishAnyway, Publish
<1>6. CASE ForwardCompleted \/ ForwardFinish
  BY <1>6 DEF ForwardCompleted, ForwardFinish, PublishFinal, Publish
<1>4. CASE \/ BodyFails \/ BodyEnds \/ CloseStream \/ Cancel \/ CancelReturns \/ CancelBreaks
           \/ ReleaseAndReturn
  BY <1>4 DEF BodyFails, BodyEnds, CloseStream, Cancel, CancelReturns, CancelBreaks,
     ReleaseAndReturn, PublishAnyway, Publish
<1>5. CASE CrashCoordinator
  BY <1>5 DEF CrashCoordinator
<1>7. CASE ClientReads \/ ClientLeaves
  BY <1>7 DEF ClientReads, ClientLeaves
<1>8. CASE UNCHANGED vars
  BY <1>8 DEF vars
<1> QED
  BY <1>1, <1>2, <1>3, <1>4, <1>5, <1>6, <1>7, <1>8 DEF Next, CoordinatorTask

(* The end of the text travels behind the end of the generation.           *)
LEMMA EndStep ==
  ASSUME QueuesOK, StatesOK, EndInv, [Next]_vars
  PROVE  EndInv'
<1> USE DEF EndInv, NoneTerminal
<1>q. sdk \in Seq(Event) /\ events \in Seq(Event) /\ wire \in Seq(Wired) /\ deltas \in Nat
  BY Capacities DEF QueuesOK
<1>1. CASE gen = "ended"
  <2> USE <1>1 DEF genVars, workerVars, Others
  <2>1. CASE ModelThread
    BY <2>1 DEF ModelThread, Compute, SendText, SendEnd, SendFails
  <2>2. CASE WorkerTask \/ Response \/ CrashWorker \/ ConnectionBreaks
    BY <2>2 DEF WorkerTask, Response, RelayEvent, RelayBreaks, WorkerDone, WriteResponse,
       EndResponse, CrashWorker, ConnectionBreaks, CutOff
  <2>3. CASE CoordinatorTask \/ CancelBreaks
    BY <2>3 DEF CoordinatorTask, SendRole, ForwardDelta, ForwardCompleted, ForwardFinish,
       ForwardError, SkipDone, BodyFails, BodyEnds, CloseStream, Cancel, CancelReturns,
       CancelBreaks, ReleaseAndReturn
  <2>4. CASE CrashCoordinator \/ ClientReads \/ ClientLeaves \/ UNCHANGED vars
    BY <2>4 DEF CrashCoordinator, ClientReads, ClientLeaves, vars
  <2> QED  BY <2>1, <2>2, <2>3, <2>4 DEF Next
<1>2. CASE gen # "ended"
  <2> USE <1>2, <1>q DEF genVars, workerVars, coordVars, Others
  <2>1. CASE Compute            BY <2>1 DEF Compute
  <2>2. CASE SendText
    <3>1. Text(deltas + 1) \notin Terminal
      BY EventsDiffer
    <3> QED  BY <2>2, <3>1 DEF SendText, Push
  <2>2a. CASE SendEnd           BY <2>2a DEF SendEnd, Push
  <2>3. CASE SendFails          BY <2>3 DEF SendFails
  <2>4. CASE RelayEvent         BY <2>4 DEF RelayEvent
  <2>5. CASE RelayBreaks        BY <2>5 DEF RelayBreaks
  <2>6. CASE WorkerDone         BY <2>6 DEF WorkerDone
  <2>7. CASE WriteResponse      BY <2>7 DEF WriteResponse
  <2>8. CASE EndResponse        BY <2>8, EventsDiffer DEF EndResponse
  <2>9. CASE CrashWorker        BY <2>9 DEF CrashWorker
  <2>9a. CASE ConnectionBreaks
    <3>1. UNCHANGED <<completed, coord, sdk, gen>> /\ events' = <<>>
      BY <2>9a DEF ConnectionBreaks
    <3>2. PICK k \in 0..Len(wire) : wire' = SubSeq(wire, 1, k)
      BY <2>9a DEF ConnectionBreaks, CutOff
    <3>3. Len(wire') = k /\ \A i \in 1..k : i \in 1..Len(wire) /\ wire'[i] = wire[i]
      BY <3>2
    <3> QED  BY <3>1, <3>3
  <2>10. CASE SendRole \/ BodyFails \/ BodyEnds \/ CloseStream \/ Cancel \/ CancelReturns
        \/ CancelBreaks
    BY <2>10 DEF SendRole, BodyFails, BodyEnds, CloseStream, Cancel, CancelReturns,
       CancelBreaks, PublishAnyway, Publish
  <2>11. CASE ForwardDelta      BY <2>11 DEF ForwardDelta, Publish
  <2>12. CASE ForwardCompleted
    <3>1. wire[1] \in Completion /\ 1 \in DOMAIN wire
      BY <2>12 DEF ForwardCompleted
    <3> QED  BY <3>1 DEF Terminal
  <2>12a. CASE ForwardFinish    BY <2>12a DEF ForwardFinish
  <2>13. CASE ForwardError \/ SkipDone
    <3>1. /\ wire' = Tail(wire) /\ wire # <<>> /\ UNCHANGED <<completed, gen, sdk, events>>
          /\ coord' # "finishing"
      BY <2>13 DEF ForwardError, SkipDone, PublishAnyway, Publish
    <3> QED  BY <3>1
  <2>14. CASE ReleaseAndReturn \/ CrashCoordinator
    BY <2>14 DEF ReleaseAndReturn, CrashCoordinator
  <2>15. CASE ClientReads \/ ClientLeaves \/ UNCHANGED vars
    BY <2>15 DEF ClientReads, ClientLeaves, vars
  <2> QED
    BY <2>1, <2>2, <2>2a, <2>3, <2>4, <2>5, <2>6, <2>7, <2>8, <2>9, <2>9a, <2>10, <2>11, <2>12,
       <2>12a, <2>13, <2>14, <2>15 DEF Next, ModelThread, WorkerTask, Response, CoordinatorTask
<1> QED  BY <1>1, <1>2

(* The coordinator's task lets go of the worker after an event that ends   *)
(* the generation, or after the worker's answer to the cancellation.       *)
LEMMA ReleaseStep ==
  ASSUME QueuesOK, StatesOK, EndInv, ReleasedAfterEnd, [Next]_vars
  PROVE  ReleasedAfterEnd'
<1> USE DEF ReleasedAfterEnd, genVars, workerVars, coordVars, Others
<1>q. wire \in Seq(Wired)
  BY DEF QueuesOK
<1>1. CASE ModelThread
  BY <1>1 DEF ModelThread, Compute, SendText, SendEnd, Push, SendFails
<1>2. CASE WorkerTask \/ Response \/ CrashWorker \/ ConnectionBreaks
  BY <1>2 DEF WorkerTask, Response, RelayEvent, RelayBreaks, WorkerDone, WriteResponse, EndResponse,
     CrashWorker, ConnectionBreaks, CutOff
<1>3. CASE SendRole \/ ForwardDelta \/ SkipDone \/ BodyFails \/ BodyEnds \/ Cancel \/ CancelReturns
        \/ CancelBreaks
  BY <1>3 DEF SendRole, ForwardDelta, SkipDone, BodyFails, BodyEnds, Cancel, CancelReturns,
     CancelBreaks,
     PublishAnyway, Publish
<1>4. CASE ForwardCompleted \/ ForwardError
  <2>1. wire[1] \in Terminal /\ 1 \in DOMAIN wire
    BY <1>q, <1>4 DEF ForwardCompleted, ForwardError, Terminal
  <2>2. gen = "ended"
    BY <2>1 DEF EndInv, NoneTerminal
  <2> QED  BY <1>4, <2>2 DEF ForwardCompleted, ForwardError
<1>8. CASE ForwardFinish
  BY <1>8 DEF ForwardFinish, EndInv
<1>5. CASE CloseStream
  <2>1. completed => gen = "ended"
    BY DEF EndInv
  <2> QED  BY <1>5, <2>1 DEF CloseStream, PublishAnyway, Publish
<1>6. CASE ReleaseAndReturn \/ CrashCoordinator
  BY <1>6 DEF ReleaseAndReturn, CrashCoordinator
<1>7. CASE ClientReads \/ ClientLeaves \/ UNCHANGED vars
  BY <1>7 DEF ClientReads, ClientLeaves, vars
<1> QED
  BY <1>1, <1>2, <1>3, <1>4, <1>5, <1>6, <1>7, <1>8 DEF Next, CoordinatorTask

IInv == QueuesOK /\ StatesOK /\ EndInv /\ ReleasedAfterEnd

LEMMA InitInv == Init => IInv
<1> SUFFICES ASSUME Init PROVE IInv
  OBVIOUS
<1>1. QueuesOK
  BY Capacities DEF Init, QueuesOK
<1>2. StatesOK
  BY DEF Init, StatesOK
<1>3. EndInv /\ ReleasedAfterEnd
  BY DEF Init, EndInv, NoneTerminal, ReleasedAfterEnd
<1> QED  BY <1>1, <1>2, <1>3 DEF IInv

LEMMA Invariance == Spec => []IInv
<1>1. IInv /\ [Next]_vars => IInv'
  BY QueuesStep, StatesStep, EndStep, ReleaseStep DEF IInv
<1> QED  BY InitInv, <1>1, PTL DEF Spec

(* The queues keep their types and their capacities.                       *)
THEOREM TypeCorrect == Spec => []TypeOK
<1>1. IInv => TypeOK
  BY DEF IInv, QueuesOK, StatesOK, TypeOK, Wired
<1> QED  BY Invariance, <1>1, PTL

(* A task gives its stream's reservation back only when the generation has *)
(* ended or the worker has finished the request or is gone, however the    *)
(* stream broke off.  The task whose cancellation request failed (givingUp,*)
(* gaveUp) is not among them: it releases a worker that may still be at    *)
(* work, and that it has marked offline                                    *)
(* (coordinator/src/api.rs:202-212, 246-286, 412-438).                     *)
THEOREM ReleasedAlwaysAfterEnd == Spec => []ReleasedAfterEnd
<1>1. IInv => ReleasedAfterEnd
  BY DEF IInv
<1> QED  BY Invariance, <1>1, PTL

-----------------------------------------------------------------------------
(* The stream implements Delivery.  The invariant follows every event by   *)
(* its position: what the client has and is about to get are the chunks of *)
(* the answer from its start, and the queues continue where these end.     *)

At(k) == IF k <= Len(got) THEN got[k] ELSE public[k - Len(got)]
Length == Len(got) + Len(public)

(* The answer of d deltas and outcome o, and what closes it.               *)
ClosingOf(o) == IF o = "text" THEN <<Finish, Done>>
            ELSE IF o = "calls" THEN <<ToolCalls, Finish, Done>> ELSE <<>>
Size(d, o) == 1 + d + Len(ClosingOf(o))
Part(d, o, k) == IF k = 1 THEN Role ELSE IF k <= 1 + d THEN Text(k - 1) ELSE ClosingOf(o)[k - 1 - d]

(* Why the client may get the k-th chunk.                                  *)
InAnswer(k) ==
  /\ k <= Size(deltas, outcome) /\ At(k) = Part(deltas, outcome, k)
  /\ \A i \in 1..(k - 1) : At(i) # Error
Cut(k) == k > 1 /\ At(k) = Error /\ At(k - 1) # Done
ClosedAfterCut(k) ==
  /\ k > 1 /\ At(k) = Done /\ At(k - 1) = Error
  /\ \E i \in 1..(k - 1) : At(i) = Finish
Justified(k) == InAnswer(k) \/ Cut(k) \/ ClosedAfterCut(k)

JustInv == connected => \A k \in 1..Length : Justified(k)

(* How far the coordinator's task has come.                                *)
Sound == \A k \in 1..Length : At(k) = Part(deltas, outcome, k)
Complete == Sound /\ outcome \in Outcome /\ Length = Size(deltas, outcome) - 1
Broken ==
  /\ Length > 1 /\ At(Length) = Error
  /\ \E i \in 1..(Length - 1) : At(i) = Finish

PlaceInv ==
  connected =>
    /\ coord = "role" => Length = 0 /\ ~completed
    /\ coord = "reading" => Sound /\ Length >= 1
    /\ coord = "reading" /\ ~completed => Length <= deltas + 1
    /\ coord = "finishing" => Sound /\ outcome = "calls" /\ Length = deltas + 2 /\ ~completed
    /\ coord = "reading" /\ completed => Complete
    /\ coord = "ended" /\ ~completed => Length >= 1 /\ At(Length) # Done
    /\ coord = "ended" /\ completed => Complete \/ Broken

(* What may be the n-th event of d deltas and outcome o, and a queue that  *)
(* continues after the b-th.                                               *)
Nth(d, o, e, n) ==
  \/ e = Text(n) /\ n <= d
  \/ o \in Outcome /\ e = Completed(o) /\ n = d + 1
  \/ e \in {Error, Done}
InPlace(d, o, q, b) == \A i \in 1..Len(q) : Nth(d, o, q[i], b + i)

(* The events the task has taken from the wire.                            *)
Consumed == IF coord = "role" THEN 0
            ELSE IF completed \/ coord = "finishing" THEN deltas + 1 ELSE Length - 1
Relayed == Consumed + Len(wire)
Queued == Relayed + Len(events)

Reading == connected /\ coord \in {"role", "reading", "finishing"}

FlightInv ==
  Reading =>
    /\ InPlace(deltas, outcome, wire, Consumed)
    /\ InPlace(deltas, outcome, events, Relayed)
    /\ link # "reset" => InPlace(deltas, outcome, sdk, Queued)
    /\ link # "reset" /\ gen # "ended" /\ worker = "relaying" => Queued + Len(sdk) = deltas

(* The worker's [DONE] is the last of the response.                        *)
DoneInv ==
  /\ link # "ended" => \A i \in 1..Len(wire) : wire[i] # Done
  /\ \A i \in 1..(Len(wire) - 1) : wire[i] # Done
  /\ link = "ended" => sdk = <<>> /\ events = <<>> /\ worker \in {"done", "crashed"}
  /\ worker # "relaying" => sdk = <<>>
  /\ outcome # "none" => gen = "ended"

DInv == JustInv /\ PlaceInv /\ FlightInv /\ DoneInv

(* Chunks of different kinds differ.                                       *)
LEMMA ChunksDiffer ==
  /\ \A i : Text(i) \notin {Role, ToolCalls, Finish, Error, Done}
  /\ Role \notin {ToolCalls, Finish, Error, Done} /\ ToolCalls \notin {Finish, Error, Done}
  /\ Finish \notin {Error, Done} /\ Error # Done
  /\ \A i, j : Text(i) = Text(j) => i = j
  /\ \A o : Completed(o) \notin {Error, Done} /\ \A i : Completed(o) # Text(i)
  /\ \A o, p : Completed(o) = Completed(p) => o = p
BY DEF Text, Role, ToolCalls, Finish, Error, Done, Completed

(* The answer, chunk by chunk.                                             *)
LEMMA Parts ==
  ASSUME NEW d \in Nat, NEW o
  PROVE  /\ Size(d, o) \in Nat /\ Size(d, o) >= d + 1
         /\ Part(d, o, 1) = Role
         /\ \A k \in 2..(d + 1) : Part(d, o, k) = Text(k - 1)
         /\ o \notin Outcome => Size(d, o) = d + 1
         /\ o = "text" => /\ Size(d, o) = d + 3
                          /\ Part(d, o, d + 2) = Finish /\ Part(d, o, d + 3) = Done
         /\ o = "calls" => /\ Size(d, o) = d + 4
                           /\ Part(d, o, d + 2) = ToolCalls /\ Part(d, o, d + 3) = Finish
                           /\ Part(d, o, d + 4) = Done
<1>1. Part(d, o, 1) = Role /\ \A k \in 2..(d + 1) : Part(d, o, k) = Text(k - 1)
  BY DEF Part
<1>2. CASE o = "text"
  <2>1. ClosingOf(o) = <<Finish, Done>>
    BY <1>2 DEF ClosingOf
  <2>2. Len(ClosingOf(o)) = 2 /\ ClosingOf(o)[1] = Finish /\ ClosingOf(o)[2] = Done
    BY <2>1
  <2>3. Size(d, o) = d + 3
    BY <2>2 DEF Size
  <2>4. Part(d, o, d + 2) = Finish /\ Part(d, o, d + 3) = Done
    BY <2>2 DEF Part
  <2> QED  BY <1>1, <1>2, <2>3, <2>4 DEF Outcome
<1>3. CASE o = "calls"
  <2>1. ClosingOf(o) = <<ToolCalls, Finish, Done>>
    BY <1>3 DEF ClosingOf
  <2>2. /\ Len(ClosingOf(o)) = 3 /\ ClosingOf(o)[1] = ToolCalls
        /\ ClosingOf(o)[2] = Finish /\ ClosingOf(o)[3] = Done
    BY <2>1
  <2>3. Size(d, o) = d + 4
    BY <2>2 DEF Size
  <2>4. /\ Part(d, o, d + 2) = ToolCalls /\ Part(d, o, d + 3) = Finish
        /\ Part(d, o, d + 4) = Done
    BY <2>2 DEF Part
  <2> QED  BY <1>1, <1>3, <2>3, <2>4 DEF Outcome
<1>4. CASE o \notin Outcome
  <2>1. ClosingOf(o) = <<>>
    BY <1>4 DEF ClosingOf, Outcome
  <2>2. Len(ClosingOf(o)) = 0
    BY <2>1
  <2> QED  BY <1>1, <1>4, <2>2 DEF Size, Outcome
<1> QED  BY <1>2, <1>3, <1>4 DEF Outcome

(* No chunk of an answer is an error, and only its last one is [DONE].     *)
LEMMA PartsSound ==
  ASSUME NEW d \in Nat, NEW o, NEW k \in 1..Size(d, o)
  PROVE  /\ Part(d, o, k) # Error
         /\ k < Size(d, o) => Part(d, o, k) # Done
<1>1. CASE k <= d + 1
  <2>1. Part(d, o, k) = Role \/ Part(d, o, k) = Text(k - 1)
    BY <1>1, Parts
  <2> QED  BY <2>1, ChunksDiffer
<1>2. CASE k > d + 1 /\ o = "text"
  <2>1. k \in {d + 2, d + 3} /\ Size(d, o) = d + 3
    BY <1>2, Parts
  <2> QED  BY <1>2, <2>1, Parts, ChunksDiffer
<1>3. CASE k > d + 1 /\ o = "calls"
  <2>1. k \in {d + 2, d + 3, d + 4} /\ Size(d, o) = d + 4
    BY <1>3, Parts
  <2> QED  BY <1>3, <2>1, Parts, ChunksDiffer
<1>4. CASE k > d + 1 /\ o \notin Outcome
  BY <1>4, Parts
<1> QED  BY <1>1, <1>2, <1>3, <1>4, Parts DEF Outcome

(* What has been shown stays in the answer while it grows.                 *)
LEMMA PartsStay ==
  ASSUME NEW d \in Nat, NEW o, o \notin Outcome, NEW k \in 1..Size(d, o), NEW e \in {d, d + 1}, NEW p
  PROVE  k <= Size(e, p) /\ Part(e, p, k) = Part(d, o, k)
<1>1. k \in 1..(d + 1) /\ e \in Nat /\ k <= Size(e, p)
  BY Parts
<1> QED  BY <1>1 DEF Part

-----------------------------------------------------------------------------
LEMMA Types ==
  ASSUME QueuesOK
  PROVE  /\ Len(got) \in Nat /\ Len(public) \in Nat /\ Length \in Nat
         /\ Len(wire) \in Nat /\ Len(events) \in Nat /\ Len(sdk) \in Nat /\ deltas \in Nat
         /\ DOMAIN wire = 1..Len(wire) /\ DOMAIN got = 1..Len(got)
  BY Capacities DEF QueuesOK, Length

(* Publishing adds one chunk behind the others.                            *)
LEMMA Published ==
  ASSUME QueuesOK, NEW n, n = Length, NEW e, NEW next, Publish(e, next), UNCHANGED got
  PROVE  /\ n \in Nat /\ Length' = n + 1 /\ At(n + 1)' = e /\ coord' = next
         /\ \A k \in 1..n : At(k)' = At(k)
<1>1. /\ public' = Append(public, e) /\ coord' = next /\ public \in Seq(Chunk) /\ got \in Seq(Chunk)
  BY DEF Publish, QueuesOK
<1>2. /\ Len(public') = Len(public) + 1 /\ public'[Len(public) + 1] = e
      /\ \A i \in 1..Len(public) : public'[i] = public[i]
  BY <1>1
<1>3. Len(got) \in Nat /\ Len(public) \in Nat
  BY Types
<1>4. n \in Nat /\ Length' = n + 1
  BY <1>2, <1>3 DEF Length
<1>5. At(n + 1)' = e
  <2>1. ~(n + 1 <= Len(got)) /\ n + 1 - Len(got) = Len(public) + 1
    BY <1>3 DEF Length
  <2>2. At(n + 1)' = public'[n + 1 - Len(got)]
    BY <1>3, <1>4, <2>1 DEF At
  <2> QED  BY <1>2, <2>1, <2>2
<1>6. ASSUME NEW k \in 1..n PROVE At(k)' = At(k)
  <2>1. k > Len(got) => k - Len(got) \in 1..Len(public)
    BY <1>3, <1>6 DEF Length
  <2> QED  BY <1>2, <1>3, <1>6, <2>1 DEF At
<1> QED  BY <1>1, <1>4, <1>5, <1>6

LEMMA JustPublished ==
  ASSUME QueuesOK, JustInv, NEW n, n = Length, NEW e, NEW next, Publish(e, next),
         UNCHANGED <<got, deltas, outcome>>, Justified(n + 1)'
  PROVE  JustInv'
<1>1. /\ n \in Nat /\ Length' = n + 1 /\ connected
      /\ \A k \in 1..n : At(k)' = At(k)
  BY Published DEF Publish
<1>2. ASSUME NEW k \in 1..n PROVE Justified(k)'
  <2>1. Justified(k)
    BY <1>1, <1>2 DEF JustInv
  <2>2. \A i \in 1..k : At(i)' = At(i)
    BY <1>1, <1>2
  <2>3. k \in 1..k /\ (k > 1 => k - 1 \in 1..k) /\ \A i \in 1..(k - 1) : i \in 1..k
    BY <1>1, <1>2
  <2>4. InAnswer(k) => InAnswer(k)'
    BY <2>2, <2>3 DEF InAnswer
  <2>5. Cut(k) => Cut(k)'
    BY <2>2, <2>3 DEF Cut
  <2>6. ClosedAfterCut(k) => ClosedAfterCut(k)'
    BY <2>2, <2>3 DEF ClosedAfterCut
  <2> QED  BY <2>1, <2>4, <2>5, <2>6 DEF Justified
<1>3. ASSUME NEW k \in 1..(n + 1) PROVE Justified(k)'
  <2>1. k = n + 1 \/ k \in 1..n
    BY <1>1, <1>3
  <2> QED  BY <1>2, <2>1
<1> QED  BY <1>1, <1>3 DEF JustInv

(* The next chunk of an answer that is sound so far.                       *)
LEMMA NextChunk ==
  ASSUME QueuesOK, JustInv, Sound, NEW n, n = Length, NEW e, NEW next, Publish(e, next),
         UNCHANGED <<got, deltas, outcome>>,
         n + 1 <= Size(deltas, outcome), e = Part(deltas, outcome, n + 1)
  PROVE  JustInv' /\ Sound' /\ Length' = n + 1 /\ coord' = next
<1>1. /\ n \in Nat /\ Length' = n + 1 /\ At(n + 1)' = e /\ coord' = next
      /\ \A k \in 1..n : At(k)' = At(k)
  BY Published
<1>2. Sound'
  <2>1. \A k \in 1..n : At(k)' = Part(deltas, outcome, k)
    BY <1>1 DEF Sound
  <2>2. \A k \in 1..(n + 1) : k = n + 1 \/ k \in 1..n
    BY <1>1
  <2>3. \A k \in 1..(n + 1) : At(k)' = Part(deltas, outcome, k)
    BY <1>1, <2>1, <2>2
  <2> QED  BY <1>1, <2>3 DEF Sound
<1>3. deltas \in Nat /\ Size(deltas, outcome) \in Nat
  BY Types, Parts
<1>4. \A i \in 1..n : At(i)' # Error
  <2>1. \A i \in 1..n : i \in 1..Size(deltas, outcome)
    BY <1>1, <1>3
  <2> QED  BY <1>1, <1>3, <2>1, PartsSound DEF Sound
<1>5. InAnswer(n + 1)'
  <2>1. (n + 1) - 1 = n
    BY <1>1
  <2> QED  BY <1>1, <1>4, <2>1 DEF InAnswer
<1> QED  BY <1>1, <1>2, <1>5, JustPublished DEF Justified

(* An error instead of the next chunk.                                     *)
LEMMA ErrorChunk ==
  ASSUME QueuesOK, JustInv, NEW n, n = Length, NEW next, Publish(Error, next),
         UNCHANGED <<got, deltas, outcome>>, n >= 1, At(n) # Done
  PROVE  /\ JustInv' /\ Length' = n + 1 /\ coord' = next /\ At(n + 1)' = Error
         /\ \A k \in 1..n : At(k)' = At(k)
<1>1. /\ n \in Nat /\ Length' = n + 1 /\ At(n + 1)' = Error /\ coord' = next
      /\ \A k \in 1..n : At(k)' = At(k)
  BY Published
<1>2. Cut(n + 1)'
  <2>1. (n + 1) - 1 = n /\ n \in 1..n /\ n + 1 > 1
    BY <1>1
  <2>2. At(n)' # Done
    BY <1>1, <2>1
  <2> QED  BY <1>1, <2>1, <2>2 DEF Cut
<1> QED  BY <1>1, <1>2, JustPublished DEF Justified

-----------------------------------------------------------------------------
(* Events keep their positions as they move from queue to queue.           *)

LEMMA InPlaceTail ==
  ASSUME NEW d, NEW o, NEW S, NEW q \in Seq(S), q # <<>>, NEW b \in Nat, InPlace(d, o, q, b)
  PROVE  /\ Nth(d, o, Head(q), b + 1) /\ InPlace(d, o, Tail(q), b + 1)
         /\ Len(Tail(q)) = Len(q) - 1 /\ Len(q) \in Nat \ {0} /\ Head(q) = q[1]
<1>1. /\ Len(Tail(q)) = Len(q) - 1 /\ Len(q) \in Nat \ {0} /\ Head(q) = q[1]
      /\ \A i \in 1..(Len(q) - 1) : Tail(q)[i] = q[i + 1]
  OBVIOUS
<1>2. ASSUME NEW i \in 1..Len(Tail(q)) PROVE Nth(d, o, Tail(q)[i], b + 1 + i)
  <2>1. i + 1 \in 1..Len(q) /\ b + (i + 1) = b + 1 + i /\ Tail(q)[i] = q[i + 1]
    BY <1>1, <1>2
  <2>2. Nth(d, o, q[i + 1], b + (i + 1))
    BY <2>1 DEF InPlace
  <2> QED  BY <2>1, <2>2
<1>3. Nth(d, o, Head(q), b + 1)
  BY <1>1 DEF InPlace
<1> QED  BY <1>1, <1>2, <1>3 DEF InPlace

LEMMA InPlaceAppend ==
  ASSUME NEW d, NEW o, NEW S, NEW q \in Seq(S), NEW e \in S, NEW b \in Nat,
         InPlace(d, o, q, b), NEW n, n = b + Len(q) + 1, Nth(d, o, e, n)
  PROVE  InPlace(d, o, Append(q, e), b) /\ Len(Append(q, e)) = Len(q) + 1
<1>1. /\ Len(q) \in Nat /\ Len(Append(q, e)) = Len(q) + 1
      /\ \A i \in 1..Len(q) : Append(q, e)[i] = q[i]
      /\ Append(q, e)[Len(q) + 1] = e
  OBVIOUS
<1>2. ASSUME NEW i \in 1..(Len(q) + 1) PROVE Nth(d, o, Append(q, e)[i], b + i)
  <2>1. CASE i \in 1..Len(q)
    BY <1>1, <2>1 DEF InPlace
  <2>2. CASE i = Len(q) + 1
    <3>1. b + i = n
      BY <1>1, <2>2
    <3> QED  BY <1>1, <2>2, <3>1
  <2> QED  BY <1>1, <1>2, <2>1, <2>2
<1> QED  BY <1>1, <1>2 DEF InPlace

(* A queue stays in place while the text grows and when it ends.           *)
LEMMA InPlaceStays ==
  ASSUME NEW d \in Nat, NEW o, o \notin Outcome, NEW q, NEW b \in Nat,
         NEW e \in {d, d + 1}, NEW p, InPlace(d, o, q, b), Len(q) \in Nat
  PROVE  InPlace(e, p, q, b)
<1> SUFFICES ASSUME NEW i \in 1..Len(q) PROVE Nth(e, p, q[i], b + i)
  BY DEF InPlace
<1>1. Nth(d, o, q[i], b + i)
  BY DEF InPlace
<1> QED  BY <1>1 DEF Nth

(* After the completion comes no text and no second one.                   *)
LEMMA NothingBeyond ==
  ASSUME NEW d \in Nat, NEW o, NEW e, Nth(d, o, e, d + 1 + 1)
  PROVE  e \in {Error, Done}
  BY DEF Nth

LEMMA EmptyInPlace ==
  ASSUME NEW d, NEW o, NEW b PROVE InPlace(d, o, <<>>, b)
  BY DEF InPlace

LEMMA Counted ==
  ASSUME QueuesOK, StatesOK, PlaceInv, Reading
  PROVE  /\ Consumed \in Nat /\ Relayed \in Nat /\ Queued \in Nat
         /\ coord = "reading" /\ ~completed => Consumed = Length - 1
         /\ (coord = "reading" /\ completed) \/ coord = "finishing" => Consumed = deltas + 1
<1>1. Length \in Nat /\ deltas \in Nat /\ Len(wire) \in Nat /\ Len(events) \in Nat
  BY Types
<1>2. Consumed \in Nat
  BY <1>1 DEF Consumed, Reading, PlaceInv, StatesOK
<1> QED  BY <1>1, <1>2 DEF Relayed, Queued, Consumed

-----------------------------------------------------------------------------
(* Steps of the model thread and of the worker.                            *)

LEMMA SameForClient ==
  ASSUME UNCHANGED <<deltas, outcome, got, public, connected, coord, completed>>
  PROVE  /\ JustInv => JustInv'
         /\ PlaceInv => PlaceInv'
         /\ Consumed' = Consumed /\ Reading' = Reading
<1>1. Length' = Length /\ \A k : At(k)' = At(k)
  BY DEF Length, At
<1>2. \A k : Justified(k)' = Justified(k)
  BY <1>1 DEF Justified, InAnswer, Cut, ClosedAfterCut
<1>3. Sound' = Sound /\ Complete' = Complete /\ Broken' = Broken /\ At(Length)' = At(Length)
  BY <1>1 DEF Sound, Complete, Broken
<1> QED  BY <1>1, <1>2, <1>3 DEF JustInv, PlaceInv, Consumed, Reading

LEMMA DoneStep ==
  ASSUME QueuesOK, StatesOK, DoneInv, [Next]_vars
  PROVE  DoneInv'
<1> USE Types DEF DoneInv, genVars, workerVars, coordVars, clientVars, Others
<1>q. sdk \in Seq(Event) /\ events \in Seq(Event) /\ wire \in Seq(Wired) /\ Done \notin Event
  <2>1. Done \notin Event
    BY ChunksDiffer DEF Event, Delta, Completion
  <2> QED  BY <2>1 DEF QueuesOK
<1>1. CASE Compute \/ SendFails
  BY <1>1 DEF Compute, SendFails
<1>2. CASE SendText \/ SendEnd
  BY <1>2 DEF SendText, SendEnd, Push
<1>3. CASE RelayEvent
  BY <1>3, <1>q DEF RelayEvent
<1>4. CASE RelayBreaks \/ WorkerDone
  BY <1>4 DEF RelayBreaks, WorkerDone
<1>5. CASE WriteResponse
  <2>1. /\ wire' = Append(wire, Head(events)) /\ link = "open" /\ Head(events) # Done
        /\ UNCHANGED <<link, sdk, worker, gen, outcome>>
    BY <1>5, <1>q DEF WriteResponse
  <2> QED  BY <1>q, <2>1
<1>6. CASE EndResponse
  BY <1>6, <1>q DEF EndResponse
<1>7. CASE CrashWorker \/ ConnectionBreaks
  <2>1. /\ \/ sdk' = <<>> /\ worker' = "crashed" /\ gen' = "ended"
           \/ UNCHANGED <<sdk, worker, gen, outcome>>
        /\ events' = <<>> /\ outcome' = outcome
        /\ link' = IF link = "open" THEN "reset" ELSE link
        /\ \/ link = "open" /\ \E k \in 0..Len(wire) : wire' = SubSeq(wire, 1, k)
           \/ link # "open" /\ wire' = wire
    BY <1>7 DEF CrashWorker, ConnectionBreaks, CutOff
  <2>2. CASE link = "open"
    <3>1. PICK k \in 0..Len(wire) : wire' = SubSeq(wire, 1, k)
      BY <2>1, <2>2
    <3>2. Len(wire') = k /\ \A i \in 1..k : wire'[i] = wire[i]
      BY <1>q, <3>1
    <3> QED  BY <1>q, <2>1, <2>2, <3>2
  <2>3. CASE link # "open"
    BY <2>1, <2>3
  <2> QED  BY <2>2, <2>3
<1>8. ASSUME wire # <<>>, wire' = Tail(wire),
             UNCHANGED <<link, sdk, events, worker, gen, outcome>>
      PROVE  DoneInv'
  BY <1>8, <1>q
<1>9. CASE ForwardDelta \/ ForwardCompleted \/ ForwardError \/ SkipDone
  BY <1>9, <1>8 DEF ForwardDelta, ForwardCompleted, ForwardError, SkipDone
<1>10. CASE \/ SendRole \/ ForwardFinish \/ BodyFails \/ BodyEnds \/ CloseStream
            \/ Cancel \/ CancelReturns \/ CancelBreaks
  BY <1>10 DEF SendRole, ForwardFinish, BodyFails, BodyEnds, CloseStream, Cancel, CancelReturns,
     CancelBreaks
<1>11. CASE ReleaseAndReturn \/ CrashCoordinator
  BY <1>11 DEF ReleaseAndReturn, CrashCoordinator
<1>12. CASE ClientReads \/ ClientLeaves \/ UNCHANGED vars
  BY <1>12 DEF ClientReads, ClientLeaves, vars
<1> QED
  BY <1>1, <1>2, <1>3, <1>4, <1>5, <1>6, <1>7, <1>9, <1>10, <1>11, <1>12
     DEF Next, ModelThread, WorkerTask, Response, CoordinatorTask

(* A bound on what has been shown holds while the text grows.              *)
LEMMA LessThen ==
  ASSUME NEW n \in Nat, NEW d \in Nat, NEW e \in {d, d + 1}, n <= d + 1
  PROVE  n <= e + 1
OBVIOUS

(* What follows the client: JustInv, PlaceInv and FlightInv.               *)
Follows == JustInv /\ PlaceInv /\ FlightInv

LEMMA Gone == ASSUME ~connected' PROVE Follows'
BY DEF Follows, JustInv, PlaceInv, FlightInv, Reading

(* While the model thread works, nothing has been completed.               *)
LEMMA Grown ==
  ASSUME QueuesOK, StatesOK, Follows, outcome = "none", ~completed, coord # "finishing",
         deltas' \in {deltas, deltas + 1},
         UNCHANGED <<got, public, connected, coord, completed>>
  PROVE  JustInv' /\ PlaceInv' /\ Consumed' = Consumed /\ Reading' = Reading
<1>1. Length' = Length /\ \A k : At(k)' = At(k)
  BY DEF Length, At
<1>2. /\ deltas \in Nat /\ deltas' \in Nat /\ Length \in Nat
      /\ outcome \notin Outcome /\ Size(deltas, outcome) = deltas + 1
  BY Types, Parts DEF Outcome
<1>3. ASSUME NEW k \in 1..Size(deltas, outcome)
      PROVE  k <= Size(deltas', outcome') /\ Part(deltas', outcome', k) = Part(deltas, outcome, k)
  BY <1>2, <1>3, PartsStay
<1>4. ASSUME connected, NEW k \in 1..Length PROVE Justified(k)'
  <2>1. CASE InAnswer(k)
    <3>1. k \in 1..Size(deltas, outcome)
      BY <1>2, <1>4, <2>1 DEF InAnswer
    <3>2. InAnswer(k)'
      BY <1>1, <1>3, <2>1, <3>1 DEF InAnswer
    <3> QED  BY <3>2 DEF Justified
  <2>2. CASE Cut(k) \/ ClosedAfterCut(k)
    BY <1>1, <2>2 DEF Cut, ClosedAfterCut, Justified
  <2> QED  BY <1>4, <2>1, <2>2 DEF Justified, JustInv, Follows
<1>5. JustInv'
  BY <1>1, <1>4 DEF JustInv
<1>6. ASSUME connected, coord = "reading" PROVE Sound'
  <2>1. Sound /\ Length <= deltas + 1
    BY <1>6 DEF Follows, PlaceInv
  <2>2. \A k \in 1..Length : k \in 1..Size(deltas, outcome)
    BY <1>2, <2>1
  <2> QED  BY <1>1, <1>3, <2>1, <2>2 DEF Sound
<1>7. PlaceInv'
  <2>1. connected => /\ coord = "role" => Length = 0
                     /\ coord = "reading" => Length >= 1 /\ Length <= deltas + 1
                     /\ coord = "ended" => Length >= 1 /\ At(Length) # Done
    BY DEF Follows, PlaceInv
  <2>2. At(Length)' = At(Length)
    BY DEF At, Length
  <2>3. ASSUME connected, coord = "reading" PROVE Length' <= deltas' + 1
    <3>1. Length <= deltas + 1
      BY <2>1, <2>3
    <3>2. Length' = Length
      BY <1>1
    <3>3. deltas \in Nat /\ Length \in Nat
      BY <1>2
    <3>4. Length <= deltas' + 1
      BY <3>1, <3>3, LessThen
    <3> QED  BY <3>2, <3>4
  <2> QED  BY <1>1, <1>6, <2>1, <2>2, <2>3 DEF PlaceInv
<1>8. Consumed' = Consumed /\ Reading' = Reading
  BY <1>1 DEF Consumed, Reading
<1> QED  BY <1>5, <1>7, <1>8

(* The thread pushes its next delta, or its end.                           *)
LEMMA PushStep ==
  ASSUME QueuesOK, StatesOK, EndInv, DInv, SendText \/ SendEnd
  PROVE  Follows'
<1> USE Types
<1>1. /\ gen # "ended" /\ worker = "relaying" /\ outcome = "none" /\ outcome \notin Outcome
      /\ ~completed /\ coord # "finishing" /\ deltas' \in {deltas, deltas + 1}
      /\ UNCHANGED <<got, public, connected, coord, completed, wire, events, link>>
  BY DEF SendText, SendEnd, Push, DInv, DoneInv, EndInv, workerVars, coordVars, clientVars, Outcome
<1>2. JustInv' /\ PlaceInv' /\ Consumed' = Consumed /\ Reading' = Reading
  BY <1>1, Grown DEF DInv, Follows
<1>3. ASSUME Reading PROVE FlightInv'
  <2>1. /\ InPlace(deltas, outcome, wire, Consumed)
        /\ InPlace(deltas, outcome, events, Relayed)
        /\ link # "reset" => InPlace(deltas, outcome, sdk, Queued)
        /\ link # "reset" => Queued + Len(sdk) = deltas
    BY <1>1, <1>3 DEF DInv, FlightInv
  <2>2. Consumed \in Nat /\ Relayed \in Nat /\ Queued \in Nat
    BY <1>3, Counted DEF DInv
  <2>3. Relayed' = Relayed /\ Queued' = Queued
    BY <1>1, <1>2 DEF Relayed, Queued
  <2>4. /\ InPlace(deltas', outcome', wire, Consumed)
        /\ InPlace(deltas', outcome', events, Relayed)
        /\ link # "reset" => InPlace(deltas', outcome', sdk, Queued)
    BY <1>1, <2>1, <2>2, InPlaceStays
  <2>5. \E e \in Event : /\ sdk' = Append(sdk, e) /\ Nth(deltas', outcome', e, deltas + 1)
                         /\ gen' # "ended" => deltas' = deltas + 1
    <3>1. CASE SendText
      <4>1. deltas + 1 \in 1..MaxDeltas /\ deltas' = deltas + 1
        BY <3>1, Capacities DEF SendText, StatesOK
      <4>2. Text(deltas + 1) \in Event
        BY <4>1 DEF Event, Delta
      <4>3. Nth(deltas', outcome', Text(deltas + 1), deltas + 1)
        BY <4>1 DEF Nth
      <4> QED  BY <3>1, <4>1, <4>2, <4>3 DEF SendText, Push
    <3>2. CASE SendEnd
      <4>1. deltas' = deltas /\ gen' = "ended"
        BY <3>2 DEF SendEnd
      <4>2. CASE \E o \in Outcome : outcome' = o /\ Push(Completed(o))
        <5>1. PICK o \in Outcome : outcome' = o /\ Push(Completed(o))
          BY <4>2
        <5>2. Nth(deltas', outcome', Completed(o), deltas + 1) /\ Completed(o) \in Event
          BY <4>1, <5>1 DEF Nth, Event, Completion
        <5> QED  BY <4>1, <5>1, <5>2 DEF Push
      <4>3. CASE Push(Error)
        <5>1. Nth(deltas', outcome', Error, deltas + 1) /\ Error \in Event
          BY DEF Nth, Event
        <5> QED  BY <4>1, <4>3, <5>1 DEF Push
      <4> QED  BY <3>2, <4>2, <4>3 DEF SendEnd
    <3> QED  BY <3>1, <3>2
  <2>6. PICK e \in Event : /\ sdk' = Append(sdk, e) /\ Nth(deltas', outcome', e, deltas + 1)
                           /\ gen' # "ended" => deltas' = deltas + 1
    BY <2>5
  <2>7. ASSUME link # "reset"
        PROVE  /\ InPlace(deltas', outcome', Append(sdk, e), Queued)
               /\ Len(Append(sdk, e)) = Len(sdk) + 1
    <3>1. sdk \in Seq(Event) /\ deltas + 1 = Queued + Len(sdk) + 1
      BY <2>1, <2>2, <2>7 DEF QueuesOK
    <3> QED  BY <2>2, <2>4, <2>6, <2>7, <3>1, InPlaceAppend
  <2>8. link # "reset" /\ gen' # "ended" => Queued + (Len(sdk) + 1) = deltas'
    BY <2>1, <2>2, <2>6
  <2> QED  BY <1>1, <1>2, <2>3, <2>4, <2>6, <2>7, <2>8 DEF FlightInv
<1>4. ASSUME ~Reading PROVE FlightInv'
  BY <1>2, <1>4 DEF FlightInv
<1> QED  BY <1>2, <1>3, <1>4 DEF Follows

(* The worker's task, the response and the crash of the worker move events *)
(* and lose them; the coordinator's task is where it was.                  *)
LEMMA WorkerStep ==
  ASSUME QueuesOK, StatesOK, DInv,
         Compute \/ SendFails \/ WorkerTask \/ Response \/ CrashWorker \/ ConnectionBreaks
  PROVE  Follows'
<1> USE Types
<1>1. UNCHANGED <<deltas, outcome, got, public, connected, coord, completed>>
  BY DEF Compute, SendFails, WorkerTask, RelayEvent, RelayBreaks, WorkerDone, Response,
     WriteResponse, EndResponse, CrashWorker, ConnectionBreaks, CutOff, genVars, coordVars,
     clientVars
<1>2. JustInv' /\ PlaceInv' /\ Consumed' = Consumed /\ Reading' = Reading
  BY <1>1, SameForClient DEF DInv
<1> SUFFICES ASSUME Reading PROVE FlightInv'
  BY <1>2 DEF FlightInv, Follows
<1>3. /\ InPlace(deltas, outcome, wire, Consumed)
      /\ InPlace(deltas, outcome, events, Relayed)
      /\ link # "reset" => InPlace(deltas, outcome, sdk, Queued)
      /\ link # "reset" /\ gen # "ended" /\ worker = "relaying" => Queued + Len(sdk) = deltas
  BY DEF DInv, FlightInv
<1>4. /\ Consumed \in Nat /\ Relayed \in Nat /\ Queued \in Nat
      /\ Relayed = Consumed + Len(wire) /\ Queued = Relayed + Len(events)
      /\ Relayed' = Consumed + Len(wire') /\ Queued' = Relayed' + Len(events')
  BY <1>2, Counted DEF DInv, Relayed, Queued
<1>q. sdk \in Seq(Event) /\ events \in Seq(Event) /\ wire \in Seq(Wired) /\ Event \subseteq Wired
  BY DEF QueuesOK, Wired
<1>5. CASE Compute \/ SendFails
  <2>1. UNCHANGED <<wire, events, sdk, worker, link>> /\ (gen' # "ended" => gen # "ended")
    BY <1>5 DEF Compute, SendFails, workerVars
  <2> QED  BY <1>1, <1>2, <1>3, <1>4, <2>1 DEF FlightInv
<1>6. CASE RelayEvent
  <2>1. /\ sdk # <<>> /\ events' = Append(events, Head(sdk)) /\ sdk' = Tail(sdk)
        /\ UNCHANGED <<wire, gen, worker, link>> /\ link = "open"
    BY <1>6 DEF RelayEvent, genVars
  <2>2. /\ Nth(deltas, outcome, Head(sdk), Queued + 1)
        /\ InPlace(deltas, outcome, Tail(sdk), Queued + 1)
        /\ Len(Tail(sdk)) = Len(sdk) - 1 /\ Len(sdk) \in Nat \ {0}
    BY <1>3, <1>4, <1>q, <2>1, InPlaceTail
  <2>3. Head(sdk) \in Event /\ Queued + 1 = Relayed + Len(events) + 1
    BY <1>4, <1>q, <2>1
  <2>4. /\ InPlace(deltas, outcome, Append(events, Head(sdk)), Relayed)
        /\ Len(Append(events, Head(sdk))) = Len(events) + 1
    BY <1>3, <1>4, <1>q, <2>2, <2>3, InPlaceAppend
  <2>5. Relayed' = Relayed /\ Queued' = Queued + 1
    BY <1>4, <2>1, <2>4
  <2>6. Queued + Len(sdk) = Queued + 1 + Len(Tail(sdk))
    BY <1>4, <2>2
  <2> QED  BY <1>1, <1>2, <1>3, <2>1, <2>2, <2>4, <2>5, <2>6 DEF FlightInv
<1>7. CASE RelayBreaks \/ WorkerDone
  <2>1. UNCHANGED <<wire, events, gen, link>> /\ worker' # "relaying" /\ sdk' \in {sdk, <<>>}
    BY <1>7 DEF RelayBreaks, WorkerDone, genVars
  <2>2. Relayed' = Relayed /\ Queued' = Queued
    BY <1>4, <2>1
  <2> QED  BY <1>1, <1>2, <1>3, <2>1, <2>2, EmptyInPlace DEF FlightInv
<1>8. CASE WriteResponse
  <2>1. /\ events # <<>> /\ wire' = Append(wire, Head(events)) /\ events' = Tail(events)
        /\ UNCHANGED <<sdk, gen, worker, link>> /\ link = "open"
    BY <1>8 DEF WriteResponse, genVars
  <2>2. /\ Nth(deltas, outcome, Head(events), Relayed + 1)
        /\ InPlace(deltas, outcome, Tail(events), Relayed + 1)
        /\ Len(Tail(events)) = Len(events) - 1 /\ Len(events) \in Nat \ {0}
    BY <1>3, <1>4, <1>q, <2>1, InPlaceTail
  <2>3. Head(events) \in Wired /\ Relayed + 1 = Consumed + Len(wire) + 1
    BY <1>4, <1>q, <2>1
  <2>4. /\ InPlace(deltas, outcome, Append(wire, Head(events)), Consumed)
        /\ Len(Append(wire, Head(events))) = Len(wire) + 1
    BY <1>3, <1>4, <1>q, <2>2, <2>3, InPlaceAppend
  <2>5. Relayed' = Relayed + 1 /\ Queued' = Queued
    BY <1>4, <2>1, <2>2, <2>4
  <2> QED  BY <1>1, <1>2, <1>3, <2>1, <2>2, <2>4, <2>5 DEF FlightInv
<1>9. CASE EndResponse
  <2>1. /\ events = <<>> /\ worker = "done" /\ wire' = Append(wire, Done)
        /\ UNCHANGED <<sdk, events, gen, worker>>
    BY <1>9 DEF EndResponse, genVars, workerVars
  <2>2. sdk = <<>>
    BY <2>1 DEF DInv, DoneInv
  <2>3. Nth(deltas, outcome, Done, Consumed + Len(wire) + 1) /\ Done \in Wired
    BY DEF Nth, Wired
  <2>4. InPlace(deltas, outcome, Append(wire, Done), Consumed)
    BY <1>3, <1>4, <1>q, <2>3, InPlaceAppend
  <2> QED  BY <1>1, <1>2, <2>1, <2>2, <2>4, EmptyInPlace DEF FlightInv
<1>10. CASE CrashWorker \/ ConnectionBreaks
  <2>1. /\ events' = <<>> /\ ((sdk' = <<>> /\ gen' = "ended") \/ link' = "reset")
        /\ wire' = wire \/ \E k \in 0..Len(wire) : wire' = SubSeq(wire, 1, k)
    BY <1>10 DEF CrashWorker, ConnectionBreaks, CutOff
  <2>2. InPlace(deltas, outcome, wire', Consumed)
    <3>1. ASSUME NEW k \in 0..Len(wire), wire' = SubSeq(wire, 1, k)
          PROVE  Len(wire') = k /\ \A i \in 1..k : i \in 1..Len(wire) /\ wire'[i] = wire[i]
      BY <1>q, <3>1
    <3> QED  BY <1>3, <2>1, <3>1 DEF InPlace
  <2> QED  BY <1>1, <1>2, <2>1, <2>2, EmptyInPlace DEF FlightInv
<1> QED  BY <1>5, <1>6, <1>7, <1>8, <1>9, <1>10 DEF WorkerTask, Response

-----------------------------------------------------------------------------
(* Steps of the coordinator's task.                                        *)

(* While the task reads, [DONE] has not been shown.                        *)
LEMMA NotDone ==
  ASSUME QueuesOK, StatesOK, PlaceInv, connected, coord = "reading", NEW n, n = Length
  PROVE  n \in Nat /\ n >= 1 /\ At(n) # Done
<1>1. /\ n \in Nat /\ deltas \in Nat /\ Size(deltas, outcome) \in Nat
      /\ Size(deltas, outcome) >= deltas + 1
  BY Types, Parts
<1>2. n >= 1 /\ At(n) = Part(deltas, outcome, n)
  <2>1. Sound /\ n >= 1
    BY DEF PlaceInv
  <2>2. n \in 1..n
    BY <1>1, <2>1
  <2> QED  BY <2>1, <2>2 DEF Sound
<1>3. CASE completed
  <2>1. n = Size(deltas, outcome) - 1
    BY <1>3 DEF PlaceInv, Complete
  <2>2. n \in 1..Size(deltas, outcome) /\ n < Size(deltas, outcome)
    BY <1>1, <1>2, <2>1
  <2> QED  BY <1>1, <1>2, <2>2, PartsSound
<1>4. CASE ~completed
  <2>1. n <= deltas + 1
    BY <1>4 DEF PlaceInv
  <2>2. n = 1 \/ n \in 2..(deltas + 1)
    BY <1>1, <1>2, <2>1
  <2> QED  BY <1>1, <1>2, <2>2, Parts, ChunksDiffer
<1> QED  BY <1>1, <1>2, <1>3, <1>4

(* The task takes an event, or none, from the wire.                        *)
LEMMA FlightGoesOn ==
  ASSUME QueuesOK, StatesOK, PlaceInv, FlightInv, Reading,
         UNCHANGED <<deltas, outcome, events, sdk, gen, worker, link>>,
         \/ wire # <<>> /\ wire' = Tail(wire) /\ Consumed' = Consumed + 1
         \/ wire' = wire /\ Consumed' = Consumed
  PROVE  FlightInv'
<1>1. /\ InPlace(deltas, outcome, wire, Consumed)
      /\ InPlace(deltas, outcome, events, Relayed)
      /\ link # "reset" => InPlace(deltas, outcome, sdk, Queued)
      /\ link # "reset" /\ gen # "ended" /\ worker = "relaying" => Queued + Len(sdk) = deltas
  BY DEF FlightInv
<1>2. Consumed \in Nat /\ Len(wire) \in Nat
  BY Counted, Types
<1>3. InPlace(deltas, outcome, wire', Consumed') /\ Relayed' = Relayed
  <2>1. CASE wire # <<>> /\ wire' = Tail(wire) /\ Consumed' = Consumed + 1
    <3>1. /\ InPlace(deltas, outcome, Tail(wire), Consumed + 1)
          /\ Len(Tail(wire)) = Len(wire) - 1
      BY <1>1, <1>2, <2>1, InPlaceTail DEF QueuesOK
    <3>2. InPlace(deltas, outcome, wire', Consumed')
      BY <2>1, <3>1
    <3>3. Relayed = Consumed + Len(wire) /\ Relayed' = Consumed' + Len(wire')
      BY DEF Relayed
    <3>4. Relayed' = (Consumed + 1) + (Len(wire) - 1)
      BY <2>1, <3>1, <3>3
    <3> QED  BY <1>2, <3>2, <3>3, <3>4
  <2>2. CASE wire' = wire /\ Consumed' = Consumed
    BY <1>1, <2>2 DEF Relayed
  <2> QED  BY <2>1, <2>2
<1>4. Queued' = Queued
  BY <1>3 DEF Queued
<1> QED  BY <1>1, <1>3, <1>4 DEF FlightInv

LEMMA RoleStep ==
  ASSUME QueuesOK, StatesOK, DInv, SendRole PROVE Follows'
<1>1. CASE ~connected
  BY <1>1, Gone DEF SendRole, Others, clientVars
<1>2. CASE connected
  <2> DEFINE n == Length
  <2>0. n = 0 /\ ~completed
    BY <1>2 DEF DInv, PlaceInv, SendRole
  <2>1. /\ Publish(Role, "reading") /\ UNCHANGED <<got, deltas, outcome>> /\ connected' /\ ~completed'
        /\ UNCHANGED <<link, events, sdk, gen, worker, wire>>
    BY <1>2, <2>0 DEF SendRole, Others, genVars, workerVars, clientVars
  <2>2. deltas \in Nat /\ n + 1 <= Size(deltas, outcome) /\ Role = Part(deltas, outcome, n + 1)
    BY <2>0, Types, Parts
  <2>3. Sound
    BY <2>0 DEF Sound
  <2>4. JustInv' /\ Sound' /\ Length' = 1 /\ coord' = "reading"
    <3> HIDE DEF n
    <3> QED  BY <2>0, <2>1, <2>2, <2>3, NextChunk DEF DInv, n
  <2>5. PlaceInv'
    BY <2>1, <2>2, <2>4 DEF PlaceInv
  <2>6. Consumed = 0 /\ Consumed' = 0 /\ Reading
    BY <1>2, <2>1, <2>4 DEF Consumed, Reading, SendRole
  <2> QED  BY <2>1, <2>4, <2>5, <2>6, FlightGoesOn DEF DInv, Follows
<1> QED  BY <1>1, <1>2

LEMMA DeltaStep ==
  ASSUME QueuesOK, StatesOK, DInv, ForwardDelta PROVE Follows'
<1>1. CASE ~connected
  BY <1>1, Gone DEF ForwardDelta, Others, clientVars
<1>2. CASE connected
  <2> DEFINE n == Length
  <2> HIDE DEF n
  <2>1. /\ Publish(Head(wire), "reading") /\ UNCHANGED <<got, deltas, outcome>> /\ connected'
        /\ UNCHANGED <<link, events, sdk, gen, worker, completed>> /\ coord = "reading"
        /\ wire # <<>> /\ wire' = Tail(wire) /\ Head(wire) \in Delta
    BY <1>2 DEF ForwardDelta, Others, genVars, workerVars, clientVars
  <2>2. Reading /\ Sound /\ n >= 1 /\ n \in Nat /\ deltas \in Nat /\ Consumed \in Nat
    BY <1>2, <2>1, Types, Counted DEF Reading, DInv, PlaceInv, n
  <2>3. Nth(deltas, outcome, Head(wire), Consumed + 1)
    BY <2>1, <2>2, InPlaceTail DEF DInv, FlightInv, QueuesOK
  <2>4. /\ Head(wire) \notin {Error, Done} /\ \A o : Head(wire) # Completed(o)
        /\ \E i \in Nat : Head(wire) = Text(i)
    BY <2>1, ChunksDiffer, Capacities DEF Delta
  <2>5. ~completed
    <3>1. completed => Consumed = deltas + 1
      BY <2>1, <2>2, Counted DEF DInv
    <3> QED  BY <2>2, <2>3, <2>4, <3>1, NothingBeyond
  <2>6. Consumed = n - 1 /\ Consumed + 1 = n
    BY <2>1, <2>2, <2>5, Counted DEF DInv, n
  <2>7. Head(wire) = Text(n) /\ n <= deltas
    BY <2>3, <2>4, <2>6 DEF Nth
  <2>8. n + 1 <= Size(deltas, outcome) /\ Head(wire) = Part(deltas, outcome, n + 1)
    <3>1. n + 1 \in 2..(deltas + 1) /\ (n + 1) - 1 = n
      BY <2>2, <2>7
    <3> QED  BY <2>2, <2>7, <3>1, Parts
  <2>9. JustInv' /\ Sound' /\ Length' = n + 1 /\ coord' = "reading"
    BY <2>1, <2>2, <2>8, NextChunk DEF DInv, n
  <2>10. PlaceInv'
    BY <2>1, <2>2, <2>5, <2>7, <2>9 DEF PlaceInv
  <2>11. Consumed' = Consumed + 1
    BY <2>1, <2>2, <2>5, <2>6, <2>9 DEF Consumed
  <2> QED  BY <2>1, <2>2, <2>9, <2>10, <2>11, FlightGoesOn DEF DInv, Follows
<1> QED  BY <1>1, <1>2

(* The finish closes the last part of the answer but one.                  *)
LEMMA FinishChunk ==
  ASSUME QueuesOK, JustInv, Sound, outcome \in Outcome, NEW n, n = Length,
         Publish(Finish, "reading"), UNCHANGED <<got, deltas, outcome>>,
         n + 2 = Size(deltas, outcome), completed'
  PROVE  JustInv' /\ PlaceInv' /\ coord' = "reading"
<1>1. n \in Nat /\ deltas \in Nat
  BY Types
<1>2. n + 1 <= Size(deltas, outcome) /\ Finish = Part(deltas, outcome, n + 1)
  <2>1. CASE outcome = "text"
    <3>1. n + 1 = deltas + 2 /\ Size(deltas, outcome) = deltas + 3
      BY <1>1, <2>1, Parts
    <3> QED  BY <1>1, <2>1, <3>1, Parts
  <2>2. CASE outcome = "calls"
    <3>1. n + 1 = deltas + 3 /\ Size(deltas, outcome) = deltas + 4
      BY <1>1, <2>2, Parts
    <3> QED  BY <1>1, <2>2, <3>1, Parts
  <2> QED  BY <2>1, <2>2 DEF Outcome
<1>3. JustInv' /\ Sound' /\ Length' = n + 1 /\ coord' = "reading"
  BY <1>2, NextChunk
<1>4. Length' = Size(deltas, outcome) - 1 /\ Length' >= 1
  <2>1. Size(deltas, outcome) \in Nat
    BY <1>1, Parts
  <2> QED  BY <1>1, <1>3, <2>1
<1>5. Complete'
  BY <1>3, <1>4 DEF Complete
<1> QED  BY <1>3, <1>4, <1>5 DEF PlaceInv

LEMMA CompletedStep ==
  ASSUME QueuesOK, StatesOK, DInv, ForwardCompleted PROVE Follows'
<1>1. CASE ~connected
  BY <1>1, Gone DEF ForwardCompleted, PublishFinal, Publish, Others, clientVars
<1>2. CASE connected
  <2> DEFINE n == Length
  <2> HIDE DEF n
  <2>1. /\ PublishFinal(IF Head(wire) = Completed("calls") THEN ToolCalls ELSE Finish)
        /\ UNCHANGED <<got, deltas, outcome>> /\ connected'
        /\ UNCHANGED <<link, events, sdk, gen, worker>> /\ coord = "reading"
        /\ wire # <<>> /\ wire' = Tail(wire) /\ Head(wire) \in Completion
    BY <1>2 DEF ForwardCompleted, Others, genVars, workerVars, clientVars
  <2>2. Reading /\ Sound /\ n >= 1 /\ n \in Nat /\ deltas \in Nat /\ Consumed \in Nat
    BY <1>2, <2>1, Types, Counted DEF Reading, DInv, PlaceInv, n
  <2>3. Nth(deltas, outcome, Head(wire), Consumed + 1)
    BY <2>1, <2>2, InPlaceTail DEF DInv, FlightInv, QueuesOK
  <2>4. PICK o \in Outcome : Head(wire) = Completed(o)
    BY <2>1 DEF Completion
  <2>5. /\ Head(wire) \notin {Error, Done} /\ \A i : Head(wire) # Text(i)
        /\ \A p : Head(wire) = Completed(p) => p = o
    BY <2>4, ChunksDiffer
  <2>6. ~completed
    <3>1. completed => Consumed = deltas + 1
      BY <2>1, <2>2, Counted DEF DInv
    <3> QED  BY <2>2, <2>3, <2>5, <3>1, NothingBeyond
  <2>7. Consumed = n - 1 /\ Consumed + 1 = n
    BY <2>1, <2>2, <2>6, Counted DEF DInv, n
  <2>8. outcome = o /\ n = deltas + 1
    BY <2>3, <2>5, <2>7 DEF Nth
  <2>9. CASE o = "calls"
    <3>1. Publish(ToolCalls, "finishing") /\ UNCHANGED completed
      BY <2>1, <2>4, <2>9, ChunksDiffer DEF PublishFinal
    <3>2. n + 1 <= Size(deltas, outcome) /\ ToolCalls = Part(deltas, outcome, n + 1)
      <4>1. n + 1 = deltas + 2 /\ Size(deltas, outcome) = deltas + 4
        BY <2>2, <2>8, <2>9, Parts
      <4> QED  BY <2>2, <2>8, <2>9, <4>1, Parts
    <3>3. JustInv' /\ Sound' /\ Length' = n + 1 /\ coord' = "finishing"
      BY <2>1, <2>2, <3>1, <3>2, NextChunk DEF DInv, n
    <3>4. n + 1 = deltas + 2
      BY <2>2, <2>8
    <3>5. PlaceInv'
      BY <2>1, <2>6, <2>8, <2>9, <3>1, <3>3, <3>4 DEF PlaceInv
    <3>6. Consumed' = Consumed + 1
      BY <2>1, <2>2, <2>7, <2>8, <3>3 DEF Consumed
    <3> QED  BY <2>1, <2>2, <3>3, <3>5, <3>6, FlightGoesOn DEF DInv, Follows
  <2>10. CASE o = "text"
    <3>1. Publish(Finish, "reading") /\ completed' = TRUE
      BY <2>1, <2>4, <2>5, <2>10, ChunksDiffer DEF PublishFinal
    <3>2. n + 2 = Size(deltas, outcome)
      BY <2>2, <2>8, <2>10, Parts
    <3>3. JustInv' /\ PlaceInv' /\ coord' = "reading"
      BY <2>1, <2>2, <2>8, <3>1, <3>2, FinishChunk DEF DInv, n
    <3>4. Consumed' = Consumed + 1
      BY <2>1, <2>2, <2>7, <2>8, <3>1, <3>3 DEF Consumed
    <3> QED  BY <2>1, <2>2, <3>3, <3>4, FlightGoesOn DEF DInv, Follows
  <2> QED  BY <2>4, <2>9, <2>10 DEF Outcome
<1> QED  BY <1>1, <1>2

LEMMA FinishStep ==
  ASSUME QueuesOK, StatesOK, DInv, ForwardFinish PROVE Follows'
<1>1. CASE ~connected
  BY <1>1, Gone DEF ForwardFinish, PublishFinal, Publish, Others, clientVars
<1>2. CASE connected
  <2> DEFINE n == Length
  <2> HIDE DEF n
  <2>1. /\ PublishFinal(Finish) /\ UNCHANGED <<got, deltas, outcome>> /\ connected'
        /\ UNCHANGED <<link, events, sdk, gen, worker, wire>> /\ coord = "finishing"
    BY <1>2 DEF ForwardFinish, Others, genVars, workerVars, clientVars
  <2>2. /\ Reading /\ Sound /\ n \in Nat /\ deltas \in Nat /\ outcome = "calls" /\ n = deltas + 2
        /\ Consumed = deltas + 1
    BY <1>2, <2>1, Types, Counted DEF Reading, DInv, PlaceInv, n
  <2>3. Publish(Finish, "reading") /\ completed' = TRUE
    BY <2>1, ChunksDiffer DEF PublishFinal
  <2>4. n + 2 = Size(deltas, outcome) /\ outcome \in Outcome
    BY <2>2, Parts DEF Outcome
  <2>5. JustInv' /\ PlaceInv' /\ coord' = "reading"
    BY <2>1, <2>2, <2>3, <2>4, FinishChunk DEF DInv, n
  <2>6. Consumed' = Consumed
    BY <2>1, <2>2, <2>3, <2>5 DEF Consumed
  <2> QED  BY <2>1, <2>2, <2>5, <2>6, FlightGoesOn DEF DInv, Follows
<1> QED  BY <1>1, <1>2

(* The rest of a response that has ended: the worker's [DONE].             *)
LEMMA SkipStep ==
  ASSUME QueuesOK, StatesOK, DInv, SkipDone PROVE Follows'
<1>1. /\ UNCHANGED <<deltas, outcome, got, public, connected, coord, completed>>
      /\ UNCHANGED <<link, events, sdk, gen, worker>>
      /\ wire # <<>> /\ wire' = Tail(wire) /\ Head(wire) = Done
  BY DEF SkipDone, coordVars, Others, genVars, workerVars, clientVars
<1>2. JustInv' /\ PlaceInv'
  BY <1>1, SameForClient DEF DInv
<1>3. wire \in Seq(Wired) /\ Len(wire) \in Nat \ {0} /\ wire[1] = Done
  BY <1>1 DEF QueuesOK
<1>4. link = "ended" /\ Len(wire) = 1
  <2>1. ASSUME NEW m \in Nat \ {0} PROVE 1 \in 1..m /\ (m # 1 => 1 \in 1..(m - 1))
    OBVIOUS
  <2> QED  BY <1>3, <2>1 DEF DInv, DoneInv
<1>5. wire' = <<>> /\ events' = <<>> /\ sdk' = <<>> /\ worker' # "relaying"
  BY <1>1, <1>3, <1>4 DEF DInv, DoneInv
<1>6. FlightInv'
  BY <1>5, EmptyInPlace DEF FlightInv
<1> QED  BY <1>2, <1>6 DEF Follows

(* The task stops reading: at an error of the worker, at a response that   *)
(* breaks off, and at its end.                                             *)
LEMMA StopStep ==
  ASSUME QueuesOK, StatesOK, DInv, ForwardError \/ BodyFails \/ BodyEnds PROVE Follows'
<1>1. CASE ~connected
  BY <1>1, Gone DEF ForwardError, BodyFails, BodyEnds, Others, clientVars
<1>2. CASE connected
  <2>n. PICK n : n = Length
    OBVIOUS
  <2>1. /\ UNCHANGED <<got, deltas, outcome, completed>> /\ connected' /\ coord = "reading"
        /\ coord' \in {"releasing", "ended"}
    BY <1>2 DEF ForwardError, BodyFails, BodyEnds, PublishAnyway, Publish, Others, genVars,
       clientVars
  <2>2. n \in Nat /\ n >= 1 /\ At(n) # Done
    BY <1>2, <2>1, NotDone, <2>n DEF DInv
  <2>3. ~Reading'
    BY <2>1 DEF Reading
  <2>4. CASE ForwardError
    <3>1. Publish(Error, "releasing")
      BY <1>2, <2>4 DEF ForwardError, PublishAnyway
    <3>2. JustInv' /\ coord' = "releasing"
      BY <2>1, <2>2, <3>1, ErrorChunk, <2>n DEF DInv
    <3> QED  BY <2>3, <3>2 DEF Follows, PlaceInv, FlightInv
  <2>5. CASE BodyFails
    <3>1. Publish(Error, "ended")
      BY <1>2, <2>5 DEF BodyFails, PublishAnyway
    <3>2. /\ JustInv' /\ Length' = n + 1 /\ coord' = "ended" /\ At(n + 1)' = Error
          /\ \A k \in 1..n : At(k)' = At(k)
      BY <2>1, <2>2, <3>1, ErrorChunk, <2>n DEF DInv
    <3>3. At(Length)' = Error /\ Length' >= 1
      BY <2>2, <3>2
    <3>4. completed => Broken'
      <4> SUFFICES ASSUME completed PROVE Broken'
        OBVIOUS
      <4>1. Sound /\ outcome \in Outcome /\ n = Size(deltas, outcome) - 1 /\ deltas \in Nat
        BY <1>2, <2>1, Types, <2>n DEF DInv, PlaceInv, Complete
      <4>2. Part(deltas, outcome, n) = Finish
        <5>1. CASE outcome = "text"
          <6>1. n = deltas + 2
            BY <4>1, <5>1, Parts
          <6> QED  BY <4>1, <5>1, <6>1, Parts
        <5>2. CASE outcome = "calls"
          <6>1. n = deltas + 3
            BY <4>1, <5>2, Parts
          <6> QED  BY <4>1, <5>2, <6>1, Parts
        <5> QED  BY <4>1, <5>1, <5>2 DEF Outcome
      <4>3. n \in 1..n
        BY <2>2
      <4>4. At(n)' = Finish
        BY <3>2, <4>1, <4>2, <4>3, <2>n DEF Sound
      <4>5. Length' > 1 /\ n \in 1..(Length' - 1)
        BY <2>2, <3>2
      <4> QED  BY <3>3, <4>4, <4>5 DEF Broken
    <3>5. PlaceInv'
      BY <2>1, <3>2, <3>3, <3>4, ChunksDiffer DEF PlaceInv
    <3> QED  BY <2>3, <3>2, <3>5 DEF Follows, FlightInv
  <2>6. CASE BodyEnds
    <3>1. UNCHANGED <<got, public, connected>> /\ coord' = "ended"
      BY <1>2, <2>6 DEF BodyEnds, Others, clientVars
    <3>2. Length' = Length /\ \A k : At(k)' = At(k)
      BY <3>1 DEF Length, At
    <3>3. JustInv'
      BY <2>1, <3>1, <3>2 DEF DInv, JustInv, Justified, InAnswer, Cut, ClosedAfterCut
    <3>4. At(Length)' # Done /\ Length' >= 1
      <4>1. At(Length)' = At(Length)
        BY <3>1 DEF At, Length
      <4> QED  BY <2>2, <3>2, <4>1, <2>n
    <3>5. completed => Complete'
      BY <1>2, <2>1, <3>2 DEF DInv, PlaceInv, Complete, Sound
    <3> QED  BY <2>1, <2>3, <3>1, <3>3, <3>4, <3>5 DEF Follows, FlightInv, PlaceInv
  <2> QED  BY <2>4, <2>5, <2>6
<1> QED  BY <1>1, <1>2

LEMMA CloseStep ==
  ASSUME QueuesOK, StatesOK, DInv, CloseStream PROVE Follows'
<1>1. CASE ~connected
  BY <1>1, Gone DEF CloseStream, Others, clientVars
<1>2. CASE connected
  <2>n. PICK n : n = Length
    OBVIOUS
  <2>1. /\ UNCHANGED <<got, deltas, outcome>> /\ coord = "ended" /\ n \in Nat /\ deltas \in Nat
        /\ IF completed THEN Publish(Done, "releasing") ELSE Publish(Error, "cancelling")
    BY <1>2, Types, <2>n DEF CloseStream, PublishAnyway, Others, genVars, clientVars
  <2>2. coord' \in {"releasing", "cancelling"}
    BY <2>1 DEF Publish
  <2>3. PlaceInv' /\ FlightInv'
    BY <2>2 DEF PlaceInv, FlightInv, Reading
  <2>4. CASE ~completed
    <3>1. n >= 1 /\ At(n) # Done
      BY <1>2, <2>1, <2>4, <2>n DEF DInv, PlaceInv
    <3>2. JustInv'
      BY <2>1, <2>4, <3>1, ErrorChunk, <2>n DEF DInv
    <3> QED  BY <2>3, <3>2 DEF Follows
  <2>5. CASE completed /\ Complete
    <3>1. n + 1 = Size(deltas, outcome) /\ outcome \in Outcome /\ Sound
      <4>1. n = Size(deltas, outcome) - 1 /\ Size(deltas, outcome) \in Nat
        BY <2>1, <2>5, Parts, <2>n DEF Complete
      <4> QED  BY <2>1, <2>5, <4>1 DEF Complete
    <3>2. Done = Part(deltas, outcome, n + 1)
      BY <2>1, <3>1, Parts DEF Outcome
    <3>3. n + 1 <= Size(deltas, outcome)
      BY <2>1, <3>1
    <3>4. JustInv'
      BY <2>1, <2>5, <3>1, <3>2, <3>3, NextChunk, <2>n DEF DInv
    <3> QED  BY <2>3, <3>4 DEF Follows
  <2>6. CASE completed /\ Broken
    <3>1. /\ n \in Nat /\ Length' = n + 1 /\ At(n + 1)' = Done
          /\ \A k \in 1..n : At(k)' = At(k)
      BY <2>1, <2>6, Published, <2>n
    <3>2. n > 1 /\ At(n) = Error /\ \E i \in 1..(n - 1) : At(i) = Finish
      BY <2>6, <2>n DEF Broken
    <3>3. ClosedAfterCut(n + 1)'
      <4>1. n + 1 > 1 /\ (n + 1) - 1 = n /\ n \in 1..n /\ \A i \in 1..(n - 1) : i \in 1..n
        BY <2>1, <3>2
      <4> QED  BY <3>1, <3>2, <4>1 DEF ClosedAfterCut
    <3>4. JustInv'
      BY <2>1, <2>6, <3>3, JustPublished, <2>n DEF DInv, Justified
    <3> QED  BY <2>3, <3>4 DEF Follows
  <2> QED  BY <1>2, <2>1, <2>4, <2>5, <2>6 DEF DInv, PlaceInv
<1> QED  BY <1>1, <1>2

LEMMA ClientStep ==
  ASSUME QueuesOK, StatesOK, DInv, ClientReads PROVE Follows'
<1>1. /\ UNCHANGED <<deltas, outcome, coord, completed, connected, wire, events, sdk, gen, worker,
                   link>>
      /\ got' = Append(got, Head(public)) /\ public' = Tail(public) /\ public # <<>>
      /\ got \in Seq(Chunk) /\ public \in Seq(Chunk)
  BY DEF ClientReads, genVars, workerVars, QueuesOK
<1>2. /\ Len(got) \in Nat /\ Len(public) \in Nat \ {0}
      /\ Len(got') = Len(got) + 1 /\ Len(public') = Len(public) - 1
      /\ \A i \in 1..Len(got) : got'[i] = got[i]
      /\ got'[Len(got) + 1] = public[1]
      /\ \A i \in 1..(Len(public) - 1) : public'[i] = public[i + 1]
  BY <1>1
<1>3. PICK n : n = Length
  OBVIOUS
<1>4. n \in Nat /\ n = Len(got) + Len(public) /\ Length' = n
  BY <1>2, <1>3 DEF Length
<1>5. ASSUME NEW k \in 1..n PROVE At(k)' = At(k)
  <2>1. CASE k <= Len(got)
    BY <1>2, <1>4, <1>5, <2>1 DEF At
  <2>2. CASE k = Len(got) + 1
    BY <1>2, <2>2 DEF At
  <2>3. CASE k > Len(got) + 1
    <3>1. /\ k - Len(got) - 1 \in 1..(Len(public) - 1) /\ ~(k <= Len(got)) /\ ~(k <= Len(got'))
          /\ k - Len(got') = k - Len(got) - 1 /\ k - Len(got) - 1 + 1 = k - Len(got)
      BY <1>2, <1>4, <1>5, <2>3
    <3> QED  BY <1>2, <3>1 DEF At
  <2> QED  BY <1>2, <1>4, <1>5, <2>1, <2>2, <2>3
<1>6. ASSUME NEW k \in 1..n, Justified(k) PROVE Justified(k)'
  <2>1. \A i \in 1..(k - 1) : i \in 1..n
    BY <1>4
  <2>2. k > 1 => k - 1 \in 1..n
    BY <1>4
  <2> QED
    BY <1>1, <1>5, <1>6, <2>1, <2>2 DEF Justified, InAnswer, Cut, ClosedAfterCut
<1>7. JustInv'
  BY <1>1, <1>3, <1>4, <1>6 DEF DInv, JustInv
<1>8. Sound => Sound'
  BY <1>1, <1>3, <1>4, <1>5 DEF Sound
<1>9. n >= 1 => At(Length)' = At(Length)
  <2> SUFFICES ASSUME n >= 1 PROVE At(Length)' = At(Length)
    OBVIOUS
  <2>1. At(n)' = At(n)
    BY <1>4, <1>5
  <2> QED  BY <1>3, <1>4, <2>1
<1>10. Broken => Broken'
  <2> SUFFICES ASSUME Broken PROVE Broken'
    OBVIOUS
  <2>1. n > 1 /\ At(n) = Error /\ \E i \in 1..(n - 1) : At(i) = Finish
    BY <1>3 DEF Broken
  <2>2. n >= 1 /\ \A i \in 1..(n - 1) : i \in 1..n
    BY <1>4, <2>1
  <2>3. At(Length)' = Error
    BY <1>3, <1>9, <2>1, <2>2
  <2> QED  BY <1>4, <1>5, <2>1, <2>2, <2>3 DEF Broken
<1>11. PlaceInv'
  <2>1. Complete => Complete'
    BY <1>1, <1>3, <1>4, <1>8 DEF Complete
  <2> QED  BY <1>1, <1>3, <1>4, <1>8, <1>9, <1>10, <2>1 DEF DInv, PlaceInv
<1>12. FlightInv'
  <2>1. Consumed' = Consumed
    BY <1>1, <1>3, <1>4 DEF Consumed
  <2>2. Relayed' = Relayed /\ Queued' = Queued /\ Reading' = Reading
    BY <1>1, <2>1 DEF Relayed, Queued, Reading
  <2> QED  BY <1>1, <2>1, <2>2 DEF DInv, FlightInv
<1> QED  BY <1>7, <1>11, <1>12 DEF Follows

(* The remaining steps: of a task that no longer reads, and of a client or *)
(* a coordinator that goes away.                                           *)
LEMMA AwayStep ==
  ASSUME DInv,
         \/ Cancel \/ CancelReturns \/ CancelBreaks \/ ReleaseAndReturn \/ CrashCoordinator
         \/ ClientLeaves
  PROVE  Follows'
<1>1. CASE CrashCoordinator \/ ClientLeaves
  BY <1>1, Gone DEF CrashCoordinator, ClientLeaves
<1>2. CASE Cancel \/ CancelReturns \/ CancelBreaks \/ ReleaseAndReturn
  <2>1. /\ UNCHANGED <<got, public, deltas, outcome, connected>>
        /\ coord' \in {"awaiting", "releasing", "released", "givingUp", "gaveUp"}
    BY <1>2 DEF Cancel, CancelReturns, CancelBreaks, ReleaseAndReturn, Others, genVars, clientVars
  <2>2. Length' = Length /\ \A k : At(k)' = At(k)
    BY <2>1 DEF Length, At
  <2>3. JustInv'
    BY <2>1, <2>2 DEF DInv, JustInv, Justified, InAnswer, Cut, ClosedAfterCut
  <2> QED  BY <2>1, <2>3 DEF Follows, PlaceInv, FlightInv, Reading
<1> QED  BY <1>1, <1>2

LEMMA PlacesStep ==
  ASSUME IInv, DInv, [Next]_vars PROVE DInv'
<1>0. QueuesOK /\ StatesOK /\ EndInv
  BY DEF IInv
<1>1. DoneInv'
  BY <1>0, DoneStep DEF DInv
<1> SUFFICES Follows'
  BY <1>1 DEF DInv, Follows
<1>2. CASE SendText \/ SendEnd                               BY <1>0, <1>2, PushStep
<1>3. CASE Compute \/ SendFails \/ WorkerTask \/ Response \/ CrashWorker \/ ConnectionBreaks
  BY <1>0, <1>3, WorkerStep
<1>4. CASE SendRole                                          BY <1>0, <1>4, RoleStep
<1>5. CASE ForwardDelta                                      BY <1>0, <1>5, DeltaStep
<1>6. CASE ForwardCompleted                                  BY <1>0, <1>6, CompletedStep
<1>7. CASE ForwardFinish                                     BY <1>0, <1>7, FinishStep
<1>8. CASE SkipDone                                          BY <1>0, <1>8, SkipStep
<1>9. CASE ForwardError \/ BodyFails \/ BodyEnds             BY <1>0, <1>9, StopStep
<1>10. CASE CloseStream                                      BY <1>0, <1>10, CloseStep
<1>11. CASE ClientReads                                      BY <1>0, <1>11, ClientStep
<1>12. CASE \/ Cancel \/ CancelReturns \/ CancelBreaks \/ ReleaseAndReturn \/ CrashCoordinator
            \/ ClientLeaves
  BY <1>0, <1>12, AwayStep
<1>13. CASE UNCHANGED vars
  <2>1. UNCHANGED <<deltas, outcome, got, public, connected, coord, completed, wire, events, sdk,
                    gen, worker, link>>
    BY <1>13 DEF vars, genVars, workerVars, coordVars, clientVars
  <2>2. JustInv' /\ PlaceInv' /\ Consumed' = Consumed /\ Reading' = Reading
    BY <1>0, <2>1, SameForClient DEF DInv
  <2>3. Relayed' = Relayed /\ Queued' = Queued
    BY <2>1, <2>2 DEF Relayed, Queued
  <2> QED  BY <2>1, <2>2, <2>3 DEF DInv, Follows, FlightInv
<1> QED
  BY <1>1, <1>2, <1>3, <1>4, <1>5, <1>6, <1>7, <1>8, <1>9, <1>10, <1>11, <1>12, <1>13
     DEF Next, ModelThread, CoordinatorTask, DInv, Follows

LEMMA PlacesInvariance == Spec => []DInv
<1>1. Init => DInv
  <2> SUFFICES ASSUME Init PROVE DInv
    OBVIOUS
  <2>1. Length = 0 /\ Len(wire) = 0 /\ Len(events) = 0 /\ Len(sdk) = 0
    BY DEF Init, Length
  <2>2. JustInv /\ PlaceInv
    BY <2>1 DEF Init, JustInv, PlaceInv
  <2>3. Consumed = 0 /\ Relayed = 0 /\ Queued = 0
    BY <2>1 DEF Init, Consumed, Relayed, Queued
  <2>4. FlightInv /\ DoneInv
    BY <2>1, <2>3, EmptyInPlace DEF Init, FlightInv, DoneInv
  <2> QED  BY <2>2, <2>4 DEF DInv
<1> QED  BY <1>1, PlacesStep, Invariance, PTL DEF Spec

-----------------------------------------------------------------------------
(* The text is in order.                                                   *)

Shown == got \o public
Ordered ==
  \A k \in 1..Length :
    At(k) \in Delta => TextsIn(Shown, k) <= deltas /\ At(k) = Text(TextsIn(Shown, k))

ShownIsAt == DOMAIN Shown = 1..Length /\ \A k \in 1..Length : Shown[k] = At(k)

LEMMA ShownAt == QueuesOK => ShownIsAt
BY DEF QueuesOK, Shown, Length, At, ShownIsAt

(* The text of an answer is its second to its d + 1-st chunk.              *)
LEMMA TextParts ==
  ASSUME NEW d \in 0..MaxDeltas, NEW o, NEW k \in 1..Size(d, o)
  PROVE  Part(d, o, k) \in Delta <=> k \in 2..(d + 1)
<1>0. d \in Nat /\ Size(d, o) \in Nat /\ \A e \in {Role, ToolCalls, Finish, Error, Done} : e \notin Delta
  BY Capacities, Parts, ChunksDiffer DEF Delta
<1>1. CASE k \in 2..(d + 1)
  <2>1. Part(d, o, k) = Text(k - 1) /\ k - 1 \in 1..MaxDeltas
    BY <1>0, <1>1, Parts, Capacities
  <2> QED  BY <1>1, <2>1 DEF Delta
<1>2. CASE k \notin 2..(d + 1)
  <2>1. k = 1 \/ k > d + 1
    BY <1>0, <1>2
  <2>2. CASE k = 1
    BY <1>0, <1>2, <2>2, Parts
  <2>3. CASE k > d + 1 /\ o = "text"
    <3>1. k \in {d + 2, d + 3}
      BY <1>0, <2>3, Parts
    <3> QED  BY <1>0, <1>2, <2>3, <3>1, Parts
  <2>4. CASE k > d + 1 /\ o = "calls"
    <3>1. k \in {d + 2, d + 3, d + 4}
      BY <1>0, <2>4, Parts
    <3> QED  BY <1>0, <1>2, <2>4, <3>1, Parts
  <2>5. CASE k > d + 1 /\ o \notin Outcome
    BY <1>0, <2>5, Parts
  <2> QED  BY <2>1, <2>2, <2>3, <2>4, <2>5 DEF Outcome
<1> QED  BY <1>1, <1>2

(* A connected client has an answer up to every text it has.               *)
LEMMA AnswerOrdered == QueuesOK /\ JustInv /\ connected => Ordered
<1> SUFFICES ASSUME QueuesOK, JustInv, connected, NEW k \in 1..Length, At(k) \in Delta
             PROVE  TextsIn(Shown, k) <= deltas /\ At(k) = Text(TextsIn(Shown, k))
  BY DEF Ordered
<1>0. /\ Length \in Nat /\ deltas \in 0..MaxDeltas /\ deltas \in Nat /\ Size(deltas, outcome) \in Nat
      /\ Error \notin Delta /\ Done \notin Delta /\ k \in Nat
  BY Types, Parts, ChunksDiffer DEF QueuesOK, Delta
<1>1. InAnswer(k)
  <2>1. At(k) # Error /\ At(k) # Done /\ Justified(k)
    BY <1>0 DEF JustInv
  <2> QED  BY <2>1 DEF Justified, Cut, ClosedAfterCut
<1>2. k \in 2..(deltas + 1) /\ At(k) = Text(k - 1)
  <2>1. k \in 1..Size(deltas, outcome) /\ At(k) = Part(deltas, outcome, k)
    BY <1>0, <1>1 DEF InAnswer
  <2>2. k \in 2..(deltas + 1)
    BY <1>0, <2>1, TextParts
  <2> QED  BY <1>0, <2>1, <2>2, Parts
<1>3. ASSUME NEW j \in 1..k PROVE Shown[j] \in Delta <=> j \in 2..k
  <2>1. j \in 1..Length /\ j \in 1..Size(deltas, outcome) /\ j \in Nat
    BY <1>0, <1>1 DEF InAnswer
  <2>2. CASE j = k
    BY <1>2, <2>1, <2>2, ShownAt DEF ShownIsAt
  <2>3. CASE j < k
    <3>1. j \in 1..(k - 1) /\ (j > 1 => j - 1 \in 1..(k - 1))
      BY <1>0, <2>1, <2>3
    <3>2. InAnswer(j)
      BY <1>1, <2>1, <3>1 DEF InAnswer, JustInv, Justified, Cut, ClosedAfterCut
    <3>3. At(j) \in Delta <=> j \in 2..(deltas + 1)
      BY <1>0, <2>1, <3>2, TextParts DEF InAnswer
    <3>4. j \in 2..(deltas + 1) <=> j \in 2..k
      BY <1>0, <1>2, <2>1, <2>3
    <3> QED  BY <2>1, <3>3, <3>4, ShownAt DEF ShownIsAt
  <2> QED  BY <1>0, <2>1, <2>2, <2>3
<1>4. {j \in 1..k : Shown[j] \in Delta} = 2..k
  BY <1>0, <1>3
<1>5. TextsIn(Shown, k) = k - 1
  <2>1. Cardinality(2..k) = IF 2 > k THEN 0 ELSE k - 2 + 1
    BY <1>0, FS_Interval
  <2>2. TextsIn(Shown, k) = Cardinality(2..k)
    BY <1>4, Zenon DEF TextsIn
  <2> QED  BY <1>0, <1>2, <2>1, <2>2
<1> QED  BY <1>0, <1>2, <1>5

(* What the client has when the connection is gone it had before.          *)
LEMMA GoneKeeps ==
  ASSUME QueuesOK, [Next]_vars, ~connected'
  PROVE  /\ got' = got /\ public' \in {public, <<>>}
         /\ deltas' \in {deltas, deltas + 1}
<1> USE DEF genVars, workerVars, coordVars, clientVars, Others
<1>1. CASE ModelThread
  BY <1>1 DEF ModelThread, Compute, SendText, SendEnd, Push, SendFails
<1>2. CASE WorkerTask \/ Response \/ CrashWorker \/ ConnectionBreaks
  BY <1>2 DEF WorkerTask, Response, RelayEvent, RelayBreaks, WorkerDone, WriteResponse, EndResponse,
     CrashWorker, ConnectionBreaks, CutOff
<1>3. CASE SendRole \/ ForwardDelta \/ ForwardCompleted \/ ForwardFinish \/ ForwardError \/ SkipDone
  BY <1>3 DEF SendRole, ForwardDelta, ForwardCompleted, ForwardFinish, ForwardError, SkipDone,
     PublishFinal, PublishAnyway, Publish
<1>4. CASE \/ BodyFails \/ BodyEnds \/ CloseStream \/ Cancel \/ CancelReturns \/ CancelBreaks
           \/ ReleaseAndReturn
  BY <1>4 DEF BodyFails, BodyEnds, CloseStream, Cancel, CancelReturns, CancelBreaks,
     ReleaseAndReturn, PublishAnyway, Publish
<1>5. CASE CrashCoordinator \/ ClientReads \/ ClientLeaves \/ UNCHANGED vars
  BY <1>5 DEF CrashCoordinator, ClientReads, ClientLeaves, vars
<1> QED  BY <1>1, <1>2, <1>3, <1>4, <1>5 DEF Next, CoordinatorTask

LEMMA OrderStep ==
  ASSUME IInv, DInv, Ordered, [Next]_vars
  PROVE  Ordered'
<1>0. QueuesOK /\ QueuesOK' /\ JustInv'
  BY QueuesStep, PlacesStep DEF IInv, DInv
<1>1. CASE connected'
  BY <1>0, <1>1, AnswerOrdered, PTL
<1>2. CASE ~connected'
  <2>1. /\ got' = got /\ public' \in {public, <<>>} /\ deltas' \in {deltas, deltas + 1}
        /\ deltas \in Nat
    BY <1>0, <1>2, GoneKeeps, Types
  <2>2. /\ Length \in Nat /\ Length' \in Nat /\ Length' <= Length
        /\ \A k \in 1..Length' : At(k)' = At(k)
    <3>1. Len(got) \in Nat /\ Len(public) \in Nat
      BY <1>0, Types
    <3>2. CASE public' = public
      BY <2>1, <3>1, <3>2 DEF Length, At
    <3>3. CASE public' = <<>>
      BY <2>1, <3>1, <3>3 DEF Length, At
    <3> QED  BY <2>1, <3>2, <3>3
  <2>3. ASSUME NEW k \in 1..Length'
        PROVE  TextsIn(Shown, k)' = TextsIn(Shown, k)
    <3>1. \A j \in 1..k : j \in 1..Length /\ j \in 1..Length'
      BY <2>2, <2>3
    <3>2. \A j \in 1..k : Shown'[j] = Shown[j]
      <4>1. ShownIsAt /\ ShownIsAt'
        BY <1>0, ShownAt, PTL
      <4> QED  BY <2>2, <3>1, <4>1 DEF ShownIsAt
    <3>3. {j \in 1..k : Shown'[j] \in Delta} = {j \in 1..k : Shown[j] \in Delta}
      BY <3>2
    <3> QED  BY <3>3 DEF TextsIn
  <2>4. ASSUME NEW k \in 1..Length', At(k)' \in Delta
        PROVE  TextsIn(Shown, k)' <= deltas' /\ At(k)' = Text(TextsIn(Shown, k)')
    <3>1. k \in 1..Length /\ At(k)' = At(k) /\ TextsIn(Shown, k)' = TextsIn(Shown, k)
      BY <2>2, <2>3, <2>4
    <3>2. TextsIn(Shown, k) <= deltas /\ At(k) = Text(TextsIn(Shown, k))
      BY <2>4, <3>1 DEF Ordered
    <3>3. TextsIn(Shown, k) \in Nat
      <4>1. k \in Int
        BY <2>2
      <4>2. IsFiniteSet(1..k)
        BY <4>1, FS_Interval
      <4>3. IsFiniteSet({j \in 1..k : Shown[j] \in Delta})
        BY <4>2, FS_Subset
      <4> QED  BY <4>3, FS_CardinalityType DEF TextsIn
    <3> QED  BY <2>1, <3>1, <3>2, <3>3
  <2> QED  BY <2>4 DEF Ordered
<1> QED  BY <1>1, <1>2

(* For any queue sizes: the n-th text the client has or is about to get is *)
(* the n-th the model generated, whatever crashes, leaves or is cancelled  *)
(* (coordinator/src/api.rs:246-437).                                       *)
THEOREM TextAlwaysInOrder == Spec => []TextInOrder
<1>1. Init => Ordered
  BY DEF Init, Ordered, Length
<1>2. IInv /\ Ordered => TextInOrder
  BY ShownAt DEF ShownIsAt, IInv, QueuesOK, StatesOK, TypeOK, Wired, Ordered, TextInOrder, Shown
<1> QED  BY <1>1, <1>2, OrderStep, Invariance, PlacesInvariance, PTL DEF Spec

-----------------------------------------------------------------------------
(* The abstract answer is the one the invariant speaks of.                 *)
LEMMA SameAnswer ==
  /\ D!AnswerLength = Size(deltas, outcome)
  /\ \A k : D!AnswerAt(k) = Part(deltas, outcome, k)
  /\ D!Error = Error /\ D!Done = Done /\ D!Finish = Finish
BY DEF D!AnswerLength, D!AnswerAt, D!Closing, D!Role, D!ToolCalls, D!Finish, D!Done, D!Text,
       D!Error, Size, Part, ClosingOf, Role, ToolCalls, Finish, Done, Text, Error

(* What the client reads is a step of the abstract delivery.               *)
LEMMA ReadRefines ==
  ASSUME IInv, DInv, ClientReads PROVE D!Next
<1>1. /\ UNCHANGED <<deltas, outcome>> /\ connected
      /\ got' = Append(got, Head(public)) /\ public # <<>>
      /\ got \in Seq(Chunk) /\ public \in Seq(Chunk)
  BY DEF ClientReads, genVars, IInv, QueuesOK
<1>2. /\ Len(got) \in Nat /\ Len(public) \in Nat \ {0} /\ Head(public) = public[1]
      /\ DOMAIN got = 1..Len(got)
  BY <1>1
<1>3. PICK k : k = Len(got) + 1
  OBVIOUS
<1>4. /\ k \in 1..Length /\ At(k) = Head(public) /\ k - 1 = Len(got)
      /\ \A i \in 1..Len(got) : At(i) = got[i]
  BY <1>2, <1>3 DEF At, Length
<1>5. Justified(k)
  BY <1>1, <1>4 DEF DInv, JustInv
<1>6. CASE InAnswer(k)
  <2>1. Len(got) < D!AnswerLength
    <3>1. k <= Size(deltas, outcome) /\ Size(deltas, outcome) \in Nat
      BY <1>6, Types, Parts DEF InAnswer, IInv
    <3> QED  BY <1>2, <1>3, <3>1, SameAnswer
  <2>2. Head(public) = D!AnswerAt(Len(got) + 1)
    BY <1>3, <1>4, <1>6, SameAnswer DEF InAnswer
  <2>3. \A i \in DOMAIN got : got[i] # D!Error
    BY <1>2, <1>4, <1>6, SameAnswer DEF InAnswer
  <2> QED  BY <1>1, <2>1, <2>2, <2>3 DEF D!Next, D!Show
<1>7. ASSUME k > 1 PROVE got # <<>> /\ At(k - 1) = got[Len(got)]
  <2>1. Len(got) \in 1..Len(got)
    BY <1>2, <1>3, <1>7
  <2> QED  BY <1>2, <1>4, <2>1
<1>8. CASE Cut(k)
  BY <1>1, <1>4, <1>7, <1>8, SameAnswer DEF Cut, D!Next, D!ShowError
<1>9. CASE ClosedAfterCut(k)
  <2>1. \E i \in DOMAIN got : got[i] = Finish
    BY <1>2, <1>4, <1>9 DEF ClosedAfterCut
  <2> QED  BY <1>1, <1>4, <1>7, <1>9, <2>1, SameAnswer DEF ClosedAfterCut, D!Next, D!CloseAfterError
<1> QED  BY <1>5, <1>6, <1>8, <1>9 DEF Justified

LEMMA StepRefines ==
  ASSUME IInv, DInv, [Next]_vars PROVE [D!Next]_<<deltas, outcome, got>>
<1>1. CASE ClientReads
  BY <1>1, ReadRefines
<1>2. CASE SendText
  <2>1. outcome = "none"
    BY <1>2 DEF DInv, DoneInv, SendText
  <2> QED  BY <1>2, <2>1 DEF SendText, Push, clientVars, D!Next, D!Generate
<1>3. CASE SendEnd
  <2>1. outcome = "none"
    BY <1>3 DEF DInv, DoneInv, SendEnd
  <2>2. outcome' \in {"text", "calls", "error"} /\ UNCHANGED <<deltas, got>>
    BY <1>3 DEF SendEnd, Push, clientVars, Outcome
  <2> QED  BY <2>1, <2>2 DEF D!Next, D!End
<1>4. CASE \/ Compute \/ SendFails \/ WorkerTask \/ Response \/ CrashWorker \/ ConnectionBreaks
           \/ CrashCoordinator \/ ClientLeaves \/ UNCHANGED vars
  BY <1>4 DEF Compute, SendFails, WorkerTask, RelayEvent, RelayBreaks, WorkerDone, Response,
     WriteResponse, EndResponse, CrashWorker, ConnectionBreaks, CutOff, CrashCoordinator,
     ClientLeaves, vars, genVars, clientVars
<1>5. CASE CoordinatorTask \/ CancelBreaks
  BY <1>5 DEF CoordinatorTask, SendRole, ForwardDelta, ForwardCompleted, ForwardFinish,
     ForwardError, SkipDone, BodyFails, BodyEnds, CloseStream, Cancel, CancelReturns,
     CancelBreaks, ReleaseAndReturn, Others, genVars, clientVars
<1> QED  BY <1>1, <1>2, <1>3, <1>4, <1>5 DEF Next, ModelThread

(* The path of queues and tasks from the model thread to the client keeps  *)
(* what Delivery promises, for any queue sizes and any length of text: the *)
(* role, the text in order and without gaps, the two closing chunks, and   *)
(* [DONE] only behind a completion shown in full                           *)
(* (coordinator/src/api.rs:268-437).                                       *)
THEOREM RelayRefinesDelivery == Spec => ImplementsDelivery
<1>1. Init => D!Init
  BY DEF Init, D!Init
<1>2. IInv /\ DInv /\ [Next]_vars => [D!Next]_<<deltas, outcome, got>>
  BY StepRefines
<1> QED  BY <1>1, <1>2, Invariance, PlacesInvariance, PTL DEF Spec, ImplementsDelivery, D!Spec

=============================================================================
