---------------------------- MODULE SessionLeases ---------------------------
(***************************************************************************)
(* Requests of a worker on their way to the model thread: the lease of     *)
(* their session (worker/src/state.rs, SessionLeases), the jobs channel    *)
(* and the thread that serves it (decompute-sdk/src/gguf.rs).  A request   *)
(* waits for its session's lease until a deadline, then goes on isolated,  *)
(* without the session's cached context.                                   *)
(*                                                                         *)
(* tokio's Notify is external: a Notified future receives every            *)
(* notify_waiters issued after the future was created, polled or not.      *)
(***************************************************************************)
EXTENDS Integers, Sequences, FiniteSets

CONSTANTS Request, Session, NoSession, NoRequest,
          SessionOf,   \* the session id in each request's body, or NoSession
          Streaming,   \* the requests of /generate/stream
          Waits,       \* is session_slot_wait_timeout positive?
          JobsCap      \* mpsc::channel(1) in gguf.rs

ASSUME LeaseAssumption ==
  /\ NoSession \notin Session /\ NoRequest \notin Request
  /\ SessionOf \in [Request -> Session \cup {NoSession}]
  /\ Streaming \subseteq Request
  /\ Waits \in BOOLEAN
  /\ JobsCap \in Nat \ {0}

VARIABLES pc,         \* where each request's handler is
          leased,     \* the HashSet of leased sessions
          holds,      \* requests that own a SessionLease
          listening,  \* requests whose Notified future exists
          woken,      \* those whose future has been notified
          expired,    \* requests whose wait has lasted session_slot_wait_timeout
          isolated,   \* requests that go on without their session
          jobs,       \* the jobs channel
          running,    \* the job on the model thread
          ended,      \* jobs the model thread is done with
          unread      \* streams whose client neither reads nor leaves

waitVars == <<leased, holds, listening, woken, expired, isolated>>
modelVars == <<jobs, running, ended>>
vars == <<pc, waitVars, modelVars, unread>>

HandlerPc == {"idle", "listening", "inserting", "waiting", "queueing", "awaiting",
              "leaving", "notifying", "done"}

TypeOK ==
  /\ pc \in [Request -> HandlerPc]
  /\ leased \subseteq Session
  /\ {holds, listening, woken, expired, isolated, ended} \subseteq SUBSET Request
  /\ jobs \in Seq(Request) /\ Len(jobs) <= JobsCap
  /\ running \in Request \cup {NoRequest}
  /\ unread \subseteq Streaming

Init ==
  /\ pc = [r \in Request |-> "idle"]
  /\ leased = {} /\ holds = {} /\ listening = {} /\ woken = {}
  /\ expired = {} /\ isolated = {}
  /\ jobs = <<>> /\ running = NoRequest /\ ended = {}
  /\ unread = {}

Goto(r, from, to) == pc[r] = from /\ pc' = [pc EXCEPT ![r] = to]

-----------------------------------------------------------------------------
(* SessionLeases::acquire.                                                 *)

Arrive(r) ==
  /\ Goto(r, "idle", IF SessionOf[r] = NoSession THEN "queueing" ELSE "listening")
  /\ UNCHANGED <<waitVars, modelVars, unread>>

\* Defect: the future is only created after the set was looked at, so a
\* notification in between is missed.
ListenLate(r) ==
  /\ Goto(r, "listening", "inserting")
  /\ woken' = woken \ {r}
  /\ UNCHANGED <<leased, holds, listening, expired, isolated, modelVars, unread>>

Listen(r) ==
  /\ Goto(r, "listening", "inserting")
  /\ listening' = listening \cup {r}
  /\ woken' = woken \ {r}
  /\ UNCHANGED <<leased, holds, expired, isolated, modelVars, unread>>

\* Defect: the result of the insertion into the set is not looked at.
InsertAnyway(r) ==
  /\ Goto(r, "inserting", "queueing")
  /\ leased' = leased \cup {SessionOf[r]}
  /\ holds' = holds \cup {r}
  /\ listening' = listening \ {r}
  /\ UNCHANGED <<woken, expired, isolated, modelVars, unread>>

Insert(r) ==
  /\ SessionOf[r] \notin leased
  /\ Goto(r, "inserting", "queueing")
  /\ leased' = leased \cup {SessionOf[r]}
  /\ holds' = holds \cup {r}
  /\ listening' = listening \ {r}
  /\ UNCHANGED <<woken, expired, isolated, modelVars, unread>>

Wait(r) ==
  /\ SessionOf[r] \in leased
  /\ Waits /\ r \notin expired
  /\ Goto(r, "inserting", "waiting")
  /\ UNCHANGED <<waitVars, modelVars, unread>>

Wake(r) ==
  /\ r \in woken
  /\ Goto(r, "waiting", "listening")
  /\ listening' = listening \ {r}
  /\ UNCHANGED <<leased, holds, woken, expired, isolated, modelVars, unread>>

\* Defect: a request that gave up the wait keeps its session id.
KeepSession(r, from) ==
  /\ Goto(r, from, "queueing")
  /\ listening' = listening \ {r}
  /\ UNCHANGED <<leased, holds, woken, expired, isolated, modelVars, unread>>

Isolate(r, from) ==
  /\ Goto(r, from, "queueing")
  /\ isolated' = isolated \cup {r}
  /\ listening' = listening \ {r}
  /\ UNCHANGED <<leased, holds, woken, expired, modelVars, unread>>

(* No wait was asked for, or none of it is left; the timeout looks at the  *)
(* notification first.                                                     *)
GiveUp(r) ==
  \/ /\ SessionOf[r] \in leased
     /\ ~Waits \/ r \in expired
     /\ Isolate(r, "inserting")
  \/ r \in expired \ woken /\ Isolate(r, "waiting")

Deadline(r) ==
  /\ pc[r] \in {"listening", "inserting", "waiting"}
  /\ expired' = expired \cup {r}
  /\ UNCHANGED <<pc, leased, holds, listening, woken, isolated, modelVars, unread>>

-----------------------------------------------------------------------------
(* The model thread and its channel.                                       *)

Submit(r) ==
  /\ Len(jobs) < JobsCap
  /\ Goto(r, "queueing", "awaiting")
  /\ jobs' = Append(jobs, r)
  /\ UNCHANGED <<waitVars, running, ended, unread>>

TakeJob ==
  /\ running = NoRequest /\ jobs # <<>>
  /\ running' = Head(jobs)
  /\ jobs' = Tail(jobs)
  /\ UNCHANGED <<pc, waitVars, ended, unread>>

(* The events of a stream nobody reads fill its channels, and the thread   *)
(* blocks in the callback that sends the next one.                         *)
EndJob ==
  /\ running # NoRequest /\ running \notin unread
  /\ ended' = ended \cup {running}
  /\ running' = NoRequest
  /\ UNCHANGED <<pc, waitVars, jobs, unread>>

-----------------------------------------------------------------------------
(* The end of generate and of stream, where the lease is dropped.          *)

Return(r) ==
  /\ r \in ended \ unread
  /\ Goto(r, "awaiting", "leaving")
  /\ UNCHANGED <<waitVars, modelVars, unread>>

Served(r) == running = r \/ r \in ended

(* The client of a stream stops reading and stays connected.               *)
Stall(r) ==
  /\ r \in Streaming /\ pc[r] = "awaiting" /\ Served(r)
  /\ unread' = unread \cup {r}
  /\ UNCHANGED <<pc, waitVars, modelVars>>

(* The client is gone: a stream finds that out with its next event and     *)
(* leaves its loop, and the future of a unary handler is dropped at        *)
(* whichever await it has reached.  A job already queued stays where it is.*)
Abandon(r) ==
  /\ \/ r \in Streaming /\ Served(r) /\ Goto(r, "awaiting", "leaving")
     \/ r \notin Streaming
        /\ \E at \in {"waiting", "queueing", "awaiting"} : Goto(r, at, "leaving")
  /\ listening' = listening \ {r} /\ unread' = unread \ {r}
  /\ UNCHANGED <<leased, holds, woken, expired, isolated, modelVars>>

Unlease(r) ==
  /\ Goto(r, "leaving", IF r \in holds THEN "notifying" ELSE "done")
  /\ leased' = IF r \in holds THEN leased \ {SessionOf[r]} ELSE leased
  /\ holds' = holds \ {r}
  /\ UNCHANGED <<listening, woken, expired, isolated, modelVars, unread>>

\* Defect: notify_one, which may wake a request of another session.
NotifyOne(r) ==
  /\ Goto(r, "notifying", "done")
  /\ woken' = IF listening \subseteq woken THEN woken
              ELSE woken \cup {CHOOSE q \in listening \ woken : TRUE}
  /\ UNCHANGED <<leased, holds, listening, expired, isolated, modelVars, unread>>

NotifyWaiters(r) ==
  /\ Goto(r, "notifying", "done")
  /\ woken' = woken \cup listening
  /\ UNCHANGED <<leased, holds, listening, expired, isolated, modelVars, unread>>

-----------------------------------------------------------------------------

Step(r) ==
  \/ Listen(r) \/ Insert(r) \/ Wait(r) \/ Wake(r) \/ GiveUp(r)
  \/ Submit(r) \/ Return(r) \/ Unlease(r) \/ NotifyWaiters(r)

Next ==
  \/ \E r \in Request : Arrive(r) \/ Step(r) \/ Deadline(r) \/ Stall(r) \/ Abandon(r)
  \/ TakeJob \/ EndJob

(* Tasks are polled and a job that can deliver its events ends (max_tokens *)
(* bounds it).  No clock is assumed to advance, a wait has to end by the   *)
(* notification alone, and no client has to read or to leave.              *)
Fairness == /\ \A r \in Request : WF_vars(Step(r))
            /\ WF_vars(TakeJob) /\ WF_vars(EndJob)

Spec == Init /\ [][Next]_vars /\ Fairness

-----------------------------------------------------------------------------
(* Properties.                                                             *)

(* The set of leased sessions is exactly the sessions of the lease owners, *)
(* and no two requests own the lease of one session: dropped handlers,     *)
(* timeouts and races for a freed lease included.                          *)
LeasesMatchOwners ==
  /\ TypeOK
  /\ leased = {SessionOf[r] : r \in holds}
  /\ \A r, q \in holds : SessionOf[r] = SessionOf[q] => r = q

(* The jobs that will use, or use, the cached context of a session.        *)
CachedJobs(s) ==
  {r \in {running} \cup {jobs[i] : i \in DOMAIN jobs} :
     r # NoRequest /\ SessionOf[r] = s /\ r \notin isolated}

(* At most one of them belongs to a handler that still waits for it: a     *)
(* session's conversation is never interleaved with itself.                *)
SessionSerialised ==
  \A s \in Session : Cardinality({r \in CachedJobs(s) : pc[r] = "awaiting"}) <= 1

(* No request sleeps through the release of the lease it waits for: when   *)
(* the lease is free the sleeper has been notified or is about to be.      *)
NoLostWakeup ==
  \A r \in Request :
    pc[r] = "waiting" /\ SessionOf[r] \notin leased =>
      \/ r \in woken
      \/ r \in listening /\ \E q \in Request : pc[q] = "notifying"

(* Every request is served or dropped and gives its lease back, so every   *)
(* wait for a lease ends, without the help of the deadline, as long as no  *)
(* stream has a client that neither reads nor leaves: the thread may wait  *)
(* for that one, and every other job for the thread.                       *)
RequestEnds ==
  \A r \in Request : pc[r] # "idle" ~> (pc[r] = "done" /\ r \notin holds) \/ unread # {}

=============================================================================
