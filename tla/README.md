# A verification of decompute in TLA+

decompute runs chat completions on a small fleet of machines: a *coordinator*
with an OpenAI-compatible API routes each request to a *worker* that has the
model loaded, and the worker runs it on one llama.cpp model thread, reusing the
context a conversation left behind. This directory models that system in TLA+,
checks it with TLC on small instances and proves its main safety properties
with TLAPS for every value of the constants. Paths below are relative to
`src/crates/` unless they name `README.md`.

Contents: [the system](#the-system), [the modules](#the-modules),
[the runs](#the-runs), [disagreements](#disagreements-found),
[fairness](#fairness), [proofs](#what-is-proved),
[not modelled](#what-is-not-modelled), [plan](#plan),
[how to run](#how-to-run).

## The system

| Component | State | Operations | Interacts with |
| --- | --- | --- | --- |
| Coordinator registry (`coordinator/src/registry.rs`, `scheduler.rs`) | `workers`: records with address, models, load, state, last heartbeat; `affinity`: (session, model) to worker | register, heartbeat, select_and_reserve, release, mark_offline, expire_at, list | called by every HTTP handler and by a timer; two locks, taken one after the other |
| Coordinator requests (`coordinator/src/api.rs`) | one task per unary request, one handler and one spawned task per stream | route, forward, cancel, release, forward_worker_stream | HTTP to the worker; dropped by hyper when the client leaves |
| Worker runtime (`worker/src/state.rs`, `api.rs`) | `active` (atomic), `draining`, table of request controls | try_reserve, begin, finish, cancel, drain, generate, stream | axum handlers, the model thread |
| Session leases (`worker/src/state.rs`) | the set of leased sessions and a `Notify` | acquire with a deadline, drop | the two generation routes |
| SDK model thread (`decompute-sdk/src/gguf.rs`) | a channel of one job, the job at work, an event channel of 32 | generate, stream | blocking sends into the async side |
| Inference and session cache (`decompute-llama/src/runtime.rs`, `decompute-core/src/cache.rs`) | `session_cache`: session to (llama.cpp context, tokens, last use); counters | generate_chat, generate, invalidate_session | runs on the model thread only |
| Worker heartbeat (`worker/src/heartbeat.rs`) | none of its own | register once, heartbeat every interval, register again after 404 | the coordinator |
| Templates and tool calls (`decompute-llama/src/templates.rs`, `tool_calls.rs`) | none after start | render, parse `<tool_call>` blocks | inference |
| Tool-history validation (`decompute-core/src/chat.rs`), OpenAI mapping (`coordinator/src/openai.rs`) | none | validate and convert one body | coordinator API |
| Model catalog and resolver (`decompute-models/src/lib.rs`) | a Hugging Face cache shared by processes | inspect, download, verify, cancel | worker start-up, other programs |
| Worker start-up (`worker/src/main.rs`) | local to `main` | resolve, read metadata, load and probe on a device, fall back, register, listen | resolver, SDK, coordinator |
| Harness (`harness/src/main.rs`) | conversations, one active stream, an event queue | send, cancel, delete, clear, events | coordinator over HTTP |
| Observability, CLI client, example | none of interest | export, print | |

What is hard here, and what must hold:

* **Coordinator registry.** Its counts are guesses that heartbeats overwrite
  with older or newer ones, while reservations and releases move them; a worker
  can be marked offline, expire or register anew under a running request.
  State and counters must agree, releases must not underflow nor bring back a
  worker, routing must be deterministic, and a session must stay with its
  worker unless there is a reason.
* **Coordinator requests.** A reservation must be given back exactly once on
  every path, the worker must have stopped by then, and a client that leaves
  must set the cancellation in motion.
* **Worker runtime.** Handlers race for slots through a compare-and-swap loop;
  a cancellation waits for a request that may finish, or be dropped, at any
  await. The counter must be the number of slot holders, never above the limit.
* **Leases.** A wakeup must not be lost between the look at the set and the
  wait, and a session's requests must take turns on the model thread.
* **Streams.** Text crosses four bounded queues, two blocking; it must arrive
  in order and never look complete when it is not.
* **Session cache.** A reused context must be indistinguishable from a fresh
  one; failure at any call must leave no half-written entry; limits must hold.
* **Start-up.** A worker must not advertise a file it has not verified nor a
  device it has not proved, while other processes replace the file in the cache
  it shares with them; a cancelled resolution must end.
* **Tools.** The coordinator and the worker must accept exactly the histories
  the protocol allows, and the calls a worker takes out of the model's text
  must be acceptable when the client sends them back.
* **Harness.** Events of a stream are queued while the user deletes, clears or
  sends; text must not reach another message, and the one active stream must
  end on every path or the chat is stuck.
* **Heartbeats.** Lost reports, crashes and restarts must be repaired without
  any state on disk.

`PROJECT.json` lists, under `hazards`, each of these at its line with the
properties aimed at it.

## The modules

```
UncachedInference <=refines= SessionCache        WorkerSlots <=refines= WorkerRuntime
Delivery <=refines= StreamRelay                  Registry <=refines, is extended by= Fleet
SessionLeases       WorkerStartup       ToolLoop       HarnessApp
```

`MC*` modules only give constants their values. `*Proofs` modules hold the
theorems. Operators under a comment that begins with "Defect" are not part of a
specification: they are wrong versions of the definition after them, kept to
see that the properties notice.

**Registry** is `registry.rs` with `scheduler.rs`. A method that takes the
workers lock alone, or both locks together, is one action (`Register`,
`Heartbeat`, `Release`, `ExpireAt`). `mark_offline` drops the workers lock
before it takes the affinity lock, so it is two actions of the calling task,
`MarkOffline` and `DropBindings`. `select_and_reserve` keeps the workers lock
but takes the affinity lock twice, to look the session's binding up and to write
it: for a session it is `ReadBinding` and `SelectAndReserve`, between which
`selecting` is the task that has the workers lock (nobody else is `Unlocked`)
and what it has read. In between comes only what needs no workers lock:
`DropBindings`, tasks that are dropped (`Abandon`, `AbandonMark`,
`LeaveSelection`), the clock, and `Restart`. `Before` is the key of `min_by_key`;
ids are naturals because only their order matters. Instants are ages that
`Tick` advances and that stop one past the limit they are compared with.
What the callers may do is left open: reports with any counts a worker can
have, `Abandon` (a task dropped with its reservation) and `AbandonMark` (dropped
between the halves of `mark_offline`) by any task. So Registry is at the same
time the promise the registry makes to whatever uses it. A worker's slots and
hardware rank are fixed for its id; its address is not.

**Fleet** extends Registry with what happens around it: each `Caller` is one
client request whose coordinator task is at `step[c]` and whose progress at the
worker is `at[c]`. Unary requests, streams, with and without a session;
calls that cannot reach the worker (`CallLost`, `CallFails`, `CancelFails`) and
calls that break although it lives and may have admitted the request, before the
response, in the middle of a stream, or while a cancellation waits for its
answer (`CallBreaks`, `CancelBreaks`: the code treats any error of reqwest
alike, marks the worker offline and releases); client disconnects at every
await, cancellations that overtake the call they cancel, heartbeats and
registrations in flight, worker crashes, coordinator restarts. A client may stop
reading (`ClientStalls`), and a response that nobody reads any more may fill up
(`Stall`): its task at the worker then waits in a send without a deadline until
the connection closes, and the model thread may wait with it (`HeldUp`).
`WorkerEnds` is the end of a generation, `WorkerFinishes` the `finish_request`
that the task of a stream runs after its last event. A worker that starts again may have another address (`addr[w]`), and a call is
made to the address that was read with the reservation (`selected[c]`). A
worker is reduced to the slots it has given out. Draining is left to
WorkerRuntime. Every step of the fleet is a step of Registry or leaves it alone
(`ImplementsRegistry`), so what holds of Registry holds inside the fleet.

**WorkerRuntime** is the worker's admission and request table, one action per
step between two awaits or two atomic operations: `CheckDraining`,
`LoadActive`, `Reserve`/`RetryReserve` (compare_exchange_weak may fail
spuriously), `Begin`, `RefuseDuplicate`, `ReleaseUnstarted`, the job on the
model thread, `Unlist` and `ReleaseSlot`, and the canceller's `FindControl`,
`SignalCancel`, `AcknowledgeCancel`. hyper and axum are external: a handler's
future is dropped at its await when its connection closes (`DropHandler`); the
spawned task of a stream is not. The peer of a stream may also stop reading and
stay (`PeerStalls`): events back up through the bounded channels into
the model thread's callback, and while such a stream's generation runs no job
ends (`Blocked`). **WorkerSlots** is its abstract
specification: an atomic counter of slots, each given and taken back once.

**SessionLeases** is `SessionLeases::acquire` step by step (create the
`Notified`, try to insert, wait, time out), `SessionLease::drop` in its two
steps, and the jobs channel and model thread behind it, which a stream that its
client neither reads nor leaves (`unread`) holds up as in WorkerRuntime. tokio's `Notify` is
external: a `Notified` receives every `notify_waiters` issued after it was
created.

**StreamRelay** is a streamed response from the model thread to the client:
`sdk` (the channel of 32), `events` (the worker's channel), `wire` (the HTTP
response with its buffers) and `public` (the coordinator's channel of 32), each
with a task that blocks when the next one is full, and
`forward_worker_stream` with all of its exits, the one between the chunk of the
tool calls and the chunk of the finish included (`"finishing"`). `outcome`
records what the thread has handed on as its end. Frames that do not parse are
left out, since a worker does not produce them. Both processes may crash; the
connection between them may break with both alive (`ConnectionBreaks`), and so
may the call that cancels (`CancelBreaks`), after which the task releases the
worker without having heard of its end (`"givingUp"`, `"gaveUp"`).
**Delivery** is what a client is promised of all this: the role, the text in
order and without gaps as far as it was generated, then the closing chunks and
`[DONE]`; or an error at most in place of the rest. One step of it,
`CloseAfterError`, is what the code does and one would not expect: when a
worker is lost between its completion and the end of its response, the client
sees the error and then `[DONE]`, behind a finish it has been shown.

**SessionCache** is `GgufModel::generate_chat` and `generate`: refusal,
expiry, lookup, reuse, prefill, the token loop, eviction, publication, and the
parse of tool calls after it, with a failure possible at every call into
llama.cpp or the callback. A llama.cpp context is external; the model keeps the
tokens of its three sequences (0 the committed checkpoint, 1 the generation, 2
the candidate checkpoint) and the operations to cut, copy and extend them.
Sampled tokens are arbitrary. `EndJob` is the end of a job whatever the cause:
the context is dropped unless it was published, and the `CacheReuseGuard` counts
a reuse that was not committed. `result` records what the call returned, for
the properties. **UncachedInference** is what it promises: a context filled
with the prompt and extended token by token, with no cache at all.

**WorkerStartup** is `resolve_with_progress` on a cache that several processes
share, and a worker's `main` after it. A file is a digest that matches or not
and the write that put it there; hf_hub is external (it finds a file, or puts a
new one in place as a whole), so a file can change between the moment it is
verified and the moment its path is opened again to load it. The token of
`verify_file_async` and the token of its own that `inspect_cache` uses differ:
`HashCached` does not see a cancellation, `VerifyFile` does. A worker's own
token is never cancelled; a `Library` process is any other caller of the
resolver. `listed` is the acceleration the worker registers with.

**ToolLoop** is the life of a conversation with tools: `tools` and `history` of
the client, `Accepted` (`validate_tools`, the conversion from the wire format,
`validate_tool_history`), the model's `output` and the `reply` the worker makes
of it. Text is a sequence of pieces: words, the two markers, or one JSON value.
The validator and the parser are folds, one step per message, call or piece.
The worker renders the history with the template that the request names
(`template`), or the one that fits its model (`qwen`): `Select` is the choice of
the registry, `RenderedBy` the same behind the check that no tools go to a model
of another family. What the built-in template renders is read off its text; a
file of the model's directory may render calls (`ToolAware`) or leave them out,
as the one in the tests of `templates.rs` does. `GenerateFails` is an error of either, or of a bad block.
A careful client (`Ask`, `AnswerCalls`, `Echo`) does what `README.md:245` asks;
another one writes anything (`Write`).

**HarnessApp** is the desktop client: conversations, the active stream (the set
of it, or the empty set), one thread per stream with the messages its request
quoted, and the event queue. One action is one message of the user interface,
one event taken from the queue, or one step of a thread up to what it sends.
`Reopen` closes the program, which saves the conversations, and opens it again
with them. Uuids are numbers given out in order.

`PROJECT.json` maps every definition to its lines.

## The runs

| Run | Bounds | What it shows |
| --- | --- | --- |
| `registry` | 2 workers (1 and 2 slots, same hardware), 1 session, 2 tasks, ages up to 2 | `StateMatchesLoad`, `NoResurrection`, `AffinityKept` under any interleaving of reservations (in two steps for a session), releases, offline marks, late heartbeats, expiry and restarts; `SilentGoesOffline`: the expiry timer alone repairs what silent workers and dropped tasks left |
| `worker` | 3 handlers, two with one request id, 1 canceller, 2 slots | `SlotAccounting` (the counter is the number of slot holders), `AckMeansFinished`, that WorkerRuntime implements WorkerSlots, and `CancelAnswered`: every cancellation is answered, unless the handler was dropped or as long as a stream is not read |
| `fleet` | 1 worker of 1 slot, 2 addresses, 1 session, a unary and a streamed request; a crash or a restart and a lost report, or a broken call | `ReservationMatchesStep`; `NoEarlyRelease`: only a task whose call or cancellation failed, or overtook its request, gives a slot back under a running request; that Fleet implements Registry; `WorkersBecomeKnown` (at the address they listen on), `CountsConverge`; `ReservationsEnd`, unless the slot was leaked or a client that stopped reading keeps it |
| `stream` | 9 deltas, queues of 2, 2, 2, 2 | `TextInOrder`; `ReleasedAfterEnd`, but for the task whose cancellation failed; that StreamRelay implements Delivery, `DisconnectReleasesOrClogs`, and `ReaderSeesEnd` for a client that keeps reading |
| `leases` | 3 requests of one session, one of them streamed, channel of 1 job | `LeasesMatchOwners`, `SessionSerialised`, `NoLostWakeup`; `RequestEnds`: every request is served or dropped and every wait ends, without the help of the deadline, unless a stream is left unread |
| `cache` | 2 sessions, 4 prompts over 2 tokens, context of 3, 3 jobs, 5 configurations, 3 instants | `CheckpointsFaithful`, `WithinBudget`, `OutputCountedOrFull`, `FailureDiscards`, and that SessionCache implements UncachedInference |
| `startup` | 3 processes (2 workers, one with `--model-path` and one with Metal; 1 other caller), 3 lives | `ListedIsVerified`, `ListedIsProbed`, `CancelEnds` |
| `tools` | 2 tool names, 5 tool lists, histories of 4 free messages, 3 requests, 2 blocks or other pieces per text, both model families, no template named, two that exist (one renders calls), one that does not | `ValidatorExact`: the one pass of the validator decides the rule `README.md` states, which `WellFormed` says with positions and counts; `RepliesAccepted`; `MarkupWithheld` (a closing marker that ends no block is text); `OnlyOverridesDropCalls`: the calls of a conversation are left out only by a file of the model's directory that leaves them out |
| `harness` | 2 conversations, 2 sends, 2 pieces of text, 1 reopening | `ActiveUntilTerminal`, `TextInItsMessage`, `QuotesStaySettled`, `StopEnds` |

Every run also checks its module's type invariant, as `TypeOK` or as a conjunct
of one of its properties. `ReservationKnown`, `CapacityRespected`,
`ServingOwnsControl` and `ReuseNeedsNoEviction` are proved and not run: they are
parts of the inductive invariants or follow from what is run. Three more runs end in a
counterexample on purpose; see [below](#disagreements-found).

Why the bounds are enough to mean something:

* `registry`: two workers are needed for a choice, two tasks for a release that
  meets another's reservation and for a mark between whose halves something
  happens; a one-slot and a two-slot worker have records with and without an
  intermediate load. Timeouts of one tick separate "within", "at" and "past".
* `worker`: two handlers of one id conflict while a third keeps the counter
  moving between a load and its exchange; two slots are the least for which
  "full" is not "in use".
* `fleet`: a crash or a restart, with a lost report before or after it, gives
  the combinations of a forgotten worker, a forgotten task and a stale report; a
  broken call needs no second fault to release a running request.
  `MCFleetSpec` bounds these by `MaxFaults`, and allows none in a behaviour in
  which a session's binding exists or is being read: with one worker it decides
  nothing, and what bindings meet is the subject of `registry`, where they meet
  everything. `HeartbeatTimeout = 0` lets expiry strike at any time. Two addresses are enough for "the old one"
  and "another one"; until a crash they are alike, so `MCFleetSpec` gives the
  first life of the worker the first of them.
* `stream`: nine deltas overflow all queues together (2+2+2+2), so that every
  queue is full at once while the thread still has text, and a queue of two has
  a first and a last event.
* `leases`: three requests are the least for which a waiter can lose its turn
  to a newcomer; those that gave up run isolated and fill the channel.
* `cache`: three jobs are the least for "publish, be reused or evicted, be
  looked up again"; prompts extend one another, differ in the first token, are
  too short or overflow, and a generation runs into the end of the context;
  the configurations cover no cache, one entry, two with expiry, a byte budget
  of one entry and one of none.
* `startup`: three lives are the least for "one verifies, another downloads
  again, the first loads", with a crash or a cancellation beside it; every
  device choice, a build with and one without Metal, and a corrupt or missing
  file at the start are initial states or choices of the run.
* `tools`: an override that renders calls and one that does not; two calls in one response, one id repeated across responses, a
  result of each kind of error, and three rounds of the loop fit into four free
  messages and three requests; texts of two parts nest, repeat and break off.
* `harness`: a second conversation to delete into and a second stream to be
  confused with the first; two pieces of text have an order; one reopening in the
  middle of a stream leaves a half-written answer behind that a later request
  quotes.

Deadlock is not checked: every model stops when its requests or jobs are
used up, or when a chain is clogged.

## Disagreements found

Each is a run of its own that TLC ends with a counterexample.

* `fleet_disconnect` (`DisconnectReleases`): when a unary client leaves, the
  coordinator's `select!` drops its call to the worker *before* it sends the
  cancellation. hyper then drops the worker's handler at its await; nothing
  releases its slot, and the cancellation waits for a completion that never
  comes (`README.md:298` promises the release).
* `stream_disconnect` (`DisconnectReleases`): the coordinator waits for the
  worker to finish while it no longer reads the response it holds open. When
  the text still to come exceeds what the channels and the socket buffers hold,
  the worker's task, the model thread and the cancellation wait for one
  another. `DisconnectReleasesOrClogs` in `stream` says that this is the only
  way.
* `worker_stopped` (`ReleasedAfterStop`): a stream whose events cannot be
  delivered gives its slot back while the model thread still generates.

`OutputCountedOrFull` states a smaller oddity that no document contradicts:
`output_tokens` is one short when a generation fills the context. Two more were
seen while modelling and have no run: a prompt that outgrows the context is
refused before the session's cache entry is looked at, so the entry stays,
where `README.md:144-146` says it is discarded (it is sound,
`CheckpointsFaithful`, and occupies memory until it expires); and a worker that
restarts at another address while the coordinator still knows its id stays
unreachable if its registration is lost, although
`worker/src/heartbeat.rs:16` says "heartbeats will retry": they carry no address
and are accepted, so it takes a restart of either to repair it
(`WorkersBecomeKnown` excepts it, by excepting known workers of a behaviour in
which some report was lost; a registration that arrives brings the new address).
And a call that breaks, or a cancellation that fails, releases the slot of a
worker that is alive and may be generating (`api.rs:391-408`, `:435-438`); the
worker is out of routing until its next heartbeat, which brings its true count.
`NoEarlyRelease` and `ReleasedAfterEnd` except these tasks by name.

## Fairness

Weak fairness is assumed of what a scheduler runs, never of what a peer decides.

* Tasks of tokio that can run are polled: the steps of handlers, request tasks,
  canceller tasks and lease holders.
* The model thread runs; a generation ends by itself, because `max_tokens`
  bounds it, and a cancelled one at its next check, unless the thread is blocked
  in `blocking_send` behind a stream that is not read (`Blocked` in `worker`,
  `unread` in `leases`, `HeldUp` in `fleet`, full queues in `stream`). Nothing is
  assumed to end such a block but the peer, which owes nothing, so
  `CancelAnswered`, `RequestEnds` and `ReservationsEnd` except it.
* In `fleet` each request has one condition for its task and its side of the
  worker together, which is enough since a request takes finitely many steps.
* In `registry` the expiry has strong fairness: tokio's lock serves its waiters
  in turn, so the timer's task gets it although selections follow one another.
* Timers fire: the expiry loop, the heartbeat loop. An attempt may be lost, a
  bounded number of times (`MaxLost`).
* In `startup`, the steps that need no network happen: hashing, checks of the
  token, the end of a cancelled download. A download itself may hang.
* In `harness`, frames are painted (the update loop asks for a repaint every
  50 ms) and a stream's thread sees its token. The server owes nothing:
  `StopEnds` excepts the body of a refusal that never ends, which the thread
  reads without looking at its token (`harness/src/main.rs:861`).
* Nothing is assumed of clients (except in `ReaderSeesEnd`, whose premise
  is a client that reads), of crashes, of the lease deadline, or of new requests.

## What is proved

Eight modules of theorems, for every value of the constants that satisfies the
named assumptions of the module proved about (`RegistryAssumption`,
`WorkerAssumption` and so on): finite sets of handlers and sessions, naturals
where the code has unsigned integers, worker ids in order.

**FleetProofs, the registry.** `TypeCorrect`, `StateAlwaysMatchesLoad`,
`ReservationsAlwaysKnown` and the action properties `OnlyReportsResurrect` and
`SessionsStay`, of Registry by itself. The invariants are proved together, since
each needs the others: that releases do not underflow needs the consistency of
states with counters, and the consistency after a release needs the record of
the holder to exist. That a session stays with its worker needs `BindingsKnown`
besides: a binding names a worker with a record.

**FleetProofs, the fleet.** `ReservationAlwaysMatchesStep`, `NeverReleasedEarly`,
the refinement `FleetRefinesRegistry` and, from it, `FleetStateMatchesLoad`: what
was proved of the registry alone holds inside the fleet. `TaskOf` ties a
task's step to its reservation and to the progress of the request: a task that
lets go of a worker whose answer it has not seen is a unary one with a closed
connection. `SlotsInv` and `ReportsInv` say that a worker keeps to its slots and
that a report in flight does; without them a heartbeat could carry counts that
Registry does not allow. `NeverReleasedEarly` speaks of every task that has an
answer, an end or an acknowledgement in hand; a task in `"failing"` or
`"gaveUp"` has none, because its call or its cancellation failed.

**WorkerRuntimeProofs.** `TypeCorrect`, `CounterCountsHolders`,
`CapacityAlwaysRespected`, `OneHandlerPerRequest`, `AcknowledgedAfterFinish`
and the refinement `RefinesSlots`. The inductive invariant adds `CancelInv` to
the properties: a canceller past its lookup has a handler, a completed handler
has left the table, and a unary handler that ends has ended its generation.
Counting is done once, in lemmas on how moving one handler changes the
cardinality of the set of holders.

**SessionCacheProofs.** `TypeCorrect`, `CheckpointsAlwaysFaithful`,
`CacheTransparent` (SessionCache implements UncachedInference),
`BudgetAlwaysKept`, `ReuseAlwaysFits`, `FailureAlwaysDiscards` and
`OutputAlwaysCountedOrFull`. The argument: an entry's sequence 0
holds the tokens it claims and those were some prompt (`EntriesInv`); so after
a hit sequence 0 is the beginning of the new prompt (`JobInv`), and cutting its
last token and decoding from there on makes the whole prompt again
(`ReplayedPrompt`); so the candidate checkpoint is the prompt when it is
committed. For the limits, a reused entry leaves room that nothing takes until
it is published (`RoomInv`). A session's entry is out of the cache while its
generation runs (`AwayInv`), so a failure has nothing to clean up before the
publication. `CountInv` compares the tokens handed over with the position
reached, step by step.

**SessionLeasesProofs.** `LeasesAlwaysMatchOwners`, `WakeupNeverLost`,
`SessionsTakeTurns`. `PlaceInv` ties a request's place to what it has: its
`Notified` exists while it looks at the set and waits, and whoever goes on to
the model thread with its session owns the lease until it leaves. Two awaited
jobs of a session would then be two owners.

**StreamRelayProofs.** `TypeCorrect`, `ReleasedAlwaysAfterEnd`,
`TextAlwaysInOrder` and the refinement `RelayRefinesDelivery`, for queues of any
capacity, with any crashes and broken connections. `EndInv`: an
event that ends the generation is in no queue before the model thread has
ended; so the task that acts on it may let go of the worker (one whose
cancellation request fails lets go without, and ends in `"gaveUp"`). For the
refinement, `DInv`: every event that the client has or can still get is
followed by its position, through all four queues. `FlightInv` says that a queue
continues where the one in front of it stops (`InPlace`), `PlaceInv` how far the
coordinator's task has come in the answer, `JustInv` that each chunk is the one
of its place in the answer, an error that cuts it, or `[DONE]` after a finish
and an error, and `DoneInv` that the worker's own `[DONE]` is the last of its
response.

**WorkerStartupProofs.** `ListedAlwaysVerified` and `ListedAlwaysProbed`.
`VerifiedInv`: what a process has verified is still at its path, or a later
write has replaced it in the cache, because every download has a number of its
own. `ProbedInv`: what is tried next was not refused before.

**HarnessAppProofs.** `StreamAlwaysEndsOnce`, `TextAlwaysInItsMessage` and
`QuotesAlwaysSettled`. While a stream is active, the queue holds only its
events: text as long as its thread runs, and after that one terminal event, the
last (`QueueOf`); with none active nothing is queued and no thread runs
(`Quiet`). The argument about the conversations is `XInv`: a stream's message
shows what its thread heard less what is still queued (`TextInv`), the queue
goes on from there in order (`WaitInv`), a message with one id shows one text
in whatever conversations it occurs (`SameText`), and what a request quotes has
the text that every message of that id shows (`QuoteInv`). A message changes
only while its own stream is active, and a request quotes only what came before
it.

**ToolLoopProofs.** `OnlyOverridesEverDropCalls`, `RepliesAlwaysAccepted`,
`MarkupAlwaysWithheld` and `ValidatorAlwaysExact`, for tool lists, texts and
histories of any length. The validator, the parser and the filters are folds
over sequences. Lemmas unroll each into the list of its intermediate values
(`CallsFold`, `PendingFold`, `TextFold`), which the proofs follow one element
at a time. `MarkupWithheld` counts: the piece shown at a rank is the one of
that rank among those outside the markup (`Shows`). For `RepliesAccepted`,
`ToolInv` says of a client that answers what it was asked: the ids it waits for
are the ones the validator would hold pending after its history (`Follows`), so
a reply appended to it is legal. `ValidatorExact` compares the one pass of the
code with the rule in `WellFormed`, which speaks of positions and counts. The
proof walks the history message by message: after each, either the validator
has refused, and the rule is broken by what was read (`Decided`), or what it
holds pending is exactly the calls read and not yet answered (`Matched`,
`WaitsIn`). The lists of places that the rule speaks of (`CallsIn`,
`ResultsIn`) grow by those of one message at each step (`CallsAt`, `ResultsAt`,
`HistoryPlaces`).

Beyond the prover, and therefore only model-checked, are the liveness
properties: `SilentGoesOffline`, `CancelAnswered`, `WorkersBecomeKnown`,
`CountsConverge`, `ReservationsEnd`, `DisconnectReleasesOrClogs`,
`ReaderSeesEnd`, `RequestEnds`, `CancelEnds` and `StopEnds`. They rest on
fairness, and the prover has neither ENABLED nor fairness. Every safety
invariant and every action property of the passing runs is stated by a theorem.
The library's induction theorems take an operator, which the provers cannot
instantiate; where a proof needs induction over the naturals it is stated for a
set (`NatInductionSet`, from the well-foundedness of `<`), once per fold and
per operator.

## What is not modelled

* The text a template renders, and the wording of the OpenAI mapping: layout.
  (Which template is chosen is modelled.) Usage numbers and sampling parameters
  are passed through.
* The harness's draft, settings, dialogs, theme and model discovery: what a
  message says, where it is sent and how it looks. (What it saves and reads back of the
  conversations is modelled, by `Reopen`.)
* The worker's command line beyond the choices that decide its start-up.
* What becomes of two jobs of one session when the handler of the first was
  dropped and its lease given back: `SessionSerialised` speaks of jobs that are
  still awaited. (They are queued and run one after the other in the model.)
* The content of a file that replaces a verified one: `ListedIsVerified` allows a
  later download to be the file that is loaded.
* Panics. A poisoned lock in the registry makes every later call fail; the
  code has no recovery to model.
* Observability, the CLI client and the example: pure input and output.
* Sampling, logits and text decoding inside llama.cpp.

## Plan

1. *(done)* Registry, WorkerRuntime over WorkerSlots, Fleet over Registry,
   StreamRelay over Delivery, SessionLeases, SessionCache over
   UncachedInference, WorkerStartup, ToolLoop, HarnessApp.
2. *(done)* A restart at another address in the fleet, the choice of a template
   in the tool loop, the saved conversations of the harness.
3. *(done)* Theorems for every component and every safety property of the
   runs, and all four refinements.
4. Left: a fleet run with two workers, which needs a smaller abstraction of
   reports to stay within minutes (two workers are in `registry`, and the
   theorems of FleetProofs hold for any number).

## How to run

```
tlc -workers 2 -config Registry.cfg MCRegistry
tlapm FleetProofs.tla
```

`PROJECT.json` names the module and configuration of each run, the property
each defect breaks, and the theorems.
