---------------------------- MODULE SessionCache ----------------------------
(***************************************************************************)
(* The model thread of a worker and its session cache                      *)
(* (decompute-llama/src/runtime.rs, GgufModel): one generation at a time,  *)
(* which may start from the context a session left behind.                 *)
(*                                                                         *)
(* A llama.cpp context is external.  Of it the model keeps what the code   *)
(* relies on: three sequences of tokens in the KV cache, and operations to *)
(* clear, cut, copy and extend one of them.  Sequence 0 is the committed   *)
(* prompt checkpoint, 1 the generation, 2 the candidate checkpoint.  Every *)
(* call into llama.cpp may fail.                                           *)
(***************************************************************************)
EXTENDS Integers, Sequences, FiniteSets, SequencesExt

CONSTANTS Session, NoSession, Token,
          Prompt,         \* the tokenized prompts: nonempty sequences of tokens
          ContextTokens,  \* context_tokens
          MaxTokens,      \* max_tokens of every request
          EntryBytes,     \* estimated_cache_bytes()
          Config,         \* the SessionCacheConfigs a worker may be started with
          MaxClock,       \* bound: instants
          MaxJobs         \* bound: jobs taken by the thread

SessionCacheConfig ==
  [min_tokens : Nat, max_entries : Nat, max_bytes : Nat, idle_ttl : Nat]

ASSUME CacheAssumption ==
  /\ NoSession \notin Session
  /\ IsFiniteSet(Session)
  /\ Prompt \subseteq Seq(Token) \ {<<>>}
  /\ {ContextTokens, MaxTokens, EntryBytes, MaxClock, MaxJobs} \subseteq Nat
  /\ Config \subseteq SessionCacheConfig

VARIABLES config,     \* the configuration of this worker
          cache,      \* session -> its entry; a partial function
          pc,         \* where the thread is
          job,        \* the request it works on
          cancelled,  \* is that request's token cancelled?
          kv,         \* the three sequences of the context in use
          prefix,     \* tokens reused from a cached context
          started,    \* the Instant read at the start of the generation
          emitted,    \* tokens handed to the callback
          result,     \* what generate_chat returned last
          stats,      \* SessionCacheStats
          clock, served

jobVars == <<job, prefix, started, emitted>>
boundVars == <<config, clock, served>>
vars == <<cache, pc, cancelled, kv, stats, result, jobVars, boundVars>>

-----------------------------------------------------------------------------

SessionCacheEntry ==
  [kv : [0..2 -> Seq(Token)], tokens : Seq(Token), last_used : 0..MaxClock]

ChatRequest == [session : Session \cup {NoSession}, prompt : Prompt, tools : BOOLEAN]

NoJob == [session |-> NoSession, prompt |-> <<>>, tools |-> FALSE]
EmptyKv == [s \in 0..2 |-> <<>>]

Counter == {"hits", "misses", "evictions", "expirations", "invalidations"}

TypeOK ==
  /\ config \in Config
  /\ DOMAIN cache \subseteq Session
  /\ \A s \in DOMAIN cache : cache[s] \in SessionCacheEntry
  /\ pc \in {"idle", "starting", "prefill", "generating", "publishing", "parsing", "delivering"}
  /\ job \in ChatRequest \cup {NoJob}
  /\ cancelled \in BOOLEAN
  /\ kv \in [0..2 -> Seq(Token)] /\ \A s \in 0..2 : Len(kv[s]) <= ContextTokens
  /\ prefix \in 0..ContextTokens
  /\ started \in 0..MaxClock
  /\ emitted \in 0..MaxTokens
  /\ stats \in [Counter -> Nat]
  /\ result \in {"none", "ok", "error"}
  /\ clock \in 0..MaxClock /\ served \in 0..MaxJobs

Init ==
  /\ config \in Config
  /\ cache = [s \in {} |-> EmptyKv]
  /\ pc = "idle" /\ job = NoJob /\ cancelled = FALSE
  /\ kv = EmptyKv /\ prefix = 0 /\ started = 0 /\ emitted = 0
  /\ stats = [c \in Counter |-> 0]
  /\ clock = 0 /\ served = 0 /\ result = "none"

-----------------------------------------------------------------------------
(* The environment: jobs, cancellations, time.                             *)

TakeJob ==
  /\ pc = "idle" /\ served < MaxJobs
  /\ pc' = "starting"
  /\ job' \in ChatRequest
  /\ served' = served + 1
  /\ UNCHANGED <<cache, cancelled, kv, stats, result, prefix, started, emitted, config, clock>>

Cancel ==
  /\ pc # "idle" /\ ~cancelled
  /\ cancelled' = TRUE
  /\ UNCHANGED <<cache, pc, kv, stats, result, jobVars, boundVars>>

Tick ==
  /\ clock < MaxClock
  /\ clock' = clock + 1
  /\ UNCHANGED <<cache, pc, cancelled, kv, stats, result, jobVars, config, served>>

-----------------------------------------------------------------------------

Count(st, c) == [st EXCEPT ![c] = @ + 1]

(* The job is over: its context is dropped unless it went into the cache,  *)
(* and a reuse that was not committed counts as an invalidation.           *)
EndJob(entries, st, committed, outcome) ==
  /\ pc' = "idle" /\ job' = NoJob /\ cancelled' = FALSE
  /\ kv' = EmptyKv /\ prefix' = 0 /\ started' = 0 /\ emitted' = 0
  /\ cache' = entries /\ result' = outcome
  /\ stats' = IF prefix > 0 /\ ~committed THEN Count(st, "invalidations") ELSE st
  /\ UNCHANGED boundVars

Without(s) == Restrict(cache, DOMAIN cache \ {s})

CacheEnabled == job.session # NoSession /\ config.max_entries > 0
Cacheable == CacheEnabled /\ Len(job.prompt) >= config.min_tokens
Overflow == Len(job.prompt) >= ContextTokens

(* Cancelled before it started, a prompt that cannot be rendered or         *)
(* tokenized, or one that does not fit.                                    *)
RefuseJob ==
  /\ pc = "starting"
  /\ \/ EndJob(cache, stats, FALSE, "error")
     \/ /\ ~cancelled /\ Overflow
        /\ EndJob(cache, IF Cacheable THEN stats ELSE Count(stats, "misses"), FALSE, "error")

Idle(s) == config.idle_ttl > 0 /\ clock - cache[s].last_used > config.idle_ttl
Expired == {s \in DOMAIN cache : Idle(s)}
Fresh == DOMAIN cache \ Expired
AfterExpiry == [stats EXCEPT !["expirations"] = @ + Cardinality(Expired)]

\* Defect: the cached tokens are compared by their number only.
HitByLength ==
  /\ Cacheable /\ job.session \in Fresh
  /\ Len(cache[job.session].tokens) <= Len(job.prompt)

Hit == Cacheable /\ job.session \in Fresh /\ IsPrefix(cache[job.session].tokens, job.prompt)

(* The entries that stay when the session's own is taken out.               *)
Left == IF Cacheable THEN Fresh \ {job.session} ELSE Fresh

(* Idle entries go, the session's entry is taken out, and its context is   *)
(* reused when its tokens begin the prompt; else a new one is created,     *)
(* which may fail.                                                         *)
TakeContext ==
  /\ pc = "starting" /\ ~cancelled /\ ~Overflow
  /\ pc' = "prefill" /\ started' = clock
  /\ cache' = Restrict(cache, Left)
  /\ IF Hit
     THEN /\ kv' = cache[job.session].kv
          /\ prefix' = Len(cache[job.session].tokens)
          /\ stats' = Count(AfterExpiry, "hits")
     ELSE /\ kv' = EmptyKv /\ prefix' = 0
          /\ stats' = Count(AfterExpiry, "misses")
  /\ UNCHANGED <<cancelled, result, job, emitted, boundVars>>

NoContext ==
  /\ pc = "starting" /\ ~cancelled /\ ~Overflow /\ ~Hit
  /\ EndJob(Restrict(cache, Left), Count(AfterExpiry, "misses"), FALSE, "error")

-----------------------------------------------------------------------------
(* Prefill: the checkpoint is copied to the generation sequence and its    *)
(* last token decoded again, at its own position, with the rest.           *)

ReplayStart(n) == IF n = 0 THEN 0 ELSE n - 1

(* Tokens decoded from a position on, into a sequence cut there.           *)
Decoded(seq, position, tokens) == SubSeq(seq, 1, position) \o tokens

Prefill ==
  /\ pc = "prefill" /\ ~cancelled
  /\ LET start == ReplayStart(prefix)
         copied == IF prefix > 0 THEN kv[0] ELSE <<>>
         prompt == Decoded(copied, start, SubSeq(job.prompt, start + 1, Len(job.prompt)))
     IN kv' = [kv EXCEPT ![1] = prompt, ![2] = prompt]
  /\ pc' = "generating"
  /\ UNCHANGED <<cache, cancelled, stats, result, jobVars, boundVars>>

(* A call into llama.cpp or the callback fails, or the cancellation is     *)
(* noticed: between prefill and the first token, or around a token.        *)
FailJob ==
  /\ pc \in {"prefill", "generating"}
  /\ EndJob(cache, stats, FALSE, "error")

\* Defects: the context counts as full one position late, or one early.
FullTooLate == Len(kv[1]) > ContextTokens
FullTooEarly == Len(kv[1]) >= ContextTokens - 1

ContextFull == Len(kv[1]) >= ContextTokens

(* A token is sampled and handed to the callback; it is decoded unless the *)
(* context is full.                                                        *)
EmitToken ==
  /\ pc = "generating" /\ ~cancelled
  /\ emitted < MaxTokens
  /\ emitted' = emitted + 1
  /\ \/ ContextFull /\ pc' = "publishing" /\ UNCHANGED kv
     \/ /\ ~ContextFull /\ UNCHANGED pc
        /\ \E t \in Token : kv' = [kv EXCEPT ![1] = Append(@, t)]
  /\ UNCHANGED <<cache, cancelled, stats, result, job, prefix, started, boundVars>>

(* An end-of-generation token (not after a cancellation was noticed), or   *)
(* max_tokens is reached.                                                  *)
StopGenerating ==
  /\ pc = "generating"
  /\ emitted = MaxTokens \/ ~cancelled
  /\ pc' = "publishing"
  /\ UNCHANGED <<cache, cancelled, kv, stats, result, jobVars, boundVars>>

-----------------------------------------------------------------------------
(* Publication.                                                            *)

Bytes(n) == n * EntryBytes

TooLarge == config.max_bytes > 0 /\ EntryBytes > config.max_bytes

\* Defect: the entry that is about to be inserted is not counted.
RoomForOthers(n) ==
  /\ n <= config.max_entries
  /\ config.max_bytes > 0 => Bytes(n) <= config.max_bytes

(* The loop's condition, negated, with n entries in the cache.             *)
RoomBeside(n) ==
  /\ n < config.max_entries
  /\ config.max_bytes > 0 => Bytes(n) + EntryBytes <= config.max_bytes

Publishes == pc = "publishing" /\ Cacheable /\ ~TooLarge

(* Nothing to publish: no session, a short prompt, or an entry that could  *)
(* never fit.                                                              *)
SkipPublication ==
  /\ pc = "publishing" /\ ~(Cacheable /\ ~TooLarge)
  /\ pc' = "parsing"
  /\ UNCHANGED <<cache, cancelled, kv, stats, result, jobVars, boundVars>>

EvictLeastRecent ==
  /\ Publishes
  /\ ~RoomBeside(Cardinality(DOMAIN cache))
  /\ \E s \in DOMAIN cache :
       /\ \A r \in DOMAIN cache : cache[s].last_used <= cache[r].last_used
       /\ cache' = Without(s)
  /\ stats' = Count(stats, "evictions")
  /\ UNCHANGED <<pc, cancelled, kv, result, jobVars, boundVars>>

Entry(context) ==
  [kv |-> context, tokens |-> job.prompt, last_used |-> started]

Put(s, e) == [r \in DOMAIN cache \cup {s} |-> IF r = s THEN e ELSE cache[r]]

\* Defect: the generation is committed instead of the candidate checkpoint.
CommitGeneration ==
  /\ Publishes
  /\ RoomBeside(Cardinality(DOMAIN cache))
  /\ cache' = Put(job.session, Entry([kv EXCEPT ![0] = kv[1]]))
  /\ pc' = "parsing"
  /\ UNCHANGED <<cancelled, kv, stats, result, jobVars, boundVars>>

Commit ==
  /\ Publishes
  /\ RoomBeside(Cardinality(DOMAIN cache))
  /\ cache' = Put(job.session, Entry([kv EXCEPT ![0] = kv[2]]))
  /\ pc' = "parsing"
  /\ UNCHANGED <<cancelled, kv, stats, result, jobVars, boundVars>>

CommitFails ==
  /\ Publishes
  /\ RoomBeside(Cardinality(DOMAIN cache))
  /\ EndJob(cache, stats, FALSE, "error")

-----------------------------------------------------------------------------
(* generate_chat, after the generation.                                    *)

Committed == Cacheable /\ ~TooLarge

(* Without tools the text was delivered as it was generated.               *)
ReturnResult ==
  /\ pc = "parsing" /\ ~job.tools
  /\ EndJob(cache, stats, Committed, "ok")

\* Defect: a malformed tool call leaves the session's entry in place.
KeepUnparsed ==
  /\ pc = "parsing" /\ job.tools
  /\ EndJob(cache, stats, Committed, "error")

(* The tool calls do not parse: the session's entry is dropped.            *)
DiscardUnparsed ==
  /\ pc = "parsing" /\ job.tools
  /\ IF job.session \in DOMAIN cache
     THEN EndJob(Without(job.session), Count(stats, "invalidations"), Committed, "error")
     ELSE EndJob(cache, stats, Committed, "error")

ParseCalls ==
  /\ pc = "parsing" /\ job.tools
  /\ pc' = "delivering"
  /\ UNCHANGED <<cache, cancelled, kv, stats, result, jobVars, boundVars>>

(* The text beside the tool calls is handed over, which may fail.          *)
DeliverText ==
  /\ pc = "delivering"
  /\ \E outcome \in {"ok", "error"} : EndJob(cache, stats, Committed, outcome)

-----------------------------------------------------------------------------

Next ==
  \/ TakeJob \/ Cancel \/ Tick
  \/ RefuseJob \/ TakeContext \/ NoContext \/ Prefill \/ FailJob \/ EmitToken \/ StopGenerating
  \/ SkipPublication \/ EvictLeastRecent \/ Commit \/ CommitFails
  \/ ReturnResult \/ DiscardUnparsed \/ ParseCalls \/ DeliverText

Spec == Init /\ [][Next]_vars

-----------------------------------------------------------------------------
(* Properties.                                                             *)

(* The context of a cached session holds, at sequence 0, exactly the       *)
(* tokens the entry claims: the whole prompt, nothing of what was          *)
(* generated after it, whatever reuses and failures came before            *)
(* ("generated output is never added to the reusable prompt prefix",       *)
(* README.md:144).                                                         *)
CheckpointsFaithful ==
  \A s \in DOMAIN cache : cache[s].kv[0] = cache[s].tokens

(* A generation that starts from a cached context continues the same       *)
(* tokens as one that decodes its whole prompt in a fresh context: the     *)
(* cache changes what is computed again, never what is computed            *)
(* (runtime.rs:365-398).                                                   *)
Filled == pc \in {"generating", "publishing", "parsing", "delivering"}
Uncached == INSTANCE UncachedInference WITH
  prompt <- job.prompt, context <- IF Filled THEN kv[1] ELSE <<>>
ImplementsUncached == Uncached!Spec

(* The cache respects both of its limits whenever it can be looked at, the *)
(* moment an entry goes in included (runtime.rs:470-480).                  *)
WithinBudget ==
  /\ Cardinality(DOMAIN cache) <= config.max_entries
  /\ config.max_bytes > 0 => Bytes(Cardinality(DOMAIN cache)) <= config.max_bytes

(* A generation that reuses its session's context finds the room it left   *)
(* when it publishes: a conversation that goes on pushes no other one out  *)
(* of the cache (the removal at runtime.rs:322-324 comes before the        *)
(* eviction loop).                                                         *)
ReuseNeedsNoEviction ==
  pc = "publishing" /\ prefix > 0 => RoomBeside(Cardinality(DOMAIN cache))

JobEnds == pc # "idle" /\ pc' = "idle"
(* A job that fails after it looked for its session's context leaves no    *)
(* entry behind: cancelled, broken off by llama.cpp, by the receiver or by *)
(* tool calls that do not parse ("Cancellation, errors, template/tool      *)
(* changes ... discard the affected entry", README.md:144).  Only the      *)
(* delivery of the text beside parsed tool calls comes later.              *)
FailureDiscards ==
  [][(JobEnds /\ pc \notin {"starting", "delivering"} /\ result' = "error" /\ Cacheable)
       => job.session \notin DOMAIN cache']_vars

(* output_tokens is computed from the position reached, not from the       *)
(* tokens handed out: it is one short when the context filled up, and      *)
(* right otherwise (runtime.rs:439-441, 465, 525).                         *)
OutputTokens == Len(kv[1]) - Len(job.prompt)
OutputCountedOrFull ==
  Filled => \/ emitted = OutputTokens
            \/ emitted = OutputTokens + 1 /\ Len(kv[1]) = ContextTokens

=============================================================================
