------------------------- MODULE SessionCacheProofs -------------------------
(* Theorems about SessionCache, for every set of sessions, tokens and      *)
(* prompts, every context size, every configuration and any bounds.        *)
EXTENDS SessionCache, SequenceTheorems, FiniteSetTheorems, TLAPS

KvType == {k \in [0..2 -> Seq(Token)] : \A s \in 0..2 : Len(k[s]) <= ContextTokens}

(* Every entry is one that some prompt's publication left.                 *)
EntriesInv ==
  \A s \in DOMAIN cache :
    cache[s].tokens \in Prompt /\ cache[s].kv \in KvType /\ cache[s].kv[0] = cache[s].tokens

(* The thread has a job unless it is idle, and a job past the overflow     *)
(* check fits; a reused context holds the beginning of its prompt; a       *)
(* filled one holds the prompt as candidate checkpoint.                    *)
JobInv ==
  /\ IF pc = "idle" THEN job = NoJob ELSE job \in ChatRequest
  /\ pc \notin {"idle", "starting"} => Len(job.prompt) < ContextTokens
  /\ pc = "prefill" => /\ prefix <= Len(job.prompt)
                       /\ prefix > 0 => kv[0] = SubSeq(job.prompt, 1, prefix)
  /\ Filled => kv[2] = job.prompt /\ kv[1] # <<>>

IndInv == TypeOK /\ EntriesInv /\ JobInv

-----------------------------------------------------------------------------
(* Sequences.                                                              *)

(* The rewound checkpoint and the replayed tokens make the prompt again.   *)
LEMMA ReplayedPrompt ==
  ASSUME NEW q \in Seq(Token), NEW n \in 0..Len(q)
  PROVE  Decoded(IF n > 0 THEN SubSeq(q, 1, n) ELSE <<>>, ReplayStart(n),
                 SubSeq(q, ReplayStart(n) + 1, Len(q))) = q
<1>0. Len(q) \in Nat /\ SubSeq(q, 1, Len(q)) = q
  BY LenProperties, SubSeqFull
<1>1. CASE n = 0
  <2>1. SubSeq(<<>>, 1, 0) = <<>> /\ <<>> \o q = q
    BY SubSeqEmpty, ConcatEmptySeq
  <2>2. QED
    BY <1>0, <1>1, <2>1 DEF Decoded, ReplayStart
<1>2. CASE n > 0
  <2>1. SubSeq(SubSeq(q, 1, n), 1, n - 1) = SubSeq(q, 1, n - 1)
    <3>1. SubSeq(q, 1, n) \in Seq(Token)
      BY <1>0, <1>2, SubSeqProperties, ElementOfSeq, 1 \in Int, n \in Int,
         \A i \in 1..n : q[i] \in Token
    <3>2. CASE n = 1
      BY <3>2, SubSeqEmpty, 1 \in Int, 0 \in Int
    <3>3. CASE n > 1
      BY <1>0, <3>3, SubSeqOfSubSeq, 1 \in 1..Len(q), n \in 1..Len(q),
         1 \in 1..(n - 1 + 1), n - 1 \in 1..(n - 1 + 1)
    <3>4. QED
      BY <1>2, <3>2, <3>3
  <2>2. SubSeq(q, 1, n - 1) \o SubSeq(q, n, Len(q)) = SubSeq(q, 1, Len(q))
    <3>1. /\ 1 \in 1..(Len(q) + 1)
          /\ n - 1 \in (1 - 1)..Len(q)
          /\ Len(q) \in (n - 1)..Len(q)
          /\ n - 1 + 1 = n
      BY <1>0, <1>2
    <3>2. QED
      BY <3>1, ConcatAdjacentSubSeq
  <2>3. (IF n > 0 THEN SubSeq(q, 1, n) ELSE <<>>) = SubSeq(q, 1, n)
    BY <1>2
  <2>4. ReplayStart(n) = n - 1 /\ (n - 1) + 1 = n
    BY <1>0, <1>2 DEF ReplayStart
  <2>5. QED
    BY <1>0, <2>1, <2>2, <2>3, <2>4, Zenon DEF Decoded
<1>3. QED
  BY <1>1, <1>2

LEMMA PromptType ==
  ASSUME NEW p \in Prompt
  PROVE  p \in Seq(Token) /\ p # <<>> /\ Len(p) \in Nat /\ Len(p) > 0
BY CacheAssumption, LenProperties, EmptySeq

LEMMA KvFilled ==
  ASSUME kv \in KvType, NEW q \in Seq(Token), Len(q) <= ContextTokens,
         NEW also \in SUBSET {2}, kv' = [j \in 0..2 |-> IF j \in {1} \cup also THEN q ELSE kv[j]]
  PROVE  kv' \in KvType /\ kv'[1] = q /\ kv'[2] = IF 2 \in also THEN q ELSE kv[2]
<1>1. kv \in [0..2 -> Seq(Token)] /\ \A j \in 0..2 : Len(kv[j]) <= ContextTokens
  BY DEF KvType
<1>2. \A j \in 0..2 : kv'[j] = IF j \in {1} \cup also THEN q ELSE kv[j]
  OBVIOUS
<1>3. kv' \in [0..2 -> Seq(Token)] /\ \A j \in 0..2 : Len(kv'[j]) <= ContextTokens
  BY <1>1, <1>2
<1>4. QED
  BY <1>2, <1>3, 1 \in 0..2, 2 \in 0..2 DEF KvType

LEMMA CommittedKv ==
  ASSUME kv \in KvType
  PROVE  [kv EXCEPT ![0] = kv[2]] \in KvType /\ [kv EXCEPT ![0] = kv[2]][0] = kv[2]
BY DEF KvType

-----------------------------------------------------------------------------
(* Only a publication puts anything into the cache.                        *)

LEMMA EntriesOnlyLeave ==
  ASSUME [Next]_vars, ~Commit
  PROVE  /\ DOMAIN cache' \subseteq DOMAIN cache
         /\ \A s \in DOMAIN cache' : cache'[s] = cache[s]
<1>1. CASE cache' = cache
  BY <1>1
<1>2. ASSUME NEW D \in SUBSET DOMAIN cache, cache' = Restrict(cache, D)
      PROVE  /\ DOMAIN cache' \subseteq DOMAIN cache
             /\ \A s \in DOMAIN cache' : cache'[s] = cache[s]
  BY <1>2 DEF Restrict
<1>3. CASE TakeContext \/ NoContext
  BY <1>2, <1>3 DEF TakeContext, NoContext, EndJob, Left, Fresh
<1>4. CASE EvictLeastRecent \/ DiscardUnparsed
  BY <1>1, <1>2, <1>4 DEF EvictLeastRecent, DiscardUnparsed, EndJob, Without
<1>5. CASE TakeJob \/ Cancel \/ Tick \/ Prefill \/ EmitToken \/ StopGenerating
           \/ SkipPublication \/ ParseCalls \/ UNCHANGED vars
  BY <1>1, <1>5 DEF TakeJob, Cancel, Tick, Prefill, EmitToken, StopGenerating,
                    SkipPublication, ParseCalls, vars
<1>6. CASE RefuseJob \/ FailJob \/ CommitFails \/ ReturnResult \/ DeliverText
  BY <1>1, <1>6 DEF RefuseJob, FailJob, CommitFails, ReturnResult, DeliverText, EndJob
<1>7. QED
  BY <1>3, <1>4, <1>5, <1>6 DEF Next

LEMMA EntriesStep == IndInv /\ [Next]_vars => EntriesInv'
<1> SUFFICES ASSUME IndInv, [Next]_vars PROVE EntriesInv'
  OBVIOUS
<1>1. CASE ~Commit
  BY <1>1, EntriesOnlyLeave DEF IndInv, EntriesInv
<1>2. CASE Commit
  <2>1. /\ cache' = Put(job.session, Entry([kv EXCEPT ![0] = kv[2]]))
        /\ pc = "publishing"
    BY <1>2 DEF Commit, Publishes
  <2>2. kv \in KvType /\ kv[2] = job.prompt /\ job.prompt \in Prompt
    BY <2>1 DEF IndInv, TypeOK, KvType, JobInv, Filled, ChatRequest
  <2>3. ASSUME NEW s \in DOMAIN cache'
        PROVE  /\ cache'[s].tokens \in Prompt /\ cache'[s].kv \in KvType
               /\ cache'[s].kv[0] = cache'[s].tokens
    <3>1. CASE s = job.session
      BY <2>1, <2>2, <3>1, CommittedKv DEF Put, Entry
    <3>2. CASE s # job.session
      BY <2>1, <2>3, <3>2 DEF Put, IndInv, EntriesInv
    <3>3. QED
      BY <3>1, <3>2
  <2>4. QED
    BY <2>3 DEF EntriesInv
<1>3. QED
  BY <1>1, <1>2

LEMMA EntryTypesStep ==
  IndInv /\ [Next]_vars =>
    DOMAIN cache' \subseteq Session /\ \A s \in DOMAIN cache' : cache'[s] \in SessionCacheEntry
<1> SUFFICES ASSUME IndInv, [Next]_vars
             PROVE  DOMAIN cache' \subseteq Session
                    /\ \A s \in DOMAIN cache' : cache'[s] \in SessionCacheEntry
  OBVIOUS
<1>1. CASE ~Commit
  BY <1>1, EntriesOnlyLeave DEF IndInv, TypeOK
<1>2. CASE Commit
  <2>1. /\ cache' = Put(job.session, Entry([kv EXCEPT ![0] = kv[2]]))
        /\ pc = "publishing" /\ job.session # NoSession
    BY <1>2 DEF Commit, Publishes, Cacheable, CacheEnabled
  <2>2. job.session \in Session /\ job.prompt \in Seq(Token)
    BY <2>1, PromptType DEF IndInv, JobInv, ChatRequest
  <2>3. Entry([kv EXCEPT ![0] = kv[2]]) \in SessionCacheEntry
    BY <2>2 DEF Entry, SessionCacheEntry, IndInv, TypeOK
  <2>4. QED
    BY <2>1, <2>2, <2>3 DEF Put, IndInv, TypeOK
<1>3. QED
  BY <1>1, <1>2

-----------------------------------------------------------------------------
(* The thread.                                                             *)

ThreadType ==
  /\ config \in Config
  /\ pc \in {"idle", "starting", "prefill", "generating", "publishing", "parsing", "delivering"}
  /\ job \in ChatRequest \cup {NoJob}
  /\ cancelled \in BOOLEAN
  /\ kv \in KvType
  /\ prefix \in 0..ContextTokens
  /\ started \in 0..MaxClock
  /\ emitted \in 0..MaxTokens
  /\ stats \in [Counter -> Nat]
  /\ result \in {"none", "ok", "error"}
  /\ clock \in 0..MaxClock /\ served \in 0..MaxJobs

LEMMA Counted ==
  ASSUME NEW st \in [Counter -> Nat], NEW c \in Counter
  PROVE  Count(st, c) \in [Counter -> Nat]
BY DEF Count

LEMMA ExpiryCounted == TypeOK => AfterExpiry \in [Counter -> Nat]
<1> SUFFICES ASSUME TypeOK PROVE AfterExpiry \in [Counter -> Nat]
  OBVIOUS
<1>1. IsFiniteSet(Expired)
  BY CacheAssumption, FS_Subset DEF TypeOK, Expired
<1>2. Cardinality(Expired) \in Nat
  BY <1>1, FS_CardinalityType
<1>3. stats \in [Counter -> Nat] /\ "expirations" \in Counter
  BY DEF TypeOK, Counter
<1>4. stats["expirations"] + Cardinality(Expired) \in Nat
  BY <1>2, <1>3
<1>5. QED
  BY <1>3, <1>4 DEF AfterExpiry

LEMMA EmptyKvType == EmptyKv \in KvType
BY CacheAssumption, EmptySeq DEF EmptyKv, KvType

LEMMA EndedJob ==
  ASSUME IndInv, NEW entries, NEW st \in [Counter -> Nat], NEW committed,
         NEW outcome \in {"ok", "error"}, EndJob(entries, st, committed, outcome)
  PROVE  ThreadType' /\ JobInv'
<1>1. stats' \in [Counter -> Nat]
  BY Counted DEF EndJob, Counter
<1>2. /\ 0 \in 0..ContextTokens /\ 0 \in 0..MaxClock /\ 0 \in 0..MaxTokens
  BY CacheAssumption
<1>3. QED
  BY <1>1, <1>2, EmptyKvType DEF EndJob, ThreadType, JobInv, Filled, IndInv, TypeOK, boundVars

LEMMA JobEnded ==
  ASSUME IndInv,
         RefuseJob \/ NoContext \/ FailJob \/ CommitFails
           \/ ReturnResult \/ DiscardUnparsed \/ DeliverText
  PROVE  ThreadType' /\ JobInv'
<1>1. TypeOK /\ stats \in [Counter -> Nat] /\ {"misses", "invalidations"} \subseteq Counter
  BY DEF IndInv, TypeOK, Counter
<1>2. CASE RefuseJob
  BY <1>1, <1>2, EndedJob, Counted DEF RefuseJob
<1>3. CASE NoContext
  BY <1>1, <1>3, EndedJob, ExpiryCounted, Counted DEF NoContext
<1>4. CASE FailJob \/ CommitFails \/ ReturnResult \/ DeliverText
  BY <1>1, <1>4, EndedJob DEF FailJob, CommitFails, ReturnResult, DeliverText
<1>5. CASE DiscardUnparsed
  BY <1>1, <1>5, EndedJob, Counted DEF DiscardUnparsed
<1>6. QED
  BY <1>2, <1>3, <1>4, <1>5

LEMMA ContextTaken == IndInv /\ TakeContext => ThreadType' /\ JobInv'
<1> SUFFICES ASSUME IndInv, TakeContext PROVE ThreadType' /\ JobInv'
  OBVIOUS
<1>0. /\ job \in ChatRequest /\ job.prompt \in Prompt /\ Len(job.prompt) \in Nat
      /\ Len(job.prompt) < ContextTokens /\ pc' = "prefill" /\ job' = job
  <2>1. job \in ChatRequest /\ ~Overflow /\ pc' = "prefill" /\ job' = job
    BY DEF TakeContext, IndInv, TypeOK, JobInv
  <2>2. job.prompt \in Prompt /\ Len(job.prompt) \in Nat
    BY <2>1, PromptType DEF ChatRequest
  <2>3. QED
    BY <2>1, <2>2, CacheAssumption DEF Overflow
<1>1. kv' \in KvType /\ prefix' \in 0..Len(job.prompt)
      /\ (prefix' > 0 => kv'[0] = SubSeq(job.prompt, 1, prefix'))
  <2>1. CASE Hit
    <3> DEFINE e == cache[job.session]
    <3>1. e.tokens \in Prompt /\ e.kv \in KvType /\ e.kv[0] = e.tokens
      BY <2>1 DEF Hit, Fresh, IndInv, EntriesInv
    <3>2. IsPrefix(e.tokens, job.prompt) /\ kv' = e.kv /\ prefix' = Len(e.tokens)
      BY <2>1 DEF Hit, TakeContext
    <3>3. e.tokens \in Seq(Token) /\ Len(e.tokens) \in Nat
          /\ SubSeq(e.tokens, 1, Len(e.tokens)) = e.tokens
      BY <3>1, PromptType, SubSeqFull
    <3>4. Len(e.tokens) <= Len(job.prompt)
          /\ SubSeq(e.tokens, 1, Len(e.tokens)) = SubSeq(job.prompt, 1, Len(e.tokens))
      BY <3>2, Zenon DEF IsPrefix
    <3> HIDE DEF e
    <3>5. QED
      BY <1>0, <3>1, <3>2, <3>3, <3>4
  <2>2. CASE ~Hit
    BY <1>0, <2>2, EmptyKvType DEF TakeContext
  <2>3. QED
    BY <2>1, <2>2
<1>2. stats' \in [Counter -> Nat]
  BY ExpiryCounted, Counted DEF TakeContext, IndInv, Counter
<1>3. prefix' \in 0..ContextTokens
  BY <1>0, <1>1, CacheAssumption
<1>4. ThreadType'
  BY <1>0, <1>1, <1>2, <1>3 DEF TakeContext, ThreadType, IndInv, TypeOK, boundVars
<1>5. QED
  BY <1>0, <1>1, <1>4 DEF JobInv, Filled

LEMMA PromptFilled ==
  ASSUME IndInv, Prefill
  PROVE  /\ ThreadType' /\ JobInv'
         /\ kv'[1] = job.prompt /\ job.prompt # <<>> /\ Len(job.prompt) < ContextTokens
<1>0. /\ job.prompt \in Prompt /\ job.prompt \in Seq(Token) /\ job.prompt # <<>>
      /\ Len(job.prompt) \in Nat /\ Len(job.prompt) < ContextTokens
      /\ job \in ChatRequest
  BY PromptType DEF Prefill, IndInv, JobInv, ChatRequest
<1>1. prefix \in 0..Len(job.prompt) /\ (prefix > 0 => kv[0] = SubSeq(job.prompt, 1, prefix))
  BY <1>0 DEF Prefill, IndInv, TypeOK, JobInv
<1>2. (IF prefix > 0 THEN kv[0] ELSE <<>>)
        = (IF prefix > 0 THEN SubSeq(job.prompt, 1, prefix) ELSE <<>>)
  BY <1>1
<1> DEFINE start == ReplayStart(prefix)
           prompt == Decoded(IF prefix > 0 THEN kv[0] ELSE <<>>, start,
                             SubSeq(job.prompt, start + 1, Len(job.prompt)))
<1>3. prompt = job.prompt
  BY <1>0, <1>1, <1>2, ReplayedPrompt
<1>4. kv' = [kv EXCEPT ![1] = prompt, ![2] = prompt] /\ pc' = "generating"
  BY DEF Prefill
<1> HIDE DEF start, prompt
<1>5. kv' \in KvType /\ kv'[1] = job.prompt /\ kv'[2] = job.prompt
  <2>1. kv \in KvType
    BY DEF IndInv, TypeOK, KvType
  <2>2. kv' = [j \in 0..2 |-> IF j \in {1} \cup {2} THEN job.prompt ELSE kv[j]]
    BY <1>3, <1>4, <2>1 DEF KvType
  <2>3. QED
    <3>1. Len(job.prompt) <= ContextTokens
      BY <1>0, CacheAssumption
    <3>2. QED
      BY <1>0, <2>1, <2>2, <3>1, KvFilled
<1>6. ThreadType'
  BY <1>4, <1>5 DEF Prefill, ThreadType, IndInv, TypeOK, jobVars, boundVars
<1>7. JobInv'
  BY <1>0, <1>4, <1>5 DEF Prefill, JobInv, Filled, jobVars
<1>8. QED
  BY <1>0, <1>5, <1>6, <1>7

LEMMA TokenEmitted ==
  ASSUME IndInv, EmitToken
  PROVE  /\ ThreadType' /\ JobInv'
         /\ \/ kv'[1] = kv[1]
            \/ Len(kv[1]) < ContextTokens /\ \E t \in Token : kv'[1] = Append(kv[1], t)
<1>0. /\ kv \in KvType /\ kv[1] \in Seq(Token) /\ Len(kv[1]) \in Nat /\ ContextTokens \in Nat
      /\ kv[1] # <<>> /\ kv[2] = job.prompt /\ Len(job.prompt) < ContextTokens
      /\ job \in ChatRequest /\ pc = "generating"
  BY CacheAssumption, LenProperties
     DEF EmitToken, IndInv, TypeOK, KvType, JobInv, Filled
<1>1. emitted' \in 0..MaxTokens
  BY CacheAssumption DEF EmitToken, IndInv, TypeOK
<1>2. CASE kv' = kv /\ pc' = "publishing"
  BY <1>0, <1>1, <1>2
     DEF EmitToken, ThreadType, IndInv, TypeOK, JobInv, Filled, boundVars
<1>3. ASSUME ~ContextFull, pc' = pc,
             NEW t \in Token, kv' = [kv EXCEPT ![1] = Append(kv[1], t)]
      PROVE  /\ ThreadType' /\ JobInv'
             /\ Len(kv[1]) < ContextTokens /\ kv'[1] = Append(kv[1], t)
  <2>1. Len(kv[1]) < ContextTokens
    BY <1>0, <1>3 DEF ContextFull
  <2>2. /\ Append(kv[1], t) \in Seq(Token) /\ Append(kv[1], t) # <<>>
        /\ Len(Append(kv[1], t)) <= ContextTokens
    BY <1>0, <2>1, AppendProperties
  <2> DEFINE more == Append(kv[1], t)
  <2> HIDE DEF more
  <2>3. kv' = [kv EXCEPT ![1] = more] /\ more \in Seq(Token) /\ more # <<>>
        /\ Len(more) <= ContextTokens
    BY <1>3, <2>2 DEF more
  <2>4. kv' \in KvType /\ kv'[1] = more /\ kv'[2] = job.prompt
    <3>1. kv' = [j \in 0..2 |-> IF j \in {1} \cup {} THEN more ELSE kv[j]]
      BY <1>0, <2>3 DEF KvType
    <3>2. QED
      BY <1>0, <2>3, <3>1, KvFilled
  <2>5. ThreadType'
    BY <1>0, <1>1, <1>3, <2>4 DEF EmitToken, ThreadType, IndInv, TypeOK, boundVars
  <2>6. JobInv'
    BY <1>0, <1>3, <2>3, <2>4 DEF EmitToken, JobInv, Filled
  <2>7. QED
    BY <2>1, <2>4, <2>5, <2>6 DEF more
<1>4. QED
  BY <1>2, <1>3 DEF EmitToken

LEMMA OtherSteps ==
  ASSUME IndInv,
         TakeJob \/ Cancel \/ Tick \/ StopGenerating \/ SkipPublication
           \/ EvictLeastRecent \/ Commit \/ ParseCalls \/ UNCHANGED vars
  PROVE  ThreadType' /\ JobInv'
<1>0. TypeOK /\ JobInv /\ kv \in KvType
  BY DEF IndInv, TypeOK, KvType
<1>1. CASE TakeJob
  BY <1>0, <1>1, CacheAssumption
     DEF TakeJob, ThreadType, TypeOK, JobInv, Filled
<1>2. CASE Cancel
  BY <1>0, <1>2 DEF Cancel, ThreadType, TypeOK, JobInv, Filled, jobVars, boundVars
<1>3. CASE Tick
  <2>1. clock' \in 0..MaxClock
    BY <1>0, <1>3, CacheAssumption DEF Tick, TypeOK
  <2>2. QED
    BY <1>0, <1>3, <2>1 DEF Tick, ThreadType, TypeOK, JobInv, Filled, jobVars
<1>4. CASE StopGenerating \/ SkipPublication \/ ParseCalls
  BY <1>0, <1>4
     DEF StopGenerating, SkipPublication, ParseCalls, ThreadType, TypeOK, JobInv, Filled,
         jobVars, boundVars
<1>5. CASE EvictLeastRecent
  BY <1>0, <1>5, Counted
     DEF EvictLeastRecent, Counter, ThreadType, TypeOK, JobInv, Filled, jobVars, boundVars
<1>6. CASE Commit
  BY <1>0, <1>6
     DEF Commit, Publishes, ThreadType, TypeOK, JobInv, Filled, jobVars, boundVars
<1>7. CASE UNCHANGED vars
  BY <1>0, <1>7 DEF vars, ThreadType, TypeOK, JobInv, Filled, jobVars, boundVars
<1>8. QED
  BY <1>1, <1>2, <1>3, <1>4, <1>5, <1>6, <1>7

-----------------------------------------------------------------------------

LEMMA InitInv == Init => IndInv
<1> SUFFICES ASSUME Init PROVE IndInv
  OBVIOUS
<1>1. DOMAIN cache = {}
  BY DEF Init
<1>2. ThreadType
  <2>1. 0 \in 0..ContextTokens /\ 0 \in 0..MaxClock /\ 0 \in 0..MaxTokens /\ 0 \in 0..MaxJobs
    BY CacheAssumption
  <2>2. stats \in [Counter -> Nat]
    BY DEF Init
  <2>3. QED
    BY <2>1, <2>2, EmptyKvType DEF Init, ThreadType
<1>3. JobInv
  BY DEF Init, JobInv, Filled
<1>4. QED
  BY <1>1, <1>2, <1>3 DEF IndInv, TypeOK, ThreadType, EntriesInv, KvType

LEMMA NextInv == IndInv /\ [Next]_vars => IndInv'
<1> SUFFICES ASSUME IndInv, [Next]_vars PROVE IndInv'
  OBVIOUS
<1>1. ThreadType' /\ JobInv'
  BY JobEnded, ContextTaken, PromptFilled, TokenEmitted, OtherSteps DEF Next
<1>2. TypeOK'
  BY <1>1, EntryTypesStep DEF ThreadType, TypeOK, KvType
<1>3. QED
  BY <1>1, <1>2, EntriesStep DEF IndInv

LEMMA Inductive == Spec => []IndInv
BY InitInv, NextInv, PTL DEF Spec

(* The thread, its context and its cache keep their types: no sequence     *)
(* outgrows the context, whatever is reused or generated.                  *)
THEOREM TypeCorrect == Spec => []TypeOK
<1>1. IndInv => TypeOK
  BY DEF IndInv
<1>2. QED
  BY <1>1, Inductive, PTL

(* What a cached entry claims to hold is what its context holds, after any *)
(* sequence of reuses, failures, evictions and expiries.                   *)
THEOREM CheckpointsAlwaysFaithful == Spec => []CheckpointsFaithful
<1>1. IndInv => CheckpointsFaithful
  BY DEF IndInv, EntriesInv, CheckpointsFaithful
<1>2. QED
  BY <1>1, Inductive, PTL

-----------------------------------------------------------------------------
(* Refinement.                                                             *)

UncachedContext == IF Filled THEN kv[1] ELSE <<>>

LEMMA EndRefines ==
  ASSUME IndInv, pc # "idle", NEW entries, NEW st, NEW committed, NEW outcome,
         EndJob(entries, st, committed, outcome)
  PROVE  Uncached!Finish
<1>1. job.prompt # <<>>
  BY PromptType DEF IndInv, JobInv, ChatRequest
<1>2. job'.prompt = <<>> /\ ~Filled'
  BY DEF EndJob, NoJob, Filled
<1>3. QED
  BY <1>1, <1>2 DEF Uncached!Finish

(* Whatever was reused, expired, evicted or thrown away, a generation runs *)
(* in a context that holds its own prompt and what it generated, as it     *)
(* would without a cache.                                                  *)
THEOREM CacheTransparent == Spec => ImplementsUncached
<1>1. Init => Uncached!Init
  BY DEF Init, NoJob, Filled, Uncached!Init
<1>2. IndInv /\ [Next]_vars => [Uncached!Next]_<<job.prompt, UncachedContext>>
  <2> SUFFICES ASSUME IndInv, [Next]_vars
               PROVE  Uncached!Next \/ UNCHANGED <<job.prompt, UncachedContext>>
    OBVIOUS
  <2>1. CASE RefuseJob \/ NoContext \/ FailJob \/ CommitFails
               \/ ReturnResult \/ DiscardUnparsed \/ DeliverText
    BY <2>1, EndRefines
       DEF RefuseJob, NoContext, FailJob, CommitFails, Publishes, ReturnResult,
           DiscardUnparsed, DeliverText, Uncached!Next
  <2>2. CASE TakeJob
    <3>1. job.prompt = <<>> /\ job' \in ChatRequest /\ ~Filled /\ ~Filled'
      BY <2>2 DEF TakeJob, IndInv, JobInv, NoJob, Filled
    <3>2. job'.prompt \in Prompt
      BY <3>1 DEF ChatRequest
    <3>3. QED
      BY <3>1, <3>2 DEF Uncached!Ask, Uncached!Next
  <2>3. CASE Prefill
    <3>1. /\ kv'[1] = job.prompt /\ job.prompt # <<>> /\ Len(job.prompt) < ContextTokens
          /\ job' = job /\ ~Filled /\ Filled'
      BY <2>3, PromptFilled DEF Prefill, jobVars, Filled
    <3>2. QED
      BY <3>1 DEF Uncached!Fill, Uncached!Next
  <2>4. CASE EmitToken
    <3>1. job' = job /\ Filled /\ Filled' /\ kv[1] # <<>>
      BY <2>4 DEF EmitToken, IndInv, JobInv, Filled
    <3>2. CASE kv'[1] = kv[1]
      BY <3>1, <3>2 DEF UncachedContext
    <3>3. CASE Len(kv[1]) < ContextTokens /\ \E t \in Token : kv'[1] = Append(kv[1], t)
      BY <3>1, <3>3 DEF Uncached!Extend, Uncached!Next
    <3>4. QED
      BY <2>4, <3>2, <3>3, TokenEmitted
  <2>5. CASE TakeContext
    BY <2>5 DEF TakeContext, Filled, UncachedContext
  <2>6. CASE Cancel \/ Tick \/ StopGenerating \/ SkipPublication \/ EvictLeastRecent
               \/ Commit \/ ParseCalls \/ UNCHANGED vars
    BY <2>6
       DEF Cancel, Tick, StopGenerating, SkipPublication, EvictLeastRecent, Commit, Publishes,
           ParseCalls, vars, jobVars, Filled, UncachedContext
  <2>7. QED
    BY <2>1, <2>2, <2>3, <2>4, <2>5, <2>6 DEF Next
<1>3. QED
  BY <1>1, <1>2, Inductive, PTL DEF Spec, ImplementsUncached, Uncached!Spec, UncachedContext

-----------------------------------------------------------------------------
(* Limits.                                                                 *)

Fits(n) ==
  n <= config.max_entries /\ (config.max_bytes > 0 => Bytes(n) <= config.max_bytes)

(* The room a reused entry left is still there.                            *)
RoomInv ==
  pc \in {"prefill", "generating", "publishing"} /\ prefix > 0
    => RoomBeside(Cardinality(DOMAIN cache))

BudgetInv == IndInv /\ Fits(Cardinality(DOMAIN cache)) /\ RoomInv

LEMMA ConfigType ==
  TypeOK => /\ config.max_entries \in Nat /\ config.max_bytes \in Nat /\ EntryBytes \in Nat
            /\ IsFiniteSet(DOMAIN cache) /\ Cardinality(DOMAIN cache) \in Nat
BY CacheAssumption, FS_Subset, FS_CardinalityType DEF TypeOK, SessionCacheConfig

LEMMA BytesMonotone ==
  ASSUME NEW m \in Nat, NEW n \in 0..m, EntryBytes \in Nat
  PROVE  Bytes(n) \in Nat /\ Bytes(n) <= Bytes(m) /\ Bytes(m + 1) = Bytes(m) + EntryBytes
<1>1. n * EntryBytes \in Nat /\ (m - n) * EntryBytes \in Nat
  BY m - n \in Nat
<1>2. m * EntryBytes = n * EntryBytes + (m - n) * EntryBytes
  OBVIOUS
<1>3. (m + 1) * EntryBytes = m * EntryBytes + EntryBytes
  OBVIOUS
<1>4. QED
  BY <1>1, <1>2, <1>3 DEF Bytes

LEMMA SmallerFits ==
  ASSUME TypeOK, NEW m \in Nat, NEW n \in 0..m
  PROVE  /\ Fits(m) => Fits(n)
         /\ RoomBeside(m) => RoomBeside(n)
         /\ RoomBeside(m) <=> Fits(m + 1)
<1>1. n \in Nat /\ config.max_entries \in Nat /\ config.max_bytes \in Nat /\ EntryBytes \in Nat
  BY ConfigType
<1>2. /\ Bytes(n) \in Nat /\ Bytes(m) \in Nat /\ Bytes(n) <= Bytes(m)
      /\ Bytes(m + 1) = Bytes(m) + EntryBytes
  BY <1>1, BytesMonotone, m \in 0..m
<1>3. QED
  BY <1>1, <1>2 DEF Fits, RoomBeside

LEMMA FewerEntries ==
  ASSUME BudgetInv, DOMAIN cache' \subseteq DOMAIN cache
  PROVE  /\ Cardinality(DOMAIN cache') \in 0..Cardinality(DOMAIN cache)
         /\ Fits(Cardinality(DOMAIN cache'))
         /\ RoomBeside(Cardinality(DOMAIN cache)) => RoomBeside(Cardinality(DOMAIN cache'))
<1>1. TypeOK /\ Fits(Cardinality(DOMAIN cache))
  BY DEF BudgetInv, IndInv
<1>2. Cardinality(DOMAIN cache') \in 0..Cardinality(DOMAIN cache)
  BY <1>1, ConfigType, FS_Subset, FS_CardinalityType
<1>3. QED
  BY <1>1, <1>2, ConfigType, SmallerFits

LEMMA TakenMakesRoom ==
  ASSUME BudgetInv, TakeContext, prefix' > 0
  PROVE  RoomBeside(Cardinality(DOMAIN cache'))
<1>0. TypeOK /\ Fits(Cardinality(DOMAIN cache))
  BY DEF BudgetInv, IndInv
<1>1. Hit
  BY DEF TakeContext
<1>2. /\ DOMAIN cache' \subseteq DOMAIN cache \ {job.session} /\ job.session \in DOMAIN cache
  BY <1>1 DEF Hit, TakeContext, Left, Fresh, Restrict
<1> DEFINE rest == DOMAIN cache \ {job.session}
<1>3. /\ IsFiniteSet(rest) /\ Cardinality(rest) = Cardinality(DOMAIN cache) - 1
      /\ Cardinality(rest) \in Nat
  BY <1>0, <1>2, ConfigType, FS_RemoveElement, FS_CardinalityType
<1>4. Cardinality(DOMAIN cache') \in 0..Cardinality(rest)
  BY <1>2, <1>3, FS_Subset, FS_CardinalityType
<1>5. Fits(Cardinality(rest) + 1)
  BY <1>0, <1>3, ConfigType, Cardinality(rest) + 1 = Cardinality(DOMAIN cache)
<1> HIDE DEF rest
<1>6. QED
  BY <1>0, <1>3, <1>4, <1>5, SmallerFits

LEMMA CommitFits ==
  ASSUME BudgetInv, Commit
  PROVE  Fits(Cardinality(DOMAIN cache'))
<1>0. TypeOK
  BY DEF BudgetInv, IndInv
<1>1. DOMAIN cache' = DOMAIN cache \cup {job.session}
  BY DEF Commit, Put
<1>2. RoomBeside(Cardinality(DOMAIN cache))
  BY DEF Commit
<1>3. Cardinality(DOMAIN cache') \in 0..(Cardinality(DOMAIN cache) + 1)
  BY <1>0, <1>1, ConfigType, FS_AddElement
<1>4. Fits(Cardinality(DOMAIN cache) + 1)
  BY <1>0, <1>2, ConfigType, SmallerFits
<1>5. QED
  BY <1>0, <1>3, <1>4, ConfigType, SmallerFits

LEMMA BudgetStep == BudgetInv /\ [Next]_vars => BudgetInv'
<1> SUFFICES ASSUME BudgetInv, [Next]_vars PROVE BudgetInv'
  OBVIOUS
<1>0. IndInv /\ IndInv' /\ config' = config
  BY NextInv
     DEF BudgetInv, Next, vars, boundVars, jobVars, TakeJob, Cancel, Tick, RefuseJob, TakeContext,
         NoContext, Prefill, FailJob, EmitToken, StopGenerating, SkipPublication, EvictLeastRecent,
         Commit, CommitFails, ReturnResult, DiscardUnparsed, ParseCalls, DeliverText, EndJob
<1>1. Fits(Cardinality(DOMAIN cache'))
  <2>1. CASE Commit
    BY <2>1, CommitFits
  <2>2. CASE ~Commit
    BY <2>2, EntriesOnlyLeave, FewerEntries
  <2>3. QED
    BY <2>1, <2>2
<1>2. Fits(Cardinality(DOMAIN cache))'
  BY <1>0, <1>1 DEF Fits, Bytes
<1>3. RoomInv'
  <2> SUFFICES ASSUME pc' \in {"prefill", "generating", "publishing"}, prefix' > 0
               PROVE  RoomBeside(Cardinality(DOMAIN cache'))
    BY <1>0 DEF RoomInv, RoomBeside, Bytes
  <2>1. CASE TakeContext
    BY <2>1, TakenMakesRoom
  <2>2. CASE Cancel \/ Tick \/ Prefill \/ EmitToken \/ StopGenerating \/ UNCHANGED vars
    BY <2>2
       DEF Cancel, Tick, Prefill, EmitToken, StopGenerating, vars, jobVars, boundVars,
           BudgetInv, RoomInv
  <2>3. CASE EvictLeastRecent
    BY <2>3 DEF EvictLeastRecent, Publishes, jobVars, BudgetInv, RoomInv
  <2>4. CASE TakeJob \/ RefuseJob \/ NoContext \/ FailJob \/ SkipPublication \/ Commit
               \/ CommitFails \/ ReturnResult \/ DiscardUnparsed \/ ParseCalls \/ DeliverText
    BY <2>4
       DEF TakeJob, RefuseJob, NoContext, FailJob, SkipPublication, Commit, CommitFails,
           ReturnResult, DiscardUnparsed, ParseCalls, DeliverText, EndJob
  <2>5. QED
    BY <2>1, <2>2, <2>3, <2>4 DEF Next
<1>4. QED
  BY <1>0, <1>2, <1>3 DEF BudgetInv

LEMMA InitBudget == Init => BudgetInv
<1> SUFFICES ASSUME Init PROVE BudgetInv
  OBVIOUS
<1>1. IndInv /\ DOMAIN cache = {} /\ Cardinality(DOMAIN cache) = 0
  BY InitInv, FS_EmptySet DEF Init
<1>2. Fits(0)
  BY <1>1, ConfigType DEF IndInv, Fits, Bytes
<1>3. QED
  BY <1>1, <1>2 DEF Init, BudgetInv, RoomInv

LEMMA BudgetAlways == Spec => []BudgetInv
BY InitBudget, BudgetStep, PTL DEF Spec

(* The cache never holds more entries or more bytes than it is allowed.    *)
THEOREM BudgetAlwaysKept == Spec => []WithinBudget
<1>1. BudgetInv => WithinBudget
  BY DEF BudgetInv, Fits, WithinBudget
<1>2. QED
  BY <1>1, BudgetAlways, PTL

(* A session that goes on never evicts another one.                        *)
THEOREM ReuseAlwaysFits == Spec => []ReuseNeedsNoEviction
<1>1. BudgetInv => ReuseNeedsNoEviction
  BY DEF BudgetInv, RoomInv, ReuseNeedsNoEviction
<1>2. QED
  BY <1>1, BudgetAlways, PTL

-----------------------------------------------------------------------------
(* Failures.                                                               *)

(* While a generation runs, its session's entry is out of the cache.       *)
AwayInv ==
  pc \in {"prefill", "generating", "publishing"} /\ Cacheable => job.session \notin DOMAIN cache

LEMMA AwayStep == AwayInv /\ [Next]_vars => AwayInv'
<1> SUFFICES ASSUME AwayInv, [Next]_vars,
                    pc' \in {"prefill", "generating", "publishing"}, Cacheable'
             PROVE  job'.session \notin DOMAIN cache'
  BY DEF AwayInv
<1>1. CASE TakeContext
  BY <1>1 DEF TakeContext, Left, Restrict, Cacheable, CacheEnabled, boundVars
<1>2. CASE Cancel \/ Tick \/ Prefill \/ EmitToken \/ StopGenerating \/ UNCHANGED vars
  BY <1>2
     DEF Cancel, Tick, Prefill, EmitToken, StopGenerating, vars, jobVars, boundVars,
         AwayInv, Cacheable, CacheEnabled
<1>3. CASE EvictLeastRecent
  <2>1. DOMAIN cache' \subseteq DOMAIN cache /\ pc = "publishing" /\ job' = job /\ Cacheable
    BY <1>3 DEF EvictLeastRecent, Publishes, Without, Restrict, jobVars
  <2>2. QED
    BY <2>1 DEF AwayInv
<1>4. CASE TakeJob \/ RefuseJob \/ NoContext \/ FailJob \/ SkipPublication \/ Commit
             \/ CommitFails \/ ReturnResult \/ DiscardUnparsed \/ ParseCalls \/ DeliverText
  BY <1>4
     DEF TakeJob, RefuseJob, NoContext, FailJob, SkipPublication, Commit, CommitFails,
         ReturnResult, DiscardUnparsed, ParseCalls, DeliverText, EndJob
<1>5. QED
  BY <1>1, <1>2, <1>3, <1>4 DEF Next

LEMMA AwayAlways == Spec => []AwayInv
<1>1. Init => AwayInv
  BY DEF Init, AwayInv
<1>2. QED
  BY <1>1, AwayStep, PTL DEF Spec

(* A failed generation leaves nothing of its session behind: its entry was *)
(* taken out before and is not put back, or it is dropped again when the   *)
(* tool calls do not parse.                                                *)
THEOREM FailureAlwaysDiscards == Spec => FailureDiscards
<1>1. AwayInv /\ [Next]_vars =>
        [(JobEnds /\ pc \notin {"starting", "delivering"} /\ result' = "error" /\ Cacheable)
           => job.session \notin DOMAIN cache']_vars
  <2> SUFFICES ASSUME AwayInv, Next, JobEnds, pc \notin {"starting", "delivering"},
                      result' = "error", Cacheable
               PROVE  job.session \notin DOMAIN cache'
    OBVIOUS
  <2>1. CASE FailJob \/ CommitFails
    BY <2>1 DEF FailJob, CommitFails, Publishes, EndJob, AwayInv
  <2>2. CASE DiscardUnparsed
    BY <2>2 DEF DiscardUnparsed, EndJob, Without, Restrict
  <2>3. CASE RefuseJob \/ NoContext \/ DeliverText
    BY <2>3 DEF RefuseJob, NoContext, DeliverText
  <2>4. CASE ReturnResult
    BY <2>4 DEF ReturnResult, EndJob
  <2>5. CASE TakeJob \/ Cancel \/ Tick \/ TakeContext \/ Prefill \/ EmitToken
               \/ StopGenerating \/ SkipPublication \/ EvictLeastRecent \/ Commit \/ ParseCalls
    BY <2>5
       DEF JobEnds, TakeJob, Cancel, Tick, TakeContext, Prefill, EmitToken, StopGenerating,
           SkipPublication, EvictLeastRecent, Publishes, Commit, ParseCalls
  <2>6. QED
    BY <2>1, <2>2, <2>3, <2>4, <2>5 DEF Next
<1>2. QED
  BY <1>1, AwayAlways, PTL DEF Spec, FailureDiscards

-----------------------------------------------------------------------------
(* The count of the tokens.                                                *)

(* Every token handed over was decoded, but the one after which the        *)
(* context was found full.                                                 *)
CountInv ==
  /\ pc \in {"idle", "starting", "prefill"} => emitted = 0
  /\ pc = "generating" => emitted = OutputTokens
  /\ OutputCountedOrFull

LEMMA CountedToken ==
  ASSUME IndInv, CountInv, EmitToken
  PROVE  CountInv'
<1>0. /\ kv \in [0..2 -> Seq(Token)] /\ kv[1] \in Seq(Token) /\ Len(kv[1]) \in Nat
      /\ Len(kv[1]) <= ContextTokens /\ ContextTokens \in Nat /\ pc = "generating"
      /\ job \in ChatRequest /\ job' = job /\ emitted' = emitted + 1 /\ emitted \in Nat
  BY CacheAssumption, LenProperties DEF EmitToken, IndInv, TypeOK, JobInv
<1>1. Len(job.prompt) \in Nat /\ emitted = Len(kv[1]) - Len(job.prompt)
  BY <1>0, PromptType DEF ChatRequest, CountInv, OutputTokens
<1>2. CASE ContextFull /\ pc' = "publishing" /\ kv' = kv
  <2>1. Len(kv[1]) = ContextTokens
    BY <1>0, <1>2 DEF ContextFull
  <2>2. QED
    BY <1>0, <1>1, <1>2, <2>1 DEF CountInv, OutputCountedOrFull, OutputTokens
<1>3. ASSUME pc' = pc, NEW t \in Token, kv' = [kv EXCEPT ![1] = Append(kv[1], t)]
      PROVE  CountInv'
  <2>1. Len(kv'[1]) = Len(kv[1]) + 1
    BY <1>0, <1>3, AppendProperties
  <2>2. emitted' = Len(kv'[1]) - Len(job'.prompt)
    BY <1>0, <1>1, <2>1
  <2>3. QED
    BY <1>0, <1>3, <2>2 DEF CountInv, OutputCountedOrFull, OutputTokens
<1>4. QED
  BY <1>2, <1>3 DEF EmitToken

LEMMA CountStep == IndInv /\ CountInv /\ [Next]_vars => CountInv'
<1> SUFFICES ASSUME IndInv, CountInv, [Next]_vars PROVE CountInv'
  OBVIOUS
<1>1. CASE EmitToken
  BY <1>1, CountedToken
<1>2. CASE Prefill
  <2>1. Len(job.prompt) \in Nat
    BY <1>2, PromptType DEF Prefill, IndInv, JobInv, ChatRequest
  <2>2. kv'[1] = job.prompt /\ pc' = "generating" /\ job' = job /\ emitted' = 0
    BY <1>2, PromptFilled DEF Prefill, jobVars, CountInv
  <2>3. emitted' = Len(kv'[1]) - Len(job'.prompt)
    BY <2>1, <2>2
  <2>4. QED
    BY <2>2, <2>3 DEF CountInv, OutputCountedOrFull, OutputTokens
<1>3. CASE TakeJob \/ TakeContext
  BY <1>3 DEF TakeJob, TakeContext, CountInv, OutputCountedOrFull, Filled
<1>4. CASE RefuseJob \/ NoContext \/ FailJob \/ CommitFails \/ ReturnResult
             \/ DiscardUnparsed \/ DeliverText
  BY <1>4
     DEF RefuseJob, NoContext, FailJob, CommitFails, ReturnResult, DiscardUnparsed, DeliverText,
         EndJob, CountInv, OutputCountedOrFull, Filled
<1>5. CASE Cancel \/ Tick \/ StopGenerating \/ SkipPublication \/ EvictLeastRecent
             \/ Commit \/ ParseCalls \/ UNCHANGED vars
  BY <1>5
     DEF Cancel, Tick, StopGenerating, SkipPublication, EvictLeastRecent, Commit, Publishes,
         ParseCalls, vars, jobVars, CountInv, OutputCountedOrFull, OutputTokens, Filled
<1>6. QED
  BY <1>1, <1>2, <1>3, <1>4, <1>5 DEF Next

(* The number of tokens reported is the number handed over, or one less    *)
(* when the context is full, whatever was reused before.                   *)
THEOREM OutputAlwaysCountedOrFull == Spec => []OutputCountedOrFull
<1>1. Init => CountInv
  BY DEF Init, CountInv, OutputCountedOrFull, Filled
<1>2. CountInv => OutputCountedOrFull
  BY DEF CountInv
<1>3. QED
  BY <1>1, <1>2, CountStep, Inductive, PTL DEF Spec

=============================================================================
