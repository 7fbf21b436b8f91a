-------------------------- MODULE HarnessAppProofs --------------------------
(* Theorems about HarnessApp, for any bounds.  The first invariant, Inv,   *)
(* is about the queue, the threads and the active stream, and needs        *)
(* nothing of the conversations; the second, TInv /\ XInv, relates the text*)
(* of the messages to what the threads heard and the queue still holds.    *)
EXTENDS HarnessApp, FiniteSetTheorems, SequenceTheorems, WellFoundedInduction, TLAPS

-----------------------------------------------------------------------------
(* Lists of messages.                                                      *)

(* Induction over a set of numbers.                                       *)
LEMMA NatInductionSet ==
  ASSUME NEW S \in SUBSET Nat, 0 \in S, \A n \in S : n + 1 \in S
  PROVE  S = Nat
<1> DEFINE T == Nat \ S
           R == OpToRel(<, Nat)
<1>0. \A x, y \in Nat : <<y, x>> \in R <=> y < x
  BY DEF OpToRel
<1> SUFFICES ASSUME T # {} PROVE FALSE
  OBVIOUS
<1>1. IsWellFoundedOn(R, Nat)
  BY NatLessThanWellFounded DEF OpToRel
<1> HIDE DEF R
<1>2. PICK x \in T : \A y \in T : ~(<<y, x>> \in R)
  <2>1. T \subseteq Nat OBVIOUS
  <2> HIDE DEF T
  <2> QED BY <1>1, <2>1, WFMin
<1>3. \A y \in T : ~(y < x)
  BY <1>0, <1>2
<1>4. x \in Nat /\ x # 0 /\ x - 1 \in Nat /\ x - 1 < x
  BY <1>2
<1>5. x - 1 \in S
  BY <1>3, <1>4
<1>6. QED
  BY <1>2, <1>4, <1>5

(* The last of some numbers is the largest.                                *)
LEMMA MaxIsLast ==
  ASSUME NEW n \in Nat, NEW s \in SUBSET (1..n), n \in s
  PROVE  Max(s) = n
<1>1. \A y \in s : n >= y
  OBVIOUS
<1>2. \A x \in s : (\A y \in s : x >= y) => x = n
  OBVIOUS
<1> QED
  BY <1>1, <1>2 DEF Max

(* A fold over 1..n as the community modules define it, one step a time.  *)
IsFold(it, n, base, step) ==
  \A s \in SUBSET (1..n) :
    it[s] = IF s = {} THEN base ELSE step[<<it[s \ {Max(s)}], Max(s)>>]

LEMMA MaxIsIn ==
  \A n \in Nat : \A s \in SUBSET (1..n) : s # {} => Max(s) \in s
<1> DEFINE S == {n \in Nat : \A s \in SUBSET (1..n) : s # {} => Max(s) \in s}
<1>1. 0 \in S
  <2>1. \A s \in SUBSET (1..0) : s = {}
    OBVIOUS
  <2> QED  BY <2>1
<1>2. ASSUME NEW n \in S PROVE n + 1 \in S
  <2>1. ASSUME NEW s \in SUBSET (1..(n + 1)), s # {} PROVE Max(s) \in s
    <3>1. CASE n + 1 \in s
      BY <3>1, MaxIsLast
    <3>2. CASE n + 1 \notin s
      <4>1. s \in SUBSET (1..n)
        BY <3>2
      <4> QED  BY <2>1, <4>1
    <3> QED  BY <3>1, <3>2
  <2> QED  BY <2>1
<1> HIDE DEF S
<1>3. S \in SUBSET Nat
  BY DEF S
<1>4. S = Nat
  BY <1>1, <1>2, <1>3, NatInductionSet
<1> QED  BY <1>4 DEF S

LEMMA FoldExists ==
  ASSUME NEW V, NEW base \in V, NEW step \in [V \X Nat -> V]
  PROVE  \A n \in Nat : \E it \in [SUBSET (1..n) -> V] : IsFold(it, n, base, step)
<1> DEFINE S == {n \in Nat : \E it \in [SUBSET (1..n) -> V] : IsFold(it, n, base, step)}
<1>1. 0 \in S
  <2> DEFINE it == [s \in SUBSET (1..0) |-> base]
  <2>1. \A s \in SUBSET (1..0) : s = {}
    OBVIOUS
  <2>2. it \in [SUBSET (1..0) -> V] /\ IsFold(it, 0, base, step)
    BY <2>1 DEF IsFold
  <2> QED  BY <2>2
<1>2. ASSUME NEW n \in S PROVE n + 1 \in S
  <2>1. PICK it \in [SUBSET (1..n) -> V] : IsFold(it, n, base, step)
    OBVIOUS
  <2>2. n \in Nat /\ n + 1 \in Nat
    OBVIOUS
  <2> DEFINE more == [s \in SUBSET (1..(n + 1)) |->
                       IF n + 1 \in s THEN step[<<it[s \ {n + 1}], n + 1>>] ELSE it[s]]
  <2>3. ASSUME NEW s \in SUBSET (1..(n + 1))
        PROVE  s \ {n + 1} \in SUBSET (1..n) /\ (n + 1 \notin s => s \in SUBSET (1..n))
    BY <2>2
  <2>4. more \in [SUBSET (1..(n + 1)) -> V]
    <3>1. ASSUME NEW s \in SUBSET (1..(n + 1)) PROVE more[s] \in V
      <4>1. it[s \ {n + 1}] \in V /\ (n + 1 \notin s => it[s] \in V)
        BY <2>3
      <4>2. step[<<it[s \ {n + 1}], n + 1>>] \in V
        BY <2>2, <4>1
      <4> QED  BY <4>1, <4>2
    <3> QED  BY <3>1
  <2>5. ASSUME NEW s \in SUBSET (1..(n + 1))
        PROVE  more[s] = IF s = {} THEN base ELSE step[<<more[s \ {Max(s)}], Max(s)>>]
    <3>1. CASE n + 1 \in s
      <4>1. Max(s) = n + 1
        BY <2>2, <3>1, MaxIsLast
      <4>2. s \ {n + 1} \in SUBSET (1..(n + 1)) /\ n + 1 \notin s \ {n + 1}
        OBVIOUS
      <4>3. more[s \ {n + 1}] = it[s \ {n + 1}]
        BY <4>2
      <4> QED  BY <3>1, <4>1, <4>3
    <3>2. CASE n + 1 \notin s
      <4>1. s \in SUBSET (1..n) /\ more[s] = it[s]
        BY <2>3, <3>2
      <4>2. s \ {Max(s)} \in SUBSET (1..(n + 1)) /\ n + 1 \notin s \ {Max(s)}
        BY <3>2
      <4>3. more[s \ {Max(s)}] = it[s \ {Max(s)}]
        BY <4>2
      <4> QED  BY <2>1, <4>1, <4>3 DEF IsFold
    <3> QED  BY <3>1, <3>2
  <2> HIDE DEF more
  <2> QED  BY <2>2, <2>4, <2>5 DEF IsFold
<1> HIDE DEF S
<1>3. S \in SUBSET Nat
  BY DEF S
<1>4. S = Nat
  BY <1>1, <1>2, <1>3, NatInductionSet
<1> QED  BY <1>4 DEF S

(* Which messages Only keeps, one at a time.                               *)
LEMMA OnlyFold ==
  ASSUME NEW M, NEW messages \in Seq(M), NEW kept
  PROVE  \E acc :
           /\ acc[0] = <<>>
           /\ \A k \in 1..Len(messages) :
                acc[k] = IF messages[k] \in kept THEN Append(acc[k - 1], messages[k]) ELSE acc[k - 1]
           /\ Only(messages, kept) = acc[Len(messages)]
<1> DEFINE n == Len(messages)
           step == [p \in Seq(M) \X Nat |->
                      IF p[2] \in 1..n /\ messages[p[2]] \in kept THEN Append(p[1], messages[p[2]]) ELSE p[1]]
           Eq(it) == it = [s \in SUBSET (1..n) |->
                            IF s = {} THEN <<>>
                            ELSE IF messages[Max(s)] \in kept THEN Append(it[s \ {Max(s)}], messages[Max(s)])
                            ELSE it[s \ {Max(s)}]]
<1>1. n \in Nat /\ DOMAIN messages = 1..n /\ <<>> \in Seq(M)
  OBVIOUS
<1>2. step \in [Seq(M) \X Nat -> Seq(M)]
  OBVIOUS
<1>3. PICK it \in [SUBSET (1..n) -> Seq(M)] : IsFold(it, n, <<>>, step)
  <2> HIDE DEF step, n
  <2> QED BY <1>1, <1>2, FoldExists
<1>4. Eq(it)
  <2>1. ASSUME NEW s \in SUBSET (1..n), s # {}
        PROVE  step[<<it[s \ {Max(s)}], Max(s)>>] = IF messages[Max(s)] \in kept THEN Append(it[s \ {Max(s)}], messages[Max(s)])
                            ELSE it[s \ {Max(s)}]
    <3>1. Max(s) \in 1..n
      <4> HIDE DEF n
      <4> QED  BY <1>1, <2>1, MaxIsIn
    <3>2. s \ {Max(s)} \in SUBSET (1..n)
      OBVIOUS
    <3>3. it[s \ {Max(s)}] \in Seq(M) /\ Max(s) \in Nat
      BY <3>1, <3>2
    <3> QED BY <1>1, <3>1, <3>3
  <2> HIDE DEF step, n
  <2> QED BY <1>3, <2>1 DEF IsFold
<1> DEFINE iter == CHOOSE f : Eq(f)
<1>5. Eq(iter)
  <2> HIDE DEF Eq
  <2> QED BY <1>4
<1>6. Only(messages, kept) = iter[1..n]
  BY <1>1 DEF Only, FoldLeft, MapThenFoldSet
<1> HIDE DEF iter
<1>7. iter[{}] = <<>>
  BY <1>5
<1>8. ASSUME NEW k \in 1..n
      PROVE  iter[1..k] = IF messages[k] \in kept THEN Append(iter[1..(k - 1)], messages[k])
                          ELSE iter[1..(k - 1)]
  <2>0. k \in Nat /\ k \in 1..k /\ 1..k # {}
    BY <1>1
  <2>1. 1..k \in SUBSET (1..n) /\ (1..k) \ {k} = 1..(k - 1)
    BY <1>1
  <2>2. Max(1..k) = k
    BY <2>0, <2>1, MaxIsLast
  <2>3. iter[1..k] = IF messages[k] \in kept THEN Append(iter[(1..k) \ {k}], messages[k])
                     ELSE iter[(1..k) \ {k}]
    <3> HIDE DEF n
    <3> QED  BY <1>5, <2>0, <2>1, <2>2
  <2> QED  BY <2>1, <2>3
<1> DEFINE acc == [k \in 0..n |-> iter[1..k]]
<1>9. acc[0] = <<>>
  <2>1. 1..0 = {}
    OBVIOUS
  <2> QED  BY <1>1, <1>7, <2>1
<1>10. ASSUME NEW k \in 1..n
       PROVE  acc[k] = IF messages[k] \in kept THEN Append(acc[k - 1], messages[k]) ELSE acc[k - 1]
  <2>1. k \in 0..n /\ k - 1 \in 0..n
    BY <1>1
  <2>2. acc[k] = iter[1..k] /\ acc[k - 1] = iter[1..(k - 1)]
    BY <2>1
  <2> QED  BY <1>8, <2>2
<1>11. Only(messages, kept) = acc[n]
  BY <1>1, <1>6
<1> HIDE DEF acc
<1> QED  BY <1>9, <1>10, <1>11
(* Only keeps messages of the list, and only those to be kept.             *)
LEMMA OnlyKeeps ==
  ASSUME NEW M, NEW messages \in Seq(M), NEW kept
  PROVE  /\ Only(messages, kept) \in Seq(M)
         /\ \A m \in Range(Only(messages, kept)) : m \in Range(messages) /\ m \in kept
<1> DEFINE n == Len(messages)
           K == {m \in Range(messages) : m \in kept}
<1>1. PICK acc :
        /\ acc[0] = <<>>
        /\ \A k \in 1..n :
             acc[k] = IF messages[k] \in kept THEN Append(acc[k - 1], messages[k]) ELSE acc[k - 1]
        /\ Only(messages, kept) = acc[n]
  BY OnlyFold
<1>2. n \in Nat /\ DOMAIN messages = 1..n /\ K \subseteq M
  BY DEF Range
<1> DEFINE S == {k \in Nat : k <= n => acc[k] \in Seq(K)}
<1>3. 0 \in S
  <2> HIDE DEF K
  <2>1. <<>> \in Seq(K)
    OBVIOUS
  <2> QED  BY <1>1, <2>1
<1>4. ASSUME NEW k \in S PROVE k + 1 \in S
  <2> SUFFICES ASSUME k + 1 <= n PROVE acc[k + 1] \in Seq(K)
    OBVIOUS
  <2>1. k + 1 \in 1..n /\ (k + 1) - 1 = k /\ acc[k] \in Seq(K)
    BY <1>2
  <2>2. CASE messages[k + 1] \in kept
    <3>1. messages[k + 1] \in K
      BY <1>2, <2>1, <2>2 DEF Range
    <3> HIDE DEF K
    <3>2. acc[k + 1] = Append(acc[k], messages[k + 1])
      BY <1>1, <2>1, <2>2
    <3> QED  BY <2>1, <3>1, <3>2, AppendProperties
  <2>3. CASE messages[k + 1] \notin kept
    BY <1>1, <2>1, <2>3
  <2> QED  BY <2>2, <2>3
<1>5. n \in S
  <2> HIDE DEF S
  <2>1. S \in SUBSET Nat
    BY DEF S
  <2> QED  BY <1>2, <1>3, <1>4, <2>1, NatInductionSet
<1>6. acc[n] \in Seq(K)
  BY <1>2, <1>5
<1>7. acc[n] \in Seq(M) /\ \A m \in Range(acc[n]) : m \in K
  <2> HIDE DEF K
  <2> QED  BY <1>2, <1>6 DEF Range
<1> QED  BY <1>1, <1>7

-----------------------------------------------------------------------------
Live(a) == streams[a].phase # "over"

QueueOK == events \in Seq(Range(events))

StreamsOK ==
  \A a \in DOMAIN streams :
    DOMAIN streams[a] = {"phase", "conversation", "request", "cancelled", "heard"}

(* No stream is active: no thread runs and nothing is queued.              *)
Quiet == active = {} => events = <<>> /\ \A a \in DOMAIN streams : ~Live(a)

(* What the queue holds of s: text only while its thread runs, and then    *)
(* one terminal event, the last.                                           *)
QueueOf(s) ==
  /\ \A i \in 1..Len(events) : events[i].conversation = s.conversation
  /\ Live(s.assistant_message) => \A i \in 1..Len(events) : events[i].kind = "Delta"
  /\ ~Live(s.assistant_message) =>
       /\ Len(events) > 0 /\ events[Len(events)].kind # "Delta"
       /\ \A i \in 1..(Len(events) - 1) : events[i].kind = "Delta"

ThreadOf(s) ==
  /\ s.assistant_message \in DOMAIN streams
  /\ streams[s.assistant_message].conversation = s.conversation
  /\ \A a \in DOMAIN streams : Live(a) => a = s.assistant_message

ActiveInv == \A s \in active : active = {s} /\ ThreadOf(s) /\ QueueOf(s)

Inv == QueueOK /\ StreamsOK /\ Quiet /\ ActiveInv

-----------------------------------------------------------------------------
(* The queue.                                                              *)

(* Append adds one event at the end and keeps the others.                  *)
LEMMA AppendEvent ==
  ASSUME NEW q, q \in Seq(Range(q)), NEW e
  PROVE  /\ Append(q, e) \in Seq(Range(Append(q, e)))
         /\ Len(q) \in Nat
         /\ Len(Append(q, e)) = Len(q) + 1
         /\ \A i \in 1..Len(q) : Append(q, e)[i] = q[i]
         /\ Append(q, e)[Len(q) + 1] = e
<1> DEFINE T == Range(q) \cup {e}
<1>1. q \in Seq(T)
  <2>1. Len(q) \in Nat /\ q \in [1..Len(q) -> Range(q)]
    BY LenProperties
  <2>2. q \in [1..Len(q) -> T]
    BY <2>1
  <2> QED
    BY <2>1, <2>2
<1>2. Append(q, e) \in Seq(T)
  BY <1>1, AppendProperties
<1>3. Append(q, e) \in Seq(Range(Append(q, e)))
  BY <1>2, SeqOfRange
<1> QED
  BY <1>1, <1>3, AppendProperties, LenProperties

(* Tail takes the first event and keeps the others in order.               *)
LEMMA TailEvent ==
  ASSUME NEW q, q \in Seq(Range(q)), q # <<>>
  PROVE  /\ Tail(q) \in Seq(Range(Tail(q)))
         /\ Len(q) \in Nat \ {0}
         /\ Len(Tail(q)) = Len(q) - 1
         /\ Head(q) = q[1]
         /\ \A i \in 1..(Len(q) - 1) : Tail(q)[i] = q[i + 1]
<1>1. Tail(q) \in Seq(Range(q)) /\ Len(Tail(q)) = Len(q) - 1
      /\ \A i \in 1..Len(Tail(q)) : Tail(q)[i] = q[i + 1]
  BY HeadTailProperties
<1>2. Len(q) \in Nat \ {0}
  BY EmptySeq
<1>3. Tail(q) \in Seq(Range(Tail(q)))
  BY <1>1, SeqOfRange
<1> QED
  BY <1>1, <1>2, <1>3

-----------------------------------------------------------------------------
(* The steps.                                                              *)

LEMMA InitInv == Init => Inv
  BY EmptySeq DEF Init, Inv, QueueOK, StreamsOK, Quiet, ActiveInv

(* A step that neither queues an event nor ends or starts a thread.        *)
LEMMA SamePhases ==
  ASSUME Inv,
         UNCHANGED <<active, events>>,
         DOMAIN streams' = DOMAIN streams,
         \A a \in DOMAIN streams : /\ DOMAIN streams'[a] = DOMAIN streams[a]
                                   /\ streams'[a].conversation = streams[a].conversation
                                   /\ Live(a)' = Live(a)
  PROVE  Inv'
<1>1. QueueOK' /\ StreamsOK' /\ Quiet'
  BY DEF Inv, QueueOK, StreamsOK, Quiet
<1>2. ASSUME NEW s \in active
      PROVE  ThreadOf(s)' /\ QueueOf(s)'
  <2>1. ThreadOf(s) /\ QueueOf(s)
    BY <1>2 DEF Inv, ActiveInv
  <2>2. ThreadOf(s)'
    BY <2>1 DEF ThreadOf
  <2>3. QueueOf(s)'
    BY <2>1 DEF ThreadOf, QueueOf
  <2> QED
    BY <2>2, <2>3
<1> QED
  BY <1>1, <1>2 DEF Inv, ActiveInv

(* Raising a token ends nothing by itself.                                 *)
LEMMA CancelKeeps ==
  ASSUME Inv, NEW c, CancelStreamFor(c), UNCHANGED <<active, events>>
  PROVE  Inv'
<1>1. DOMAIN streams' = DOMAIN streams
  BY DEF CancelStreamFor
<1>2. ASSUME NEW a \in DOMAIN streams
      PROVE  /\ DOMAIN streams'[a] = DOMAIN streams[a]
             /\ streams'[a].conversation = streams[a].conversation
             /\ Live(a)' = Live(a)
  <2>1. DOMAIN streams[a] = {"phase", "conversation", "request", "cancelled", "heard"}
    BY DEF Inv, StreamsOK
  <2> QED
    BY <2>1 DEF CancelStreamFor, Live
<1> QED
  BY <1>1, <1>2, SamePhases

(* A thread only runs while its stream is active.                          *)
LEMMA RunsForActive ==
  ASSUME Inv, NEW a \in DOMAIN streams, Live(a)
  PROVE  \E s \in active : s.assistant_message = a
  BY DEF Inv, Quiet, ActiveInv, ThreadOf

LEMMA SendKeeps == ASSUME Inv, Send PROVE Inv'
<1>1. \E s, t :
        /\ active = {} /\ active' = {s} /\ UNCHANGED events
        /\ DOMAIN t = {"phase", "conversation", "request", "cancelled", "heard"}
        /\ t.phase # "over" /\ t.conversation = s.conversation
        /\ streams' = [a \in DOMAIN streams \cup {s.assistant_message} |->
                         IF a # s.assistant_message THEN streams[a] ELSE t]
  <2> DEFINE S == [conversation |-> selected, user_message |-> counts.messages + 1,
                   assistant_message |-> counts.messages + 2]
  <2>1. PICK request :
          /\ active = {} /\ active' = {S} /\ UNCHANGED events
          /\ streams' = [a \in DOMAIN streams \cup {counts.messages + 2} |->
               IF a # counts.messages + 2 THEN streams[a]
               ELSE [phase |-> "connecting", conversation |-> selected,
                     request |-> request, cancelled |-> FALSE, heard |-> 0]]
    BY DEF Send
  <2> DEFINE T == [phase |-> "connecting", conversation |-> selected,
                   request |-> request, cancelled |-> FALSE, heard |-> 0]
  <2>2. S.assistant_message = counts.messages + 2 /\ S.conversation = selected
    OBVIOUS
  <2>3. /\ DOMAIN T = {"phase", "conversation", "request", "cancelled", "heard"}
        /\ T.phase # "over" /\ T.conversation = selected
    OBVIOUS
  <2> HIDE DEF S, T
  <2>4. streams' = [a \in DOMAIN streams \cup {S.assistant_message} |->
                     IF a # S.assistant_message THEN streams[a] ELSE T]
    BY <2>1, <2>2 DEF T
  <2> QED
    BY <2>1, <2>2, <2>3, <2>4
<1>2. PICK s, t :
        /\ active = {} /\ active' = {s} /\ UNCHANGED events
        /\ DOMAIN t = {"phase", "conversation", "request", "cancelled", "heard"}
        /\ t.phase # "over" /\ t.conversation = s.conversation
        /\ streams' = [a \in DOMAIN streams \cup {s.assistant_message} |->
                         IF a # s.assistant_message THEN streams[a] ELSE t]
  BY <1>1
<1>3. events = <<>> /\ \A a \in DOMAIN streams : ~Live(a)
  BY <1>2 DEF Inv, Quiet
<1>4. QueueOK' /\ Quiet'
  BY <1>2 DEF Inv, QueueOK, Quiet
<1>5. StreamsOK'
  BY <1>2 DEF Inv, StreamsOK
<1>6. ThreadOf(s)'
  BY <1>2, <1>3 DEF ThreadOf, Live
<1>7. Live(s.assistant_message)'
  BY <1>2 DEF Live
<1>8. QueueOf(s)'
  BY <1>2, <1>3, <1>7, EmptySeq DEF QueueOf
<1> QED
  BY <1>2, <1>4, <1>5, <1>6, <1>8 DEF Inv, ActiveInv

LEMMA ReopenKeeps == ASSUME Reopen PROVE Inv'
  BY EmptySeq DEF Reopen, Inv, QueueOK, StreamsOK, Quiet, ActiveInv

(* The thread of the active stream queues its terminal event and is over.  *)
LEMMA EndsKeeps ==
  ASSUME Inv, NEW a \in DOMAIN streams, Live(a),
         NEW kind, kind # "Delta", Ends(a, kind)
  PROVE  Inv'
<1> DEFINE e == [kind |-> kind, conversation |-> streams[a].conversation]
<1>1. PICK s \in active : s.assistant_message = a
  BY RunsForActive
<1>2. active = {s} /\ ThreadOf(s) /\ QueueOf(s) /\ events \in Seq(Range(events))
  BY <1>1 DEF Inv, ActiveInv, QueueOK
<1>3. events' = Append(events, e) /\ UNCHANGED active
      /\ streams' = [streams EXCEPT ![a].phase = "over"]
  BY DEF Ends, ThreadOthers
<1>4. StreamsOK' /\ DOMAIN streams' = DOMAIN streams /\ ~Live(a)'
      /\ \A b \in DOMAIN streams : /\ streams'[b].conversation = streams[b].conversation
                                   /\ b # a => Live(b)' = Live(b)
  BY <1>3 DEF Inv, StreamsOK, Live
<1>5. /\ QueueOK' /\ Len(events) \in Nat /\ Len(events') = Len(events) + 1
      /\ \A i \in 1..Len(events) : events'[i] = events[i]
      /\ events'[Len(events) + 1] = e
  BY <1>2, <1>3, AppendEvent DEF QueueOK
<1>6. ThreadOf(s)'
  BY <1>1, <1>2, <1>4 DEF ThreadOf
<1>7. e.conversation = s.conversation /\ e.kind # "Delta"
  BY <1>1, <1>2 DEF ThreadOf
<1>8. QueueOf(s)'
  <2>1. \A i \in 1..Len(events') : events'[i].conversation = s.conversation
    BY <1>2, <1>5, <1>7 DEF QueueOf
  <2>2. \A i \in 1..Len(events) : events'[i].kind = "Delta"
    BY <1>1, <1>2, <1>5 DEF QueueOf
  <2>3. Len(events') > 0 /\ events'[Len(events')].kind # "Delta"
    BY <1>5, <1>7
  <2> QED
    BY <1>1, <1>4, <1>5, <2>1, <2>2, <2>3 DEF QueueOf
<1>9. Quiet'
  BY <1>2, <1>3 DEF Quiet
<1> QED
  BY <1>2, <1>3, <1>4, <1>5, <1>6, <1>8, <1>9 DEF Inv, ActiveInv

(* Text is queued behind text.                                             *)
LEMMA ReadDeltaKeeps ==
  ASSUME Inv, NEW a \in DOMAIN streams, ReadDelta(a)
  PROVE  Inv'
<1> DEFINE e == [kind |-> "Delta", conversation |-> streams[a].conversation,
                 message |-> a, n |-> streams[a].heard + 1]
<1>1. PICK s \in active : s.assistant_message = a
  BY RunsForActive DEF ReadDelta, Live
<1>2. active = {s} /\ ThreadOf(s) /\ QueueOf(s) /\ Live(a) /\ events \in Seq(Range(events))
  BY <1>1 DEF Inv, ActiveInv, QueueOK, ReadDelta, Live
<1>3. events' = Append(events, e) /\ UNCHANGED active
      /\ streams' = [streams EXCEPT ![a].heard = @ + 1]
  BY DEF ReadDelta, ThreadOthers
<1>4. StreamsOK' /\ DOMAIN streams' = DOMAIN streams
      /\ \A b \in DOMAIN streams : /\ streams'[b].conversation = streams[b].conversation
                                   /\ Live(b)' = Live(b)
  BY <1>3 DEF Inv, StreamsOK, Live
<1>5. /\ QueueOK' /\ Len(events) \in Nat /\ Len(events') = Len(events) + 1
      /\ \A i \in 1..Len(events) : events'[i] = events[i]
      /\ events'[Len(events) + 1] = e
  BY <1>2, <1>3, AppendEvent DEF QueueOK
<1>6. ThreadOf(s)'
  BY <1>1, <1>2, <1>4 DEF ThreadOf
<1>7. e.conversation = s.conversation /\ e.kind = "Delta"
  BY <1>1, <1>2 DEF ThreadOf
<1>8. QueueOf(s)'
  <2>1. \A i \in 1..Len(events') : events'[i].conversation = s.conversation
    BY <1>2, <1>5, <1>7 DEF QueueOf
  <2>2. \A i \in 1..Len(events') : events'[i].kind = "Delta"
    BY <1>1, <1>2, <1>5, <1>7 DEF QueueOf
  <2> QED
    BY <1>1, <1>2, <1>4, <2>1, <2>2 DEF QueueOf
<1>9. Quiet'
  BY <1>2, <1>3 DEF Quiet
<1> QED
  BY <1>2, <1>3, <1>4, <1>5, <1>6, <1>8, <1>9 DEF Inv, ActiveInv

(* The interface takes the oldest event; the terminal one finds the queue  *)
(* empty behind it.                                                        *)
LEMMA ProcessKeeps == ASSUME Inv, ProcessEvent PROVE Inv'
<1> DEFINE e == Head(events)
<1>1. /\ events # <<>> /\ events' = Tail(events) /\ UNCHANGED streams
      /\ active' = {s \in active : e.kind = "Delta" \/ s.conversation # e.conversation}
  BY DEF ProcessEvent
<1>2. /\ QueueOK' /\ Len(events) \in Nat \ {0} /\ Len(events') = Len(events) - 1
      /\ e = events[1]
      /\ \A i \in 1..Len(events') : events'[i] = events[i + 1]
  BY <1>1, TailEvent DEF Inv, QueueOK
<1>3. StreamsOK'
  BY <1>1 DEF Inv, StreamsOK
<1>4. PICK s \in active : active = {s} /\ ThreadOf(s) /\ QueueOf(s)
  BY <1>1 DEF Inv, Quiet, ActiveInv
<1>5. e.conversation = s.conversation
  BY <1>2, <1>4 DEF QueueOf
<1>6. ThreadOf(s)'
  BY <1>1, <1>4 DEF ThreadOf, Live
<1>7. Live(s.assistant_message)' = Live(s.assistant_message)
  BY <1>1 DEF Live
<1>8. CASE e.kind = "Delta"
  <2>1. active' = {s}
    BY <1>1, <1>4, <1>8
  <2>2. Live(s.assistant_message) \/ Len(events) > 1
    BY <1>2, <1>4, <1>8 DEF QueueOf
  <2>3. \A i \in 1..Len(events') : events'[i].conversation = s.conversation
    BY <1>2, <1>4 DEF QueueOf
  <2>4. CASE Live(s.assistant_message)
    <3>1. \A i \in 1..Len(events') : events'[i].kind = "Delta"
      BY <1>2, <1>4, <2>4 DEF QueueOf
    <3>2. QueueOf(s)'
      BY <1>7, <2>3, <2>4, <3>1 DEF QueueOf
    <3> QED
      BY <1>2, <1>3, <1>6, <2>1, <3>2 DEF Inv, ActiveInv, Quiet
  <2>5. CASE ~Live(s.assistant_message)
    <3>1. Len(events) > 1 /\ events[Len(events)].kind # "Delta"
          /\ \A i \in 1..(Len(events) - 1) : events[i].kind = "Delta"
      BY <1>4, <2>2, <2>5 DEF QueueOf
    <3>2. events'[Len(events')] = events[Len(events)]
      <4>1. Len(events') \in 1..Len(events')
        BY <1>2, <3>1
      <4>2. Len(events') + 1 = Len(events)
        BY <1>2
      <4> QED
        BY <1>2, <4>1, <4>2
    <3>3. \A i \in 1..(Len(events') - 1) : events'[i].kind = "Delta"
      BY <1>2, <3>1
    <3>4. Len(events') > 0
      BY <1>2, <3>1
    <3>5. QueueOf(s)'
      BY <1>7, <2>3, <2>5, <3>1, <3>2, <3>3, <3>4 DEF QueueOf
    <3> QED
      BY <1>2, <1>3, <1>6, <2>1, <3>5 DEF Inv, ActiveInv, Quiet
  <2> QED
    BY <2>4, <2>5
<1>9. CASE e.kind # "Delta"
  <2>1. active' = {}
    BY <1>1, <1>4, <1>5, <1>9
  <2>2. ~Live(s.assistant_message)
    BY <1>2, <1>4, <1>9 DEF QueueOf
  <2>3. Len(events) = 1
    BY <1>2, <1>4, <1>9, <2>2 DEF QueueOf
  <2>4. events' = <<>>
    BY <1>2, <2>3, EmptySeq DEF QueueOK
  <2>5. \A a \in DOMAIN streams : ~Live(a)'
    BY <1>1, <1>4, <2>2 DEF ThreadOf, Live
  <2>6. Quiet'
    BY <1>1, <2>4, <2>5 DEF Quiet
  <2> QED
    BY <1>2, <1>3, <2>1, <2>6 DEF Inv, ActiveInv
<1> QED
  BY <1>8, <1>9

(* The thread's other steps.                                               *)
LEMMA ThreadKeeps ==
  ASSUME Inv, NEW a \in DOMAIN streams, Server(a) \/ Cancelled(a)
  PROVE  Inv'
<1>1. ASSUME NEW phase, phase # "over", Live(a),
             streams' = [streams EXCEPT ![a].phase = phase],
             UNCHANGED <<events, ThreadOthers>>
      PROVE  Inv'
  <2>1. UNCHANGED <<active, events>> /\ DOMAIN streams' = DOMAIN streams
    BY <1>1 DEF ThreadOthers
  <2>2. ASSUME NEW b \in DOMAIN streams
        PROVE  /\ DOMAIN streams'[b] = DOMAIN streams[b]
               /\ streams'[b].conversation = streams[b].conversation
               /\ Live(b)' = Live(b)
    <3>1. DOMAIN streams[b] = {"phase", "conversation", "request", "cancelled", "heard"}
      BY DEF Inv, StreamsOK
    <3> QED
      BY <1>1, <3>1 DEF Live
  <2> QED
    BY <2>1, <2>2, SamePhases
<1>2. CASE Respond(a)
  <2>1. Live(a)
    BY <1>2 DEF Respond, Live
  <2>2. CASE Ends(a, "Failed")
    BY <2>1, <2>2, EndsKeeps
  <2>3. CASE ~Ends(a, "Failed")
    <3>1. PICK phase \in {"reading", "refused"} :
            /\ streams' = [streams EXCEPT ![a].phase = phase]
            /\ UNCHANGED <<events, ThreadOthers>>
      BY <1>2, <2>3 DEF Respond
    <3> QED
      BY <1>1, <2>1, <3>1
  <2> QED
    BY <2>2, <2>3
<1>3. CASE ReadDelta(a)
  BY <1>3, ReadDeltaKeeps
<1>4. CASE ReadEnd(a)
  BY <1>4, EndsKeeps DEF ReadEnd, Live
<1>5. CASE Refused(a)
  BY <1>5, EndsKeeps DEF Refused, Live
<1>6. CASE Cancelled(a)
  BY <1>6, EndsKeeps DEF Cancelled, Live
<1> QED
  BY <1>2, <1>3, <1>4, <1>5, <1>6 DEF Server

LEMMA StutterKeeps == ASSUME Inv, UNCHANGED <<active, events, streams>> PROVE Inv'
  BY SamePhases DEF Live

(* What the user does ends no thread and queues nothing.                   *)
LEMMA UserKeeps == ASSUME Inv, User PROVE Inv'
<1>1. CASE NewChat \/ SelectChat
  BY <1>1, StutterKeeps DEF NewChat, SelectChat
<1>2. CASE \E c \in IdsOf(chats) : RemoveConversation(c)
  <2>1. PICK c : CancelStreamFor(c) /\ UNCHANGED <<active, events>>
    BY <1>2 DEF RemoveConversation
  <2> QED
    BY <2>1, CancelKeeps
<1>3. CASE ClearConversation
  BY <1>3, CancelKeeps DEF ClearConversation
<1>4. CASE RemoveMessage
  <2>1. UNCHANGED <<active, events>> /\ (CancelStreamFor(selected) \/ UNCHANGED streams)
    BY <1>4 DEF RemoveMessage
  <2> QED
    BY <2>1, CancelKeeps, StutterKeeps
<1>5. CASE Stop
  <2>1. PICK s \in active : CancelStreamFor(s.conversation)
    BY <1>5 DEF Stop
  <2> QED
    BY <1>5, <2>1, CancelKeeps DEF Stop
<1>6. CASE Send
  BY <1>6, SendKeeps
<1>7. CASE Reopen
  BY <1>7, ReopenKeeps
<1> QED
  BY <1>1, <1>2, <1>3, <1>4, <1>5, <1>6, <1>7 DEF User

LEMMA NextInv == Inv /\ [Next]_vars => Inv'
<1> SUFFICES ASSUME Inv, [Next]_vars PROVE Inv'
  OBVIOUS
<1>1. CASE User
  BY <1>1, UserKeeps
<1>2. CASE ProcessEvent
  BY <1>2, ProcessKeeps
<1>3. CASE \E a \in DOMAIN streams : Server(a) \/ Cancelled(a)
  BY <1>3, ThreadKeeps
<1>4. CASE UNCHANGED vars
  BY <1>4, StutterKeeps DEF vars
<1> QED
  BY <1>1, <1>2, <1>3, <1>4 DEF Next

-----------------------------------------------------------------------------
LEMMA InvImplies == Inv => ActiveUntilTerminal
<1> SUFFICES ASSUME Inv PROVE ActiveUntilTerminal
  OBVIOUS
<1> DEFINE live == {a \in DOMAIN streams : streams[a].phase # "over"}
           terminal == {i \in DOMAIN events : events[i].kind # "Delta"}
<1>1. Len(events) \in Nat /\ DOMAIN events = 1..Len(events)
  BY LenProperties DEF Inv, QueueOK
<1>2. active = {} => live = {} /\ events = <<>>
  BY DEF Inv, Quiet, Live
<1>3. ASSUME NEW s \in active
      PROVE  /\ active = {s}
             /\ \A i \in DOMAIN events : events[i].conversation = s.conversation
             /\ \/ live = {s.assistant_message} /\ terminal = {}
                \/ live = {} /\ terminal = {Len(events)}
  <2>1. active = {s} /\ ThreadOf(s) /\ QueueOf(s)
    BY <1>3 DEF Inv, ActiveInv
  <2>2. \A i \in DOMAIN events : events[i].conversation = s.conversation
    BY <1>1, <2>1 DEF QueueOf
  <2>3. CASE Live(s.assistant_message)
    <3>1. live = {s.assistant_message}
      BY <2>1, <2>3 DEF ThreadOf, Live
    <3>2. terminal = {}
      BY <1>1, <2>1, <2>3 DEF QueueOf
    <3> QED
      BY <2>1, <2>2, <3>1, <3>2
  <2>4. CASE ~Live(s.assistant_message)
    <3>1. live = {}
      BY <2>1, <2>4 DEF ThreadOf, Live
    <3>2. Len(events) > 0 /\ events[Len(events)].kind # "Delta"
          /\ \A i \in 1..(Len(events) - 1) : events[i].kind = "Delta"
      BY <2>1, <2>4 DEF QueueOf
    <3>3. \A i \in DOMAIN events : events[i].kind # "Delta" <=> i = Len(events)
      BY <1>1, <3>2
    <3>4. terminal = {Len(events)}
      BY <1>1, <3>2, <3>3
    <3> QED
      BY <2>1, <2>2, <3>1, <3>4
  <2> QED
    BY <2>3, <2>4
<1> QED
  BY <1>2, <1>3 DEF ActiveUntilTerminal

(* HarnessApp::process_events, send and stream_chat: for any numbers of    *)
(* conversations, messages and pieces of text, a stream is active exactly  *)
(* until its one terminal event, the last of its events, is processed.     *)
THEOREM StreamAlwaysEndsOnce == Spec => []ActiveUntilTerminal
<1>1. Init => Inv
  BY InitInv
<1>2. Inv /\ [Next]_vars => Inv'
  BY NextInv
<1>3. Inv => ActiveUntilTerminal
  BY InvImplies
<1> QED
  BY <1>1, <1>2, <1>3, PTL DEF Spec

-----------------------------------------------------------------------------
(* The conversations.  In(c, m): conversation c shows message m.           *)

In(c, m) ==
  \E i \in 1..Len(chats) :
    chats[i].id = c /\ \E j \in 1..Len(chats[i].messages) : chats[i].messages[j] = m

ChatsOK ==
  /\ chats \in Seq(Conversation) /\ Len(chats) > 0
  /\ \A i, j \in 1..Len(chats) : chats[i].id = chats[j].id => i = j
  /\ \A i \in 1..Len(chats) : chats[i].id <= counts.chats
  /\ \E i \in 1..Len(chats) : chats[i].id = selected

(* An active stream may still add the message of its failure.              *)
CountsOK ==
  /\ counts \in Counts /\ counts.messages <= 3 * counts.sends
  /\ active # {} => counts.messages + 1 <= 3 * counts.sends

ThreadsOK ==
  \A a \in DOMAIN streams :
    /\ a \in MessageId /\ a <= counts.messages /\ streams[a] \in Stream
    /\ \A s \in active : a <= s.assistant_message

ActiveOK == active \subseteq ActiveStream /\ events \in Seq(Event)

TInv == ChatsOK /\ CountsOK /\ ThreadsOK /\ ActiveOK

(* One conversation's messages are replaced.                               *)
LEMMA Replaced ==
  ASSUME ChatsOK, NEW c, NEW messages \in Seq(Message), chats' = WithMessages(c, messages)
  PROVE  /\ chats' \in Seq(Conversation) /\ Len(chats') = Len(chats) /\ Len(chats) \in Nat
         /\ \A i \in 1..Len(chats) :
              /\ chats'[i].id = chats[i].id
              /\ chats'[i].messages = IF chats[i].id = c THEN messages ELSE chats[i].messages
<1>1. /\ chats \in Seq(Conversation) /\ Len(chats) \in Nat /\ DOMAIN chats = 1..Len(chats)
      /\ \A i \in 1..Len(chats) : chats[i] \in Conversation
  BY DEF ChatsOK
<1>2. ASSUME NEW i \in 1..Len(chats)
      PROVE  /\ chats'[i] \in Conversation /\ chats'[i].id = chats[i].id
             /\ chats'[i].messages = IF chats[i].id = c THEN messages ELSE chats[i].messages
  BY <1>1 DEF WithMessages, Conversation
<1>3. chats' = [i \in 1..Len(chats) |-> chats'[i]]
  BY <1>1 DEF WithMessages
<1> QED  BY <1>1, <1>2, <1>3

LEMMA WithMessagesOK ==
  ASSUME ChatsOK, NEW c, NEW messages \in Seq(Message), chats' = WithMessages(c, messages),
         UNCHANGED selected, counts'.chats = counts.chats
  PROVE  ChatsOK'
BY Replaced DEF ChatsOK

LEMMA WithMessagesShow ==
  ASSUME ChatsOK, NEW c, NEW messages \in Seq(Message), chats' = WithMessages(c, messages)
  PROVE  \A d, m : In(d, m)' => IF d = c THEN m \in Range(messages) ELSE In(d, m)
<1> SUFFICES ASSUME NEW d, NEW m, In(d, m)'
             PROVE  IF d = c THEN m \in Range(messages) ELSE In(d, m)
  OBVIOUS
<1>1. PICK i \in 1..Len(chats) :
        chats'[i].id = d /\ \E j \in 1..Len(chats'[i].messages) : chats'[i].messages[j] = m
  BY Replaced DEF In
<1>2. /\ chats'[i].id = chats[i].id
      /\ chats'[i].messages = IF chats[i].id = c THEN messages ELSE chats[i].messages
  BY Replaced
<1>3. CASE d = c
  <2>1. chats'[i].messages = messages
    BY <1>1, <1>2, <1>3
  <2>2. PICK j \in 1..Len(messages) : messages[j] = m
    BY <1>1, <2>1
  <2> QED  BY <1>3, <2>2 DEF Range
<1>4. CASE d # c
  BY <1>1, <1>2, <1>4 DEF In
<1> QED  BY <1>3, <1>4

(* What a conversation that is there shows.                                *)
LEMMA MessagesThere ==
  ASSUME ChatsOK, NEW c, \E i \in 1..Len(chats) : chats[i].id = c
  PROVE  MessagesOf(c) \in Seq(Message) /\ \A m \in Range(MessagesOf(c)) : In(c, m)
<1> DEFINE k == CHOOSE i \in DOMAIN chats : chats[i].id = c
<1>1. DOMAIN chats = 1..Len(chats) /\ \A i \in 1..Len(chats) : chats[i] \in Conversation
  BY DEF ChatsOK
<1>2. k \in 1..Len(chats) /\ chats[k].id = c
  BY <1>1
<1>3. MessagesOf(c) = chats[k].messages
  BY DEF MessagesOf
<1> HIDE DEF k
<1>4. chats[k].messages \in Seq(Message)
  BY <1>1, <1>2 DEF Conversation
<1>5. DOMAIN chats[k].messages = 1..Len(chats[k].messages)
  BY <1>4
<1> QED  BY <1>2, <1>3, <1>4, <1>5 DEF In, Range

LEMMA ShownTypes ==
  ASSUME ChatsOK, NEW c, NEW m, In(c, m)
  PROVE  m \in Message /\ m.id \in Nat
<1>1. PICK i \in 1..Len(chats) : \E j \in 1..Len(chats[i].messages) : chats[i].messages[j] = m
  BY DEF In
<1>2. chats[i].messages \in Seq(Message)
  <2>1. chats[i] \in Conversation
    BY DEF ChatsOK
  <2> QED  BY <2>1 DEF Conversation
<1>3. m \in Message
  BY <1>1, <1>2
<1> QED  BY <1>3, HarnessAssumption DEF Message, MessageId

LEMMA ShownIn ==
  ASSUME TInv, NEW i \in DOMAIN chats, NEW m \in Range(chats[i].messages)
  PROVE  In(chats[i].id, m)
<1>1. DOMAIN chats = 1..Len(chats) /\ chats[i] \in Conversation
  BY DEF TInv, ChatsOK
<1>2. chats[i].messages \in Seq(Message)
  BY <1>1 DEF Conversation
<1>3. DOMAIN chats[i].messages = 1..Len(chats[i].messages)
  BY <1>2
<1> QED  BY <1>1, <1>3 DEF In, Range

(* The identifiers are as many as the conversations.                       *)
LEMMA DistinctCounted ==
  ASSUME ChatsOK
  PROVE  Cardinality(IdsOf(chats)) = Len(chats) /\ selected \in IdsOf(chats)
<1> DEFINE f == [i \in 1..Len(chats) |-> chats[i].id]
<1>1. DOMAIN chats = 1..Len(chats) /\ Len(chats) \in Nat
  BY DEF ChatsOK
<1>2. f \in Bijection(1..Len(chats), IdsOf(chats))
  <2>1. f \in [1..Len(chats) -> IdsOf(chats)]
    BY <1>1 DEF IdsOf
  <2>2. \A i, j \in 1..Len(chats) : f[i] = f[j] => i = j
    BY DEF ChatsOK
  <2>3. \A d \in IdsOf(chats) : \E i \in 1..Len(chats) : f[i] = d
    BY <1>1 DEF IdsOf
  <2> HIDE DEF f
  <2> QED  BY <2>1, <2>2, <2>3 DEF Bijection, Injection, Surjection, IsInjective
<1>3. Cardinality(IdsOf(chats)) = Len(chats)
  BY <1>1, <1>2, FS_CountingElements DEF ExistsBijection
<1> QED  BY <1>1, <1>3 DEF ChatsOK, IdsOf

-----------------------------------------------------------------------------
(* The text.                                                               *)

(* How many pieces of the text of a are queued.                            *)
Waiting(a) ==
  IF \E s \in active : s.assistant_message = a
  THEN IF Live(a) THEN Len(events) ELSE Len(events) - 1
  ELSE 0

(* The queue continues the text where its message ends.                    *)
WaitInv ==
  \A s \in active :
    LET a == s.assistant_message IN
    /\ Waiting(a) <= streams[a].heard
    /\ \A k \in 1..Waiting(a) :
         events[k].message = a /\ events[k].n = streams[a].heard - Waiting(a) + k

TextInv ==
  \A c, m : In(c, m) =>
    /\ m.id <= counts.messages
    /\ m.content = UpTo(m.id, Len(m.content))
    /\ m.id \in DOMAIN streams =>
         c = streams[m.id].conversation /\ Len(m.content) = streams[m.id].heard - Waiting(m.id)

SameText == \A c, d, m, x : In(c, m) /\ In(d, x) /\ m.id = x.id => m.content = x.content

(* A request quotes messages older than the one it asks for.               *)
QuoteInv ==
  \A a \in DOMAIN streams : \A m \in Range(streams[a].request) :
    m.id < a /\ \A c, x : In(c, x) /\ x.id = m.id => x.content = m.content

XInv == WaitInv /\ TextInv /\ SameText /\ QuoteInv

(* A step that shows no new message and touches nothing of a thread but    *)
(* its token, or its phase while it runs.                                  *)
Fewer == \A c, m : In(c, m)' => In(c, m)
SameThreads ==
  /\ DOMAIN streams' = DOMAIN streams
  /\ \A a \in DOMAIN streams :
       /\ streams'[a] \in Stream /\ streams'[a].conversation = streams[a].conversation
       /\ streams'[a].request = streams[a].request /\ streams'[a].heard = streams[a].heard
       /\ Live(a)' = Live(a)
SameCounts ==
  counts' \in Counts /\ counts'.messages = counts.messages /\ counts'.sends = counts.sends

LEMMA QuietKeeps ==
  ASSUME Inv, TInv, XInv, ChatsOK', Fewer, SameThreads, SameCounts, UNCHANGED <<active, events>>
  PROVE  TInv' /\ XInv'
<1>1. CountsOK' /\ ActiveOK'
  BY DEF TInv, CountsOK, ActiveOK, SameCounts
<1>2. ThreadsOK'
  BY DEF TInv, ThreadsOK, SameThreads, SameCounts
<1>3. \A a \in DOMAIN streams : Waiting(a)' = Waiting(a)
  BY DEF Waiting, SameThreads
<1>4. WaitInv'
  <2>1. \A s \in active : s.assistant_message \in DOMAIN streams
    BY DEF Inv, ActiveInv, ThreadOf
  <2> QED  BY <1>3, <2>1 DEF XInv, WaitInv, SameThreads
<1>5. TextInv'
  BY <1>3 DEF XInv, TextInv, SameThreads, SameCounts, Fewer
<1>6. SameText'
  BY DEF XInv, SameText, Fewer
<1>7. QuoteInv'
  BY DEF XInv, QuoteInv, Fewer, SameThreads
<1> QED  BY <1>1, <1>2, <1>4, <1>5, <1>6, <1>7 DEF TInv, XInv

-----------------------------------------------------------------------------
(* What the user does.                                                     *)

LEMMA CancelSame ==
  ASSUME ThreadsOK, NEW c, CancelStreamFor(c)
  PROVE  SameThreads
<1>1. DOMAIN streams' = DOMAIN streams
  BY DEF CancelStreamFor
<1>2. ASSUME NEW a \in DOMAIN streams
      PROVE  /\ streams'[a] \in Stream /\ streams'[a].conversation = streams[a].conversation
             /\ streams'[a].request = streams[a].request /\ streams'[a].heard = streams[a].heard
             /\ Live(a)' = Live(a)
  <2>1. streams[a] \in Stream
    BY DEF ThreadsOK
  <2>2. streams'[a] = streams[a] \/ streams'[a] = [streams[a] EXCEPT !.cancelled = TRUE]
    BY DEF CancelStreamFor
  <2> QED  BY <2>1, <2>2 DEF Stream, Live
<1> QED  BY <1>1, <1>2 DEF SameThreads

LEMMA NewChatShows ==
  ASSUME ChatsOK, CountsOK, NewChat
  PROVE  ChatsOK' /\ Fewer /\ SameCounts
<1> DEFINE n == Len(chats)
           c == NewConversation(counts.chats + 1)
<1>1. /\ n \in Nat /\ chats \in Seq(Conversation) /\ counts \in Counts
      /\ \A i \in 1..n : chats[i] \in Conversation
  BY DEF ChatsOK, CountsOK
<1>2. /\ chats' = Append(chats, c) /\ selected' = counts.chats + 1
      /\ counts' = [counts EXCEPT !.chats = @ + 1] /\ counts.chats + 1 \in ChatId
      /\ counts.chats \in Nat
  BY <1>1, HarnessAssumption DEF NewChat, Counts, ChatId
<1>3. c \in Conversation /\ c.id = counts.chats + 1 /\ c.messages = <<>>
  BY <1>2 DEF NewConversation, Conversation
<1>4. SameCounts /\ counts'.chats = counts.chats + 1
  BY <1>1, <1>2 DEF Counts, SameCounts, ChatId
<1> HIDE DEF c
<1>5. /\ chats' \in Seq(Conversation) /\ Len(chats') = n + 1 /\ chats'[n + 1] = c
      /\ \A i \in 1..n : chats'[i] = chats[i]
  BY <1>1, <1>2, <1>3
<1>6. \A i \in 1..(n + 1) : i = n + 1 \/ i \in 1..n
  BY <1>1
<1>7. \A i \in 1..n : chats[i].id <= counts.chats /\ chats[i].id \in Nat
  BY <1>1 DEF ChatsOK, Conversation, ChatId
<1>8. ChatsOK'
  <2>1. \A i, j \in 1..(n + 1) : chats'[i].id = chats'[j].id => i = j
    BY <1>2, <1>3, <1>5, <1>6, <1>7 DEF ChatsOK
  <2>2. \A i \in 1..(n + 1) : chats'[i].id <= counts.chats + 1
    BY <1>2, <1>3, <1>5, <1>6, <1>7
  <2>3. n + 1 \in 1..(n + 1) /\ n + 1 > 0
    BY <1>1
  <2> QED  BY <1>2, <1>3, <1>4, <1>5, <2>1, <2>2, <2>3 DEF ChatsOK
<1>9. Fewer
  <2> SUFFICES ASSUME NEW d, NEW m, In(d, m)' PROVE In(d, m)
    BY DEF Fewer
  <2>1. PICK i \in 1..(n + 1) :
          chats'[i].id = d /\ \E j \in 1..Len(chats'[i].messages) : chats'[i].messages[j] = m
    BY <1>5 DEF In
  <2>2. i # n + 1
    BY <1>3, <1>5, <2>1
  <2> QED  BY <1>5, <1>6, <2>1, <2>2 DEF In
<1> QED  BY <1>4, <1>8, <1>9

(* RemoveAt takes one element out and keeps the others in order.           *)
LEMMA RemoveAtKeeps ==
  ASSUME NEW S, NEW s \in Seq(S), NEW i \in 1..Len(s)
  PROVE  /\ RemoveAt(s, i) \in Seq(S) /\ Len(RemoveAt(s, i)) = Len(s) - 1
         /\ \A k \in 1..(Len(s) - 1) : RemoveAt(s, i)[k] = s[IF k < i THEN k ELSE k + 1]
<1>1. Len(s) \in Nat /\ i \in Nat
  OBVIOUS
<1>2. /\ SubSeq(s, 1, i - 1) \in Seq(S) /\ Len(SubSeq(s, 1, i - 1)) = i - 1
      /\ \A k \in 1..(i - 1) : SubSeq(s, 1, i - 1)[k] = s[k]
  BY <1>1, SubSeqProperties
<1>3. /\ SubSeq(s, i + 1, Len(s)) \in Seq(S) /\ Len(SubSeq(s, i + 1, Len(s))) = Len(s) - i
      /\ \A k \in 1..(Len(s) - i) : SubSeq(s, i + 1, Len(s))[k] = s[k + i]
  BY <1>1, SubSeqProperties
<1> DEFINE front == SubSeq(s, 1, i - 1)
           back == SubSeq(s, i + 1, Len(s))
<1> HIDE DEF front, back
<1>4. /\ front \o back \in Seq(S) /\ Len(front \o back) = Len(s) - 1
      /\ \A k \in 1..(Len(s) - 1) :
           (front \o back)[k] = IF k <= i - 1 THEN front[k] ELSE back[k - (i - 1)]
  <2>1. Len(front) = i - 1 /\ Len(back) = Len(s) - i /\ front \in Seq(S) /\ back \in Seq(S)
    BY <1>2, <1>3 DEF front, back
  <2>2. /\ front \o back \in Seq(S) /\ Len(front \o back) = Len(front) + Len(back)
        /\ \A k \in 1..(Len(front) + Len(back)) :
             (front \o back)[k] = IF k <= Len(front) THEN front[k] ELSE back[k - Len(front)]
    BY <2>1, ConcatProperties
  <2> QED  BY <1>1, <2>1, <2>2
<1>5. ASSUME NEW k \in 1..(Len(s) - 1)
      PROVE  (front \o back)[k] = s[IF k < i THEN k ELSE k + 1]
  <2>1. CASE k < i
    BY <1>1, <1>2, <1>4, <2>1 DEF front
  <2>2. CASE ~(k < i)
    <3>1. k - (i - 1) \in 1..(Len(s) - i) /\ (k - (i - 1)) + i = k + 1 /\ ~(k <= i - 1)
      BY <1>1, <2>2
    <3>2. back[k - (i - 1)] = s[k + 1]
      BY <1>3, <3>1 DEF back
    <3> QED  BY <1>4, <2>2, <3>1, <3>2
  <2> QED  BY <2>1, <2>2
<1> QED  BY <1>4, <1>5 DEF RemoveAt, front, back

LEMMA RemoveShows ==
  ASSUME ChatsOK, CountsOK, NEW c \in IdsOf(chats), RemoveConversation(c)
  PROVE  ChatsOK' /\ Fewer /\ SameCounts
<1> DEFINE n == Len(chats)
           i == CHOOSE i \in DOMAIN chats : chats[i].id = c
           rest == RemoveAt(chats, i)
<1>1. /\ n \in Nat \ {0} /\ chats \in Seq(Conversation) /\ counts \in Counts
      /\ DOMAIN chats = 1..n /\ \A k \in 1..n : chats[k] \in Conversation
  BY DEF ChatsOK, CountsOK
<1>2. i \in 1..n
  BY <1>1 DEF IdsOf
<1>3. \/ /\ rest = <<>> /\ counts.chats < MaxChats
         /\ counts' = [counts EXCEPT !.chats = @ + 1]
         /\ chats' = <<NewConversation(counts.chats + 1)>> /\ selected' = counts.chats + 1
      \/ /\ rest # <<>>
         /\ chats' = rest /\ selected' = SelectedAfter(i, rest)
         /\ UNCHANGED counts
  BY DEF RemoveConversation
<1> HIDE DEF i
<1>4. /\ rest \in Seq(Conversation) /\ Len(rest) = n - 1
      /\ \A k \in 1..(n - 1) : rest[k] = chats[IF k < i THEN k ELSE k + 1]
  BY <1>1, <1>2, RemoveAtKeeps
<1> HIDE DEF rest
<1>5. CASE rest = <<>> /\ counts.chats < MaxChats
  <2>1. /\ counts' = [counts EXCEPT !.chats = @ + 1]
        /\ chats' = <<NewConversation(counts.chats + 1)>> /\ selected' = counts.chats + 1
    BY <1>3, <1>5
  <2>2. /\ counts.chats + 1 \in ChatId /\ SameCounts /\ counts'.chats = counts.chats + 1
    BY <1>1, <1>5, <2>1, HarnessAssumption DEF Counts, SameCounts, ChatId
  <2> DEFINE new == NewConversation(counts.chats + 1)
  <2>3. new \in Conversation /\ new.id = counts.chats + 1 /\ new.messages = <<>>
    BY <2>2 DEF NewConversation, Conversation
  <2> HIDE DEF new
  <2>4. /\ chats' \in Seq(Conversation) /\ Len(chats') = 1 /\ chats'[1] = new
    BY <2>1, <2>3 DEF new
  <2>5. ChatsOK'
    BY <2>1, <2>2, <2>3, <2>4 DEF ChatsOK, ChatId
  <2>6. Fewer
    BY <2>3, <2>4 DEF Fewer, In
  <2> QED  BY <2>2, <2>5, <2>6
<1>6. CASE rest # <<>>
  <2>1. chats' = rest /\ selected' = SelectedAfter(i, rest) /\ UNCHANGED counts
    BY <1>3, <1>6
  <2>2. n - 1 \in Nat \ {0}
    BY <1>1, <1>4, <1>6
  <2>3. ASSUME NEW k \in 1..(n - 1)
        PROVE  /\ (IF k < i THEN k ELSE k + 1) \in 1..n
               /\ rest[k] = chats[IF k < i THEN k ELSE k + 1]
    BY <1>1, <1>2, <1>4
  <2>4. \A k, l \in 1..(n - 1) : rest[k].id = rest[l].id => k = l
    <3> SUFFICES ASSUME NEW k \in 1..(n - 1), NEW l \in 1..(n - 1), rest[k].id = rest[l].id
                 PROVE  k = l
      OBVIOUS
    <3>1. (IF k < i THEN k ELSE k + 1) = (IF l < i THEN l ELSE l + 1)
      BY <2>3 DEF ChatsOK
    <3> QED  BY <1>2, <3>1
  <2>5. \A k \in 1..(n - 1) : rest[k].id <= counts.chats
    BY <2>3 DEF ChatsOK
  <2>6. \E k \in 1..(n - 1) : rest[k].id = selected'
    <3>1. CASE selected = chats[i].id
      <4>1. selected' = rest[IF i > n - 1 THEN n - 1 ELSE i].id
        BY <1>4, <2>1, <3>1 DEF SelectedAfter
      <4>2. (IF i > n - 1 THEN n - 1 ELSE i) \in 1..(n - 1)
        BY <1>1, <1>2, <2>2
      <4> QED  BY <4>1, <4>2
    <3>2. CASE selected # chats[i].id
      <4>1. selected' = selected
        BY <2>1, <3>2 DEF SelectedAfter
      <4>2. PICK k \in 1..n : chats[k].id = selected
        BY DEF ChatsOK
      <4>3. k # i
        BY <3>2, <4>2
      <4>4. CASE k < i
        <5>1. k \in 1..(n - 1)
          BY <1>2, <4>4
        <5> QED  BY <2>3, <4>1, <4>2, <4>4, <5>1
      <4>5. CASE k > i
        <5>1. k - 1 \in 1..(n - 1) /\ ~(k - 1 < i) /\ (k - 1) + 1 = k
          BY <1>2, <4>5
        <5>2. rest[k - 1] = chats[k]
          BY <2>3, <5>1
        <5> QED  BY <4>1, <4>2, <5>1, <5>2
      <4> QED  BY <1>2, <4>3, <4>4, <4>5
    <3> QED  BY <3>1, <3>2
  <2>7. ChatsOK'
    BY <1>4, <2>1, <2>2, <2>4, <2>5, <2>6 DEF ChatsOK
  <2>8. Fewer
    BY <1>4, <2>1, <2>3 DEF Fewer, In
  <2> QED  BY <1>1, <2>1, <2>7, <2>8 DEF SameCounts
<1> QED  BY <1>3, <1>5, <1>6

(* The messages of one conversation are replaced by some of them.          *)
LEMMA SomeShow ==
  ASSUME ChatsOK, CountsOK, NEW messages \in Seq(Message),
         \A m \in Range(messages) : m \in Range(MessagesOf(selected)),
         chats' = WithMessages(selected, messages), UNCHANGED <<selected, counts>>
  PROVE  ChatsOK' /\ Fewer /\ SameCounts
<1>1. \A m \in Range(MessagesOf(selected)) : In(selected, m)
  BY MessagesThere DEF ChatsOK
<1> QED  BY <1>1, WithMessagesOK, WithMessagesShow DEF Fewer, SameCounts, CountsOK

LEMMA QuietUser ==
  ASSUME TInv, User, ~Send, ~Reopen
  PROVE  ChatsOK' /\ Fewer /\ SameThreads /\ SameCounts /\ UNCHANGED <<active, events>>
<1>0. ChatsOK /\ CountsOK /\ ThreadsOK
  BY DEF TInv
<1>1. UNCHANGED streams => SameThreads
  BY <1>0 DEF SameThreads, ThreadsOK, Live
<1>2. UNCHANGED <<chats, counts>> /\ selected' \in IdsOf(chats) => ChatsOK' /\ Fewer /\ SameCounts
  BY <1>0 DEF ChatsOK, Fewer, In, SameCounts, CountsOK, IdsOf
<1>3. selected \in IdsOf(chats) /\ MessagesOf(selected) \in Seq(Message)
  BY <1>0, DistinctCounted, MessagesThere DEF ChatsOK
<1>4. CASE NewChat
  BY <1>0, <1>1, <1>4, NewChatShows DEF NewChat
<1>5. CASE SelectChat
  BY <1>1, <1>2, <1>5 DEF SelectChat
<1>6. CASE \E c \in IdsOf(chats) : RemoveConversation(c)
  <2>1. PICK c \in IdsOf(chats) : RemoveConversation(c)
    BY <1>6
  <2> QED  BY <1>0, <2>1, RemoveShows, CancelSame DEF RemoveConversation
<1>7. CASE ClearConversation
  <2>1. <<>> \in Seq(Message) /\ \A m \in Range(<<>>) : m \in Range(MessagesOf(selected))
    BY DEF Range
  <2> QED  BY <1>0, <1>7, <2>1, SomeShow, CancelSame DEF ClearConversation
<1>8. CASE RemoveMessage
  <2>1. PICK m :
          /\ CancelStreamFor(selected) \/ UNCHANGED streams
          /\ chats' = WithMessages(selected,
               Only(MessagesOf(selected), {x \in Range(MessagesOf(selected)) : x.id # m.id}))
          /\ UNCHANGED <<active, selected, events, counts>>
    BY <1>8 DEF RemoveMessage
  <2> DEFINE ms == Only(MessagesOf(selected), {x \in Range(MessagesOf(selected)) : x.id # m.id})
  <2>2. ms \in Seq(Message) /\ \A x \in Range(ms) : x \in Range(MessagesOf(selected))
    BY <1>3, OnlyKeeps
  <2> HIDE DEF ms
  <2>3. chats' = WithMessages(selected, ms)
    BY <2>1 DEF ms
  <2>4. SameThreads
    BY <1>0, <1>1, <2>1, CancelSame
  <2> QED  BY <1>0, <2>1, <2>2, <2>3, <2>4, SomeShow
<1>9. CASE Stop
  <2>1. PICK s \in active : CancelStreamFor(s.conversation)
    BY <1>9 DEF Stop
  <2> QED  BY <1>0, <1>2, <1>3, <1>9, <2>1, CancelSame DEF Stop
<1> QED  BY <1>4, <1>5, <1>6, <1>7, <1>8, <1>9 DEF User

(* A message is sent: two new ones are shown, and the older are quoted.    *)
LEMMA SendShows ==
  ASSUME Inv, TInv, XInv, Send
  PROVE  TInv' /\ XInv'
<1> DEFINE user == counts.messages + 1
           a == counts.messages + 2
           old == MessagesOf(selected)
           um == [id |-> user, role |-> "User", content |-> <<>>]
           am == [id |-> a, role |-> "Assistant", content |-> <<>>]
           messages == old \o <<um, am>>
           quoted == FromConversation(messages)
           s == [conversation |-> selected, user_message |-> user, assistant_message |-> a]
           t == [phase |-> "connecting", conversation |-> selected, request |-> quoted,
                 cancelled |-> FALSE, heard |-> 0]
<1>1. /\ active = {} /\ counts.sends < MaxSends
      /\ chats' = WithMessages(selected, messages)
      /\ active' = {s}
      /\ streams' = [b \in DOMAIN streams \cup {a} |-> IF b # a THEN streams[b] ELSE t]
      /\ counts' = [counts EXCEPT !.messages = @ + 2, !.sends = @ + 1]
      /\ UNCHANGED <<selected, events>>
  BY DEF Send
<1>2. ChatsOK /\ CountsOK /\ ThreadsOK /\ ActiveOK
  BY DEF TInv
<1>3. events = <<>>
  BY <1>1 DEF Inv, Quiet
<1>4. /\ counts \in Counts /\ counts.messages \in Nat /\ counts.sends \in Nat /\ MaxSends \in Nat
      /\ counts.messages <= 3 * counts.sends /\ counts.messages + 3 <= 3 * MaxSends
  BY <1>1, <1>2, HarnessAssumption DEF CountsOK, Counts
<1>5. /\ user \in MessageId /\ a \in MessageId /\ selected \in ChatId
      /\ counts.messages < user /\ user < a
  <2>1. PICK i \in 1..Len(chats) : chats[i].id = selected
    BY <1>2 DEF ChatsOK
  <2>2. chats[i] \in Conversation
    BY <1>2 DEF ChatsOK
  <2>3. selected \in ChatId
    BY <2>1, <2>2 DEF Conversation
  <2>4. PICK n \in Nat : n = counts.messages /\ n + 3 <= 3 * MaxSends
    BY <1>4
  <2> QED  BY <1>4, <2>3, <2>4 DEF MessageId
<1>6. /\ counts' \in Counts /\ counts'.messages = counts.messages + 2
      /\ counts'.sends = counts.sends + 1 /\ counts'.chats = counts.chats
  <2>1. counts' = [counts EXCEPT !.messages = @ + 2, !.sends = @ + 1]
    BY <1>1
  <2>2. counts.messages + 2 \in 0..(3 * MaxSends) /\ counts.sends + 1 \in 0..MaxSends
    BY <1>1, <1>4
  <2>3. counts \in Counts
    BY <1>4
  <2> QED  BY <2>1, <2>2, <2>3 DEF Counts
<1>7. /\ um \in Message /\ am \in Message /\ um.id = user /\ am.id = a
      /\ um.content = <<>> /\ am.content = <<>> /\ am.role = "Assistant"
  BY <1>5 DEF Message
<1> HIDE DEF um, am
<1>8. old \in Seq(Message) /\ \A m \in Range(old) : In(selected, m)
  BY <1>2, MessagesThere DEF ChatsOK
<1> HIDE DEF old
<1>9. messages \in Seq(Message) /\ \A m \in Range(messages) : m \in Range(old) \/ m \in {um, am}
  <2>1. <<um, am>> \in Seq(Message) /\ Len(<<um, am>>) = 2
        /\ <<um, am>>[1] = um /\ <<um, am>>[2] = am
    BY <1>7
  <2> DEFINE new == <<um, am>>
  <2> HIDE DEF new
  <2>2. /\ old \o new \in Seq(Message) /\ Len(old \o new) = Len(old) + Len(new)
        /\ \A k \in 1..(Len(old) + Len(new)) :
             (old \o new)[k] = IF k <= Len(old) THEN old[k] ELSE new[k - Len(old)]
    BY <1>8, <2>1, ConcatProperties DEF new
  <2>3. ASSUME NEW k \in 1..(Len(old) + Len(new))
        PROVE  (old \o new)[k] \in Range(old) \/ (old \o new)[k] \in {um, am}
    <3>1. Len(old) \in Nat /\ DOMAIN old = 1..Len(old) /\ Len(new) = 2
      BY <1>8, <2>1 DEF new
    <3>2. CASE k <= Len(old)
      BY <2>2, <3>1, <3>2 DEF Range
    <3>3. CASE ~(k <= Len(old))
      <4>1. k - Len(old) = 1 \/ k - Len(old) = 2
        BY <3>1, <3>3
      <4> QED  BY <2>1, <2>2, <3>3, <4>1 DEF new
    <3> QED  BY <3>2, <3>3
  <2>4. DOMAIN (old \o new) = 1..(Len(old) + Len(new))
    BY <2>2
  <2> QED  BY <2>2, <2>3, <2>4 DEF Range, new
<1> HIDE DEF messages
<1>10. /\ quoted \in Seq(Message)
       /\ \A m \in Range(quoted) : m \in Range(old) \/ m = um
  <2>1. /\ quoted \in Seq(Message)
        /\ \A m \in Range(quoted) :
             /\ m \in Range(messages)
             /\ m.role = "User" \/ (m.role = "Assistant" /\ m.content # <<>>)
    BY <1>9, OnlyKeeps DEF FromConversation
  <2> QED  BY <1>7, <1>9, <2>1
<1> HIDE DEF quoted
<1>11. /\ s \in ActiveStream /\ s.assistant_message = a /\ s.conversation = selected
       /\ t \in Stream /\ t.phase = "connecting" /\ t.conversation = selected
       /\ t.request = quoted /\ t.heard = 0
  BY <1>5, <1>10, HarnessAssumption DEF ActiveStream, Stream
<1> HIDE DEF s, t
<1>12. ASSUME NEW c, NEW m, In(c, m)'
       PROVE  In(c, m) \/ (c = selected /\ m \in {um, am})
  <2>1. \A d, x : In(d, x)' => IF d = selected THEN x \in Range(messages) ELSE In(d, x)
    <3>1. ChatsOK /\ messages \in Seq(Message) /\ chats' = WithMessages(selected, messages)
      BY <1>1, <1>2, <1>9
    <3> QED  BY <3>1, WithMessagesShow
  <2> QED  BY <1>8, <1>9, <1>12, <2>1
<1>13. ChatsOK'
  BY <1>1, <1>2, <1>6, <1>9, WithMessagesOK
<1>14. CountsOK' /\ ActiveOK'
  BY <1>1, <1>2, <1>4, <1>6, <1>11 DEF CountsOK, ActiveOK
<1>15. \A b \in DOMAIN streams : b # a /\ streams'[b] = streams[b] /\ b <= counts.messages /\ b \in Nat
  BY <1>1, <1>2, <1>4 DEF ThreadsOK, MessageId
<1>16. DOMAIN streams' = DOMAIN streams \cup {a} /\ streams'[a] = t
  BY <1>1
<1>17. ThreadsOK'
  BY <1>1, <1>2, <1>4, <1>5, <1>6, <1>11, <1>15, <1>16 DEF ThreadsOK
<1>18. ASSUME NEW b PROVE Waiting(b)' = 0 /\ Waiting(b) = 0
  <2>1. Waiting(b) = 0
    BY <1>1 DEF Waiting
  <2>2. b = a => Live(b)'
    BY <1>11, <1>16 DEF Live
  <2>3. Len(events') = 0
    BY <1>1, <1>3
  <2>4. CASE b = a
    <3>1. \E r \in active' : r.assistant_message = b
      BY <1>1, <1>11, <2>4
    <3>2. Waiting(b)' = IF Live(b)' THEN Len(events') ELSE Len(events') - 1
      BY <3>1 DEF Waiting
    <3> QED  BY <2>1, <2>2, <2>3, <2>4, <3>2
  <2>5. CASE b # a
    <3>1. ~\E r \in active' : r.assistant_message = b
      BY <1>1, <1>11, <2>5
    <3> QED  BY <2>1, <3>1 DEF Waiting
  <2> QED  BY <2>4, <2>5
<1>19. WaitInv'
  BY <1>1, <1>11, <1>16, <1>18 DEF WaitInv
<1>20. \A c, m : In(c, m) => m.id <= counts.messages /\ m.id \in Nat /\ m.id # a /\ m.id # user
  <2> SUFFICES ASSUME NEW c, NEW m, In(c, m)
               PROVE  m.id <= counts.messages /\ m.id \in Nat
    BY <1>4
  <2> QED  BY <1>2, ShownTypes DEF XInv, TextInv
<1>21. TextInv'
  <2> SUFFICES ASSUME NEW c, NEW m, In(c, m)'
               PROVE  /\ m.id <= counts'.messages
                      /\ m.content = UpTo(m.id, Len(m.content))
                      /\ m.id \in DOMAIN streams' =>
                           /\ c = streams'[m.id].conversation
                           /\ Len(m.content) = streams'[m.id].heard - Waiting(m.id)'
    BY DEF TextInv
  <2>1. CASE In(c, m)
    BY <1>4, <1>6, <1>15, <1>16, <1>18, <1>20, <2>1 DEF XInv, TextInv
  <2>2. CASE c = selected /\ m \in {um, am}
    <3>1. m.content = <<>> /\ Len(m.content) = 0 /\ m.id \in {user, a}
      BY <1>7, <2>2
    <3>2. m.content = UpTo(m.id, Len(m.content))
      BY <3>1 DEF UpTo
    <3>3. m.id <= counts'.messages
      BY <1>4, <1>6, <3>1
    <3>4. m.id \in DOMAIN streams' => m.id = a
      BY <1>4, <1>15, <1>16, <3>1
    <3> QED  BY <1>11, <1>16, <1>18, <2>2, <3>1, <3>2, <3>3, <3>4
  <2> QED  BY <1>12, <2>1, <2>2
<1>22. SameText'
  <2> SUFFICES ASSUME NEW c, NEW d, NEW m, NEW x, In(c, m)', In(d, x)', m.id = x.id
               PROVE  m.content = x.content
    BY DEF SameText
  <2>1. CASE In(c, m) /\ In(d, x)
    BY <2>1 DEF XInv, SameText
  <2>2. CASE m \in {um, am} /\ x \in {um, am}
    BY <1>7, <2>2
  <2> QED  BY <1>7, <1>12, <1>20, <2>1, <2>2
<1>23. QuoteInv'
  <2> SUFFICES ASSUME NEW b \in DOMAIN streams', NEW m \in Range(streams'[b].request)
               PROVE  m.id < b /\ \A c, x : In(c, x)' /\ x.id = m.id => x.content = m.content
    BY DEF QuoteInv
  <2>1. CASE b \in DOMAIN streams
    <3>1. m \in Range(streams[b].request) /\ b <= counts.messages /\ b \in Nat
      BY <1>15, <2>1
    <3>2. m.id < b /\ \A c, x : In(c, x) /\ x.id = m.id => x.content = m.content
      BY <2>1, <3>1 DEF XInv, QuoteInv
    <3>3. m.id # user /\ m.id # a
      BY <1>4, <3>1, <3>2
    <3> QED  BY <1>7, <1>12, <3>2, <3>3
  <2>2. CASE b = a
    <3>1. m \in Range(quoted)
      BY <1>11, <1>16, <2>2
    <3>2. CASE m \in Range(old)
      <4>1. In(selected, m)
        BY <1>8, <3>2
      <4>2. m.id < a
        BY <1>4, <1>20, <4>1
      <4>3. ASSUME NEW c, NEW x, In(c, x)', x.id = m.id PROVE x.content = m.content
        BY <1>7, <1>12, <1>20, <4>1, <4>3 DEF XInv, SameText
      <4> QED  BY <2>2, <4>2, <4>3
    <3>3. CASE m = um
      <4>1. m.id < a
        BY <1>5, <1>7, <3>3
      <4>2. ASSUME NEW c, NEW x, In(c, x)', x.id = m.id PROVE x.content = m.content
        BY <1>5, <1>7, <1>12, <1>20, <3>3, <4>2
      <4> QED  BY <2>2, <4>1, <4>2
    <3> QED  BY <1>10, <3>1, <3>2, <3>3
  <2> QED  BY <1>16, <2>1, <2>2
<1> QED  BY <1>13, <1>14, <1>17, <1>19, <1>21, <1>22, <1>23 DEF TInv, XInv

(* The program is opened again with the conversations it saved.            *)
LEMMA ReopenShows ==
  ASSUME TInv, XInv, Reopen
  PROVE  TInv' /\ XInv'
<1>1. /\ counts.reopens < MaxReopens /\ counts' = [counts EXCEPT !.reopens = @ + 1]
      /\ active' = {} /\ events' = <<>> /\ streams' = <<>> /\ UNCHANGED <<chats, selected>>
  BY DEF Reopen
<1>2. /\ counts' \in Counts /\ counts'.messages = counts.messages
      /\ counts'.sends = counts.sends /\ counts'.chats = counts.chats
  BY <1>1, HarnessAssumption DEF TInv, CountsOK, Counts
<1>3. DOMAIN streams' = {}
  BY <1>1
<1>4. TInv'
  BY <1>1, <1>2, <1>3 DEF TInv, ChatsOK, CountsOK, ThreadsOK, ActiveOK
<1>5. \A c, m : In(c, m)' <=> In(c, m)
  BY <1>1 DEF In
<1>6. XInv'
  BY <1>1, <1>2, <1>3, <1>5 DEF XInv, WaitInv, TextInv, SameText, QuoteInv
<1> QED  BY <1>4, <1>6

-----------------------------------------------------------------------------
(* The threads: no conversation changes.                                   *)

LEMMA SameChats ==
  ASSUME XInv, UNCHANGED <<chats, counts>>, DOMAIN streams' = DOMAIN streams,
         WaitInv',
         \A a \in DOMAIN streams :
           /\ streams'[a].conversation = streams[a].conversation
           /\ streams'[a].request = streams[a].request
           /\ streams'[a].heard - Waiting(a)' = streams[a].heard - Waiting(a)
  PROVE  XInv'
<1>1. \A c, m : In(c, m)' <=> In(c, m)
  BY DEF In
<1> QED  BY <1>1 DEF XInv, TextInv, SameText, QuoteInv

(* The queue of a thread that runs holds its text and nothing else.        *)
LEMMA Running ==
  ASSUME Inv, TInv, NEW a \in DOMAIN streams, Live(a)
  PROVE  /\ \E s \in active : s.assistant_message = a /\ active = {s}
         /\ Waiting(a) = Len(events) /\ Len(events) \in Nat /\ events \in Seq(Event)
         /\ streams[a] \in Stream /\ a \in MessageId
         /\ \A b : b # a => Waiting(b) = 0
<1>1. PICK s \in active : s.assistant_message = a
  BY RunsForActive
<1>2. active = {s}
  BY <1>1 DEF Inv, ActiveInv
<1>3. events \in Seq(Event) /\ streams[a] \in Stream /\ a \in MessageId
  BY DEF TInv, ActiveOK, ThreadsOK
<1> QED  BY <1>1, <1>2, <1>3 DEF Waiting

LEMMA EndsShows ==
  ASSUME Inv, TInv, XInv, NEW a \in DOMAIN streams, Live(a),
         NEW kind \in {"Completed", "Cancelled", "Failed"}, Ends(a, kind)
  PROVE  TInv' /\ XInv'
<1> DEFINE e == [kind |-> kind, conversation |-> streams[a].conversation]
<1>1. PICK s \in active : s.assistant_message = a /\ active = {s}
  BY Running
<1>2. /\ events' = Append(events, e) /\ streams' = [streams EXCEPT ![a].phase = "over"]
      /\ UNCHANGED <<chats, active, selected, counts>>
  BY DEF Ends, ThreadOthers
<1>3. streams[a] \in Stream /\ events \in Seq(Event)
  BY Running
<1>4. e \in Event
  BY <1>3 DEF Event, Stream
<1> HIDE DEF e
<1>5. /\ events' \in Seq(Event) /\ Len(events') = Len(events) + 1 /\ Len(events) \in Nat
      /\ \A k \in 1..Len(events) : events'[k] = events[k]
  BY <1>2, <1>3, <1>4
<1>6. ASSUME NEW b \in DOMAIN streams
      PROVE  /\ streams'[b] \in Stream /\ streams'[b].conversation = streams[b].conversation
             /\ streams'[b].request = streams[b].request /\ streams'[b].heard = streams[b].heard
  <2>1. streams[b] \in Stream
    BY DEF TInv, ThreadsOK
  <2> QED  BY <1>2, <2>1 DEF Stream
<1>7. DOMAIN streams' = DOMAIN streams /\ ~Live(a)'
  BY <1>2, <1>3 DEF Live, Stream
<1>8. TInv'
  BY <1>2, <1>5, <1>6, <1>7 DEF TInv, ChatsOK, CountsOK, ThreadsOK, ActiveOK
<1>9. Waiting(a)' = Len(events) /\ Waiting(a) = Len(events) /\ \A b : b # a => Waiting(b)' = Waiting(b)
  <2>1. Waiting(a)' = Len(events') - 1
    BY <1>1, <1>2, <1>7 DEF Waiting
  <2>2. \A b : b # a => Waiting(b)' = 0
    BY <1>1, <1>2 DEF Waiting
  <2> QED  BY <1>5, <2>1, <2>2, Running
<1>10. WaitInv'
  BY <1>1, <1>2, <1>5, <1>6, <1>9 DEF XInv, WaitInv
<1>11. \A b \in DOMAIN streams : streams'[b].heard - Waiting(b)' = streams[b].heard - Waiting(b)
  BY <1>6, <1>9
<1> QED  BY <1>2, <1>6, <1>7, <1>8, <1>10, <1>11, SameChats

LEMMA ReadDeltaShows ==
  ASSUME Inv, TInv, XInv, NEW a \in DOMAIN streams, ReadDelta(a)
  PROVE  TInv' /\ XInv'
<1> DEFINE e == [kind |-> "Delta", conversation |-> streams[a].conversation,
                 message |-> a, n |-> streams[a].heard + 1]
<1>0. Live(a)
  BY DEF ReadDelta, Live
<1>1. PICK s \in active : s.assistant_message = a /\ active = {s}
  BY <1>0, Running
<1>2. /\ streams[a].heard < MaxDeltas
      /\ events' = Append(events, e) /\ streams' = [streams EXCEPT ![a].heard = @ + 1]
      /\ UNCHANGED <<chats, active, selected, counts>>
  BY DEF ReadDelta, ThreadOthers
<1>3. /\ streams[a] \in Stream /\ events \in Seq(Event) /\ a \in MessageId /\ MaxDeltas \in Nat
      /\ Waiting(a) = Len(events)
  BY <1>0, Running, HarnessAssumption
<1>4. streams[a].heard \in Nat /\ streams[a].heard + 1 \in 1..MaxDeltas
      /\ streams[a].conversation \in ChatId
  BY <1>2, <1>3 DEF Stream
<1>5. e \in Event /\ e.message = a /\ e.n = streams[a].heard + 1
  BY <1>3, <1>4 DEF Event
<1> HIDE DEF e
<1>6. /\ events' \in Seq(Event) /\ Len(events') = Len(events) + 1 /\ Len(events) \in Nat
      /\ events'[Len(events) + 1] = e
      /\ \A k \in 1..Len(events) : events'[k] = events[k]
  BY <1>2, <1>3, <1>5
<1>7. ASSUME NEW b \in DOMAIN streams
      PROVE  /\ streams'[b] \in Stream /\ streams'[b].conversation = streams[b].conversation
             /\ streams'[b].request = streams[b].request
             /\ streams'[b].heard = IF b = a THEN streams[a].heard + 1 ELSE streams[b].heard
             /\ streams[b].heard \in Nat
  <2>1. streams[b] \in Stream
    BY DEF TInv, ThreadsOK
  <2>2. CASE b # a
    <3>1. streams'[b] = streams[b] /\ streams[b].heard \in Nat
      BY <1>2, <2>1, <2>2 DEF Stream
    <3> QED  BY <2>1, <2>2, <3>1
  <2>3. CASE b = a
    <3>1. streams'[a] = [streams[a] EXCEPT !.heard = @ + 1]
      BY <1>2, <2>3
    <3> QED  BY <1>3, <1>4, <2>3, <3>1 DEF Stream
  <2> QED  BY <2>2, <2>3
<1>8. DOMAIN streams' = DOMAIN streams /\ Live(a)'
  BY <1>0, <1>2, <1>3 DEF Live, Stream
<1>9. TInv'
  BY <1>2, <1>6, <1>7, <1>8 DEF TInv, ChatsOK, CountsOK, ThreadsOK, ActiveOK
<1>10. Waiting(a)' = Len(events) + 1 /\ \A b : b # a => Waiting(b)' = Waiting(b)
  <2>1. Waiting(a)' = Len(events')
    BY <1>1, <1>2, <1>8 DEF Waiting
  <2>2. \A b : b # a => Waiting(b)' = 0
    BY <1>1, <1>2 DEF Waiting
  <2> QED  BY <1>0, <1>6, <2>1, <2>2, Running
<1>11. WaitInv'
  <2> SUFFICES /\ Waiting(a)' <= streams'[a].heard
               /\ \A k \in 1..Waiting(a)' :
                    events'[k].message = a /\ events'[k].n = streams'[a].heard - Waiting(a)' + k
    BY <1>1, <1>2 DEF WaitInv
  <2>1. /\ Waiting(a) <= streams[a].heard
        /\ \A k \in 1..Waiting(a) :
             events[k].message = a /\ events[k].n = streams[a].heard - Waiting(a) + k
    BY <1>1 DEF XInv, WaitInv
  <2>2. streams'[a].heard - Waiting(a)' = streams[a].heard - Waiting(a)
    BY <1>3, <1>4, <1>6, <1>7, <1>10
  <2>3. ASSUME NEW k \in 1..(Len(events) + 1)
        PROVE  events'[k].message = a /\ events'[k].n = streams[a].heard - Waiting(a) + k
    <3>1. CASE k \in 1..Len(events)
      BY <1>3, <1>6, <2>1, <3>1
    <3>2. CASE k = Len(events) + 1
      BY <1>3, <1>4, <1>5, <1>6, <3>2
    <3> QED  BY <1>6, <3>1, <3>2
  <2> QED  BY <1>3, <1>4, <1>6, <1>7, <1>10, <2>1, <2>2, <2>3
<1>12. \A b \in DOMAIN streams : streams'[b].heard - Waiting(b)' = streams[b].heard - Waiting(b)
  <2> SUFFICES ASSUME NEW b \in DOMAIN streams
               PROVE  streams'[b].heard - Waiting(b)' = streams[b].heard - Waiting(b)
    OBVIOUS
  <2>1. CASE b = a
    <3>1. PICK n, l \in Nat : n = streams[a].heard /\ l = Len(events)
      BY <1>4, <1>6
    <3>2. streams'[a].heard = n + 1 /\ Waiting(a)' = l + 1 /\ Waiting(a) = l
      BY <1>3, <1>7, <1>10, <3>1
    <3>3. (n + 1) - (l + 1) = n - l
      OBVIOUS
    <3> QED  BY <2>1, <3>1, <3>2, <3>3
  <2>2. CASE b # a
    BY <1>7, <1>10, <2>2
  <2> QED  BY <2>1, <2>2
<1> QED  BY <1>2, <1>7, <1>8, <1>9, <1>11, <1>12, SameChats

LEMMA ThreadShows ==
  ASSUME Inv, TInv, XInv, NEW a \in DOMAIN streams, Server(a) \/ Cancelled(a)
  PROVE  TInv' /\ XInv'
<1>1. ASSUME NEW phase \in {"reading", "refused"}, Live(a),
             streams' = [streams EXCEPT ![a].phase = phase],
             UNCHANGED <<events, ThreadOthers>>
      PROVE  TInv' /\ XInv'
  <2>1. UNCHANGED <<chats, active, events, selected, counts>> /\ DOMAIN streams' = DOMAIN streams
    BY <1>1 DEF ThreadOthers
  <2>2. ASSUME NEW b \in DOMAIN streams
        PROVE  /\ streams'[b] \in Stream /\ streams'[b].conversation = streams[b].conversation
               /\ streams'[b].request = streams[b].request /\ streams'[b].heard = streams[b].heard
               /\ Live(b)' = Live(b)
    <3>1. streams[b] \in Stream
      BY DEF TInv, ThreadsOK
    <3> QED  BY <1>1, <3>1 DEF Stream, Live
  <2>3. ChatsOK' /\ Fewer /\ SameCounts
    BY <2>1 DEF TInv, ChatsOK, Fewer, In, SameCounts, CountsOK
  <2>4. SameThreads
    BY <2>1, <2>2 DEF SameThreads
  <2> QED  BY <2>1, <2>3, <2>4, QuietKeeps
<1>2. CASE Respond(a)
  <2>1. Live(a)
    BY <1>2 DEF Respond, Live
  <2>2. CASE Ends(a, "Failed")
    BY <2>1, <2>2, EndsShows
  <2>3. CASE ~Ends(a, "Failed")
    <3>1. PICK phase \in {"reading", "refused"} :
            /\ streams' = [streams EXCEPT ![a].phase = phase]
            /\ UNCHANGED <<events, ThreadOthers>>
      BY <1>2, <2>3 DEF Respond
    <3> QED  BY <1>1, <2>1, <3>1
  <2> QED  BY <2>2, <2>3
<1>3. CASE ReadDelta(a)
  BY <1>3, ReadDeltaShows
<1>4. CASE ReadEnd(a)
  <2>1. PICK kind \in {"Completed", "Failed"} : Ends(a, kind)
    BY <1>4 DEF ReadEnd
  <2> QED  BY <1>4, <2>1, EndsShows DEF ReadEnd, Live
<1>5. CASE Refused(a)
  BY <1>5, EndsShows DEF Refused, Live
<1>6. CASE Cancelled(a)
  BY <1>6, EndsShows DEF Cancelled, Live
<1> QED  BY <1>2, <1>3, <1>4, <1>5, <1>6 DEF Server

-----------------------------------------------------------------------------
(* The interface processes the first event of the queue.                   *)

(* It is of the active stream: its next piece of text, or its end.         *)
LEMMA FirstEvent ==
  ASSUME Inv, TInv, XInv, events # <<>>
  PROVE  \E s \in active :
           /\ active = {s} /\ s.assistant_message \in DOMAIN streams
           /\ streams[s.assistant_message].conversation = s.conversation
           /\ Head(events) \in Event /\ Head(events) = events[1]
           /\ Tail(events) \in Seq(Event) /\ Len(events) \in Nat \ {0}
           /\ Len(Tail(events)) = Len(events) - 1
           /\ \A k \in 1..(Len(events) - 1) : Tail(events)[k] = events[k + 1]
           /\ Head(events).conversation = s.conversation
           /\ Head(events).kind = "Delta" => Waiting(s.assistant_message) >= 1
           /\ Head(events).kind # "Delta" => Len(events) = 1 /\ Waiting(s.assistant_message) = 0
<1>1. PICK s \in active : active = {s} /\ ThreadOf(s) /\ QueueOf(s)
  BY DEF Inv, Quiet, ActiveInv
<1>2. events \in Seq(Event)
  BY DEF TInv, ActiveOK
<1>3. /\ Head(events) \in Event /\ Head(events) = events[1]
      /\ Tail(events) \in Seq(Event) /\ Len(events) \in Nat \ {0}
      /\ Len(Tail(events)) = Len(events) - 1
      /\ \A k \in 1..(Len(events) - 1) : Tail(events)[k] = events[k + 1]
  BY <1>2
<1>4. 1 \in 1..Len(events) /\ Len(events) \in 1..Len(events)
  BY <1>3
<1>5. Waiting(s.assistant_message) =
        IF Live(s.assistant_message) THEN Len(events) ELSE Len(events) - 1
  BY <1>1 DEF Waiting
<1>6. ASSUME events[1].kind = "Delta" PROVE Waiting(s.assistant_message) >= 1
  <2>1. ~Live(s.assistant_message) => Len(events) # 1
    BY <1>1, <1>6 DEF QueueOf
  <2> QED  BY <1>3, <1>5, <2>1
<1>7. ASSUME events[1].kind # "Delta"
      PROVE  Len(events) = 1 /\ Waiting(s.assistant_message) = 0
  <2>1. ~Live(s.assistant_message)
    BY <1>1, <1>4, <1>7 DEF QueueOf
  <2>2. ~(1 \in 1..(Len(events) - 1))
    BY <1>1, <1>7, <2>1 DEF QueueOf
  <2> QED  BY <1>3, <1>5, <2>1, <2>2
<1>8. events[1].conversation = s.conversation
  BY <1>1, <1>4 DEF QueueOf
<1> QED  BY <1>1, <1>3, <1>6, <1>7, <1>8 DEF ThreadOf

(* The message that an event's text is for grows by it.                    *)
GrownBy(e, c, m) == IF c = e.conversation THEN Grown(m, e) ELSE m

LEMMA DeltaShows ==
  ASSUME ChatsOK, NEW e, e.message \in MessageId, e.n \in 1..MaxDeltas, Delta(e),
         UNCHANGED <<selected, counts>>
  PROVE  /\ ChatsOK'
         /\ \A c, m : In(c, m)' => \E x : In(c, x) /\ m = GrownBy(e, c, x)
<1>1. /\ chats \in Seq(Conversation) /\ Len(chats) \in Nat /\ DOMAIN chats = 1..Len(chats)
      /\ \A i \in 1..Len(chats) : chats[i] \in Conversation
  BY DEF ChatsOK
<1> DEFINE Grow(i) == [j \in DOMAIN chats[i].messages |-> GrownBy(e, chats[i].id, chats[i].messages[j])]
<1>2. ASSUME NEW i \in 1..Len(chats)
      PROVE  /\ chats[i].messages \in Seq(Message) /\ Len(chats[i].messages) \in Nat
             /\ DOMAIN chats[i].messages = 1..Len(chats[i].messages)
             /\ \A j \in 1..Len(chats[i].messages) : chats[i].messages[j] \in Message
  <2>1. chats[i].messages \in Seq(Message)
    BY <1>1 DEF Conversation
  <2> QED  BY <2>1
<1>3. ASSUME NEW m \in Message, NEW c PROVE GrownBy(e, c, m) \in Message
  <2>1. m.content \in Seq(MessageId \X (1..MaxDeltas))
    BY DEF Message
  <2>2. Text(e.message, e.n) \in MessageId \X (1..MaxDeltas)
    BY DEF Text
  <2>3. Append(m.content, Text(e.message, e.n)) \in Seq(MessageId \X (1..MaxDeltas))
    BY <2>1, <2>2, AppendProperties
  <2> QED  BY <2>3 DEF GrownBy, Grown, Message
<1>4. ASSUME NEW i \in 1..Len(chats)
      PROVE  Grow(i) \in Seq(Message) /\ Len(Grow(i)) = Len(chats[i].messages)
             /\ \A j \in 1..Len(chats[i].messages) :
                  Grow(i)[j] = GrownBy(e, chats[i].id, chats[i].messages[j])
  BY <1>2, <1>3
<1>5. ASSUME NEW i \in 1..Len(chats)
      PROVE  chats'[i].id = chats[i].id /\ chats'[i].messages = Grow(i) /\ chats'[i] \in Conversation
  <2>1. chats[i] \in Conversation
    BY <1>1
  <2>2. CASE chats[i].id = e.conversation
    <3>1. chats'[i] = [chats[i] EXCEPT !.messages = Grow(i)]
      BY <1>1, <2>2 DEF Delta, GrownBy
    <3> QED  BY <1>4, <2>1, <3>1 DEF Conversation
  <2>3. CASE chats[i].id # e.conversation
    <3>1. chats'[i] = chats[i]
      BY <1>1, <2>3 DEF Delta
    <3>2. Grow(i) = chats[i].messages
      BY <1>2, <2>3 DEF GrownBy
    <3> QED  BY <2>1, <3>1, <3>2
  <2> QED  BY <2>2, <2>3
<1> HIDE DEF Grow
<1>6. chats' \in Seq(Conversation) /\ Len(chats') = Len(chats)
  <2>1. chats' = [i \in 1..Len(chats) |-> chats'[i]]
    BY <1>1 DEF Delta
  <2> QED  BY <1>1, <1>5, <2>1
<1>7. ChatsOK'
  BY <1>5, <1>6 DEF ChatsOK
<1>8. ASSUME NEW c, NEW m, In(c, m)'
      PROVE  \E x : In(c, x) /\ m = GrownBy(e, c, x)
  <2>1. PICK i \in 1..Len(chats) :
          chats'[i].id = c /\ \E j \in 1..Len(chats'[i].messages) : chats'[i].messages[j] = m
    BY <1>6, <1>8 DEF In
  <2>2. PICK j \in 1..Len(chats[i].messages) : m = GrownBy(e, chats[i].id, chats[i].messages[j])
    BY <1>4, <1>5, <2>1
  <2> QED  BY <1>5, <2>1, <2>2 DEF In
<1> QED  BY <1>7, <1>8

LEMMA ErrorShows ==
  ASSUME ChatsOK, CountsOK, active # {}, NEW e, e.conversation \in ChatId,
         chats' = ErrorMessage(e), UNCHANGED selected,
         counts' = [counts EXCEPT !.messages = @ + 1]
  PROVE  /\ ChatsOK' /\ counts' \in Counts
         /\ counts'.messages = counts.messages + 1 /\ counts'.sends = counts.sends
         /\ \A c, m : In(c, m)' =>
              In(c, m) \/ (m.id = counts.messages + 1 /\ m.content = <<>>)
<1> DEFINE em == [id |-> counts.messages + 1, role |-> "Error", content |-> <<>>]
<1>1. /\ counts \in Counts /\ counts.messages \in Nat /\ counts.messages + 1 <= 3 * MaxSends
      /\ MaxSends \in Nat
  BY HarnessAssumption DEF CountsOK, Counts
<1>2. /\ counts' \in Counts /\ counts'.chats = counts.chats
      /\ counts'.messages = counts.messages + 1 /\ counts'.sends = counts.sends
  BY <1>1 DEF Counts
<1>3. em \in Message /\ em.id = counts.messages + 1 /\ em.content = <<>>
  BY <1>1 DEF Message, MessageId
<1> HIDE DEF em
<1>4. CASE e.conversation \in IdsOf(chats)
  <2> DEFINE old == MessagesOf(e.conversation)
             messages == Append(old, em)
  <2>1. \E i \in 1..Len(chats) : chats[i].id = e.conversation
    <3>1. DOMAIN chats = 1..Len(chats)
      BY DEF ChatsOK
    <3> QED  BY <1>4, <3>1 DEF IdsOf
  <2>2. old \in Seq(Message) /\ \A m \in Range(old) : In(e.conversation, m)
    BY <2>1, MessagesThere
  <2>3. chats' = WithMessages(e.conversation, messages)
    BY <1>4 DEF ErrorMessage, em
  <2> HIDE DEF old
  <2>4. messages \in Seq(Message) /\ \A m \in Range(messages) : m \in Range(old) \/ m = em
    <3>1. /\ messages \in Seq(Message) /\ Len(messages) = Len(old) + 1
          /\ messages[Len(old) + 1] = em
          /\ \A k \in 1..Len(old) : messages[k] = old[k]
      BY <1>3, <2>2, AppendProperties
    <3>2. DOMAIN messages = 1..(Len(old) + 1) /\ DOMAIN old = 1..Len(old) /\ Len(old) \in Nat
      BY <2>2, <3>1
    <3>3. \A k \in 1..(Len(old) + 1) : k \in 1..Len(old) \/ k = Len(old) + 1
      BY <3>2
    <3> HIDE DEF messages
    <3> QED  BY <3>1, <3>2, <3>3 DEF Range
  <2> HIDE DEF messages
  <2>5. ChatsOK'
    BY <1>2, <2>3, <2>4, WithMessagesOK
  <2>6. \A c, m : In(c, m)' => IF c = e.conversation THEN m \in Range(messages) ELSE In(c, m)
    BY <2>3, <2>4, WithMessagesShow
  <2> QED  BY <1>2, <1>3, <2>2, <2>4, <2>5, <2>6
<1>5. CASE e.conversation \notin IdsOf(chats)
  <2>1. chats' = chats
    BY <1>5 DEF ErrorMessage
  <2> QED  BY <1>2, <2>1 DEF ChatsOK, In
<1> QED  BY <1>4, <1>5

(* One more piece of text.                                                 *)
LEMMA UpToGrows ==
  ASSUME NEW a, NEW l \in Nat
  PROVE  Append(UpTo(a, l), Text(a, l + 1)) = UpTo(a, l + 1) /\ Len(UpTo(a, l + 1)) = l + 1
<1> DEFINE T == {Text(a, i) : i \in Nat}
<1>1. UpTo(a, l) \in Seq(T) /\ UpTo(a, l + 1) \in Seq(T) /\ Text(a, l + 1) \in T
  BY DEF UpTo
<1>2. Len(UpTo(a, l)) = l /\ Len(UpTo(a, l + 1)) = l + 1
  BY DEF UpTo
<1>3. /\ Append(UpTo(a, l), Text(a, l + 1)) \in Seq(T)
      /\ Len(Append(UpTo(a, l), Text(a, l + 1))) = l + 1
      /\ \A i \in 1..l : Append(UpTo(a, l), Text(a, l + 1))[i] = UpTo(a, l)[i]
      /\ Append(UpTo(a, l), Text(a, l + 1))[l + 1] = Text(a, l + 1)
  BY <1>1, <1>2, AppendProperties
<1>4. \A i \in 1..(l + 1) : Append(UpTo(a, l), Text(a, l + 1))[i] = UpTo(a, l + 1)[i]
  <2>1. /\ \A i \in 1..l : UpTo(a, l)[i] = Text(a, i)
        /\ \A i \in 1..(l + 1) : UpTo(a, l + 1)[i] = Text(a, i)
    BY DEF UpTo
  <2> QED  BY <1>3, <2>1
<1> HIDE DEF T
<1> QED  BY <1>1, <1>2, <1>3, <1>4, SeqEqual

(* The queue is one event shorter, and the message one piece longer.       *)
LEMMA TextShows ==
  ASSUME Inv, TInv, XInv, ProcessEvent, Head(events).kind = "Delta"
  PROVE  TInv' /\ XInv'
<1>1. PICK s \in active :
        /\ active = {s} /\ s.assistant_message \in DOMAIN streams
        /\ streams[s.assistant_message].conversation = s.conversation
        /\ Head(events) \in Event /\ Head(events) = events[1]
        /\ Tail(events) \in Seq(Event) /\ Len(events) \in Nat \ {0}
        /\ Len(Tail(events)) = Len(events) - 1
        /\ \A k \in 1..(Len(events) - 1) : Tail(events)[k] = events[k + 1]
        /\ Head(events).conversation = s.conversation
        /\ Waiting(s.assistant_message) >= 1
  <2>1. events # <<>>
    BY DEF ProcessEvent
  <2> QED  BY <2>1, FirstEvent
<1>2. PICK e, a, w : e = Head(events) /\ a = s.assistant_message /\ w = Waiting(a)
  OBVIOUS
<1>3. /\ events' = Tail(events) /\ Delta(e) /\ UNCHANGED <<counts, selected, streams>>
      /\ active' = {s}
  BY <1>1, <1>2 DEF ProcessEvent
<1>4. streams[a] \in Stream /\ a \in MessageId /\ a <= counts.messages /\ counts.messages \in Nat
  BY <1>1, <1>2 DEF TInv, ThreadsOK, CountsOK, Counts
<1>5. /\ w \in Nat /\ w >= 1 /\ w <= Len(events) /\ streams[a].heard \in Nat
      /\ w = IF Live(a) THEN Len(events) ELSE Len(events) - 1
  BY <1>1, <1>2, <1>4 DEF Waiting, Stream
<1>6. /\ w <= streams[a].heard
      /\ \A k \in 1..w : events[k].message = a /\ events[k].n = streams[a].heard - w + k
  BY <1>1, <1>2 DEF XInv, WaitInv
<1>7. e.message = a /\ e.n = streams[a].heard - w + 1 /\ e.conversation = streams[a].conversation
  <2>1. e = events[1] /\ e.conversation = streams[a].conversation
    BY <1>1, <1>2
  <2>2. 1 \in 1..w
    BY <1>5
  <2> QED  BY <1>6, <2>1, <2>2
<1>8. e.n \in 1..MaxDeltas
  BY <1>4, <1>5, <1>6, <1>7, HarnessAssumption DEF Stream
<1>9. ChatsOK' /\ \A c, m : In(c, m)' => \E x : In(c, x) /\ m = GrownBy(e, c, x)
  BY <1>3, <1>4, <1>7, <1>8, DeltaShows DEF TInv
<1>10. TInv'
  BY <1>1, <1>3, <1>9 DEF TInv, CountsOK, ThreadsOK, ActiveOK
<1>11. Waiting(a)' = w - 1 /\ \A b : b # a => Waiting(b)' = Waiting(b)
  <2>1. Live(a)' = Live(a)
    BY <1>3 DEF Live
  <2>2. Waiting(a)' = IF Live(a) THEN Len(events') ELSE Len(events') - 1
    BY <1>1, <1>2, <1>3, <2>1 DEF Waiting
  <2>3. \A b : b # a => Waiting(b)' = 0 /\ Waiting(b) = 0
    BY <1>1, <1>2, <1>3 DEF Waiting
  <2> QED  BY <1>1, <1>3, <1>5, <2>2, <2>3
<1>12. WaitInv'
  <2> SUFFICES /\ Waiting(a)' <= streams[a].heard
               /\ \A k \in 1..Waiting(a)' :
                    events'[k].message = a /\ events'[k].n = streams[a].heard - Waiting(a)' + k
    BY <1>1, <1>2, <1>3 DEF WaitInv
  <2>1. ASSUME NEW k \in 1..(w - 1)
        PROVE  events'[k].message = a /\ events'[k].n = streams[a].heard - (w - 1) + k
    <3>1. k + 1 \in 1..w /\ k \in 1..(Len(events) - 1)
      <4>1. PICK l \in Nat : l = Len(events)
        BY <1>1
      <4>2. k \in Nat /\ 1 <= k /\ k <= w - 1 /\ w <= l
        BY <1>5, <4>1
      <4>3. k + 1 \in 1..w /\ k \in 1..(l - 1)
        <5>1. w \in Nat
          BY <1>5
        <5> QED  BY <4>2, <5>1
      <4> QED  BY <4>1, <4>3
    <3>2. events'[k] = events[k + 1]
      BY <1>1, <1>3, <3>1
    <3>3. streams[a].heard - w + (k + 1) = streams[a].heard - (w - 1) + k
      BY <1>5, <3>1
    <3> QED  BY <1>6, <3>1, <3>2, <3>3
  <2> QED  BY <1>5, <1>6, <1>11, <2>1
<1>13. ASSUME NEW c, NEW m, In(c, m)'
       PROVE  \E x : /\ In(c, x) /\ m.id = x.id /\ x \in Message
                     /\ x.id # a => m.content = x.content
                     /\ x.id = a => m.content = Append(x.content, Text(a, e.n))
  <2>1. PICK x : In(c, x) /\ m = GrownBy(e, c, x)
    BY <1>9, <1>13
  <2>2. x \in Message
    BY <2>1, ShownTypes DEF TInv
  <2>3. x.id = a => c = e.conversation
    BY <1>1, <1>2, <1>7, <2>1 DEF XInv, TextInv
  <2>4. m = IF x.id = a THEN [x EXCEPT !.content = Append(@, Text(a, e.n))] ELSE x
    BY <1>7, <2>1, <2>3 DEF GrownBy, Grown
  <2> QED  BY <2>1, <2>2, <2>4 DEF Message
<1>14. TextInv'
  <2> SUFFICES ASSUME NEW c, NEW m, In(c, m)'
               PROVE  /\ m.id <= counts.messages
                      /\ m.content = UpTo(m.id, Len(m.content))
                      /\ m.id \in DOMAIN streams =>
                           /\ c = streams[m.id].conversation
                           /\ Len(m.content) = streams[m.id].heard - Waiting(m.id)'
    BY <1>3 DEF TextInv
  <2>1. PICK x : /\ In(c, x) /\ m.id = x.id /\ x \in Message
                 /\ x.id # a => m.content = x.content
                 /\ x.id = a => m.content = Append(x.content, Text(a, e.n))
    BY <1>13
  <2>2. /\ x.id <= counts.messages
        /\ x.content = UpTo(x.id, Len(x.content))
        /\ x.id \in DOMAIN streams =>
             c = streams[x.id].conversation /\ Len(x.content) = streams[x.id].heard - Waiting(x.id)
    BY <2>1 DEF XInv, TextInv
  <2>3. CASE x.id # a
    BY <1>11, <2>1, <2>2, <2>3
  <2>4. CASE x.id = a
    <3>1. Len(x.content) = streams[a].heard - w /\ x.content = UpTo(a, Len(x.content))
      BY <1>1, <1>2, <2>2, <2>4
    <3>2. PICK l \in Nat : l = Len(x.content) /\ e.n = l + 1
      BY <1>5, <1>6, <1>7, <3>1
    <3>3. m.content = UpTo(a, l + 1) /\ Len(m.content) = l + 1
      <4>1. x.content = UpTo(a, l)
        BY <3>1, <3>2
      <4>2. Append(UpTo(a, l), Text(a, l + 1)) = UpTo(a, l + 1)
        BY UpToGrows
      <4>3. Len(UpTo(a, l + 1)) = l + 1
        BY UpToGrows
      <4> QED  BY <2>1, <2>4, <3>2, <4>1, <4>2, <4>3
    <3>4. l + 1 = streams[a].heard - (w - 1)
      BY <1>5, <3>1, <3>2
    <3> QED  BY <1>11, <2>1, <2>2, <2>4, <3>3, <3>4
  <2> QED  BY <2>3, <2>4
<1>15. SameText'
  <2> SUFFICES ASSUME NEW c, NEW d, NEW m, NEW y, In(c, m)', In(d, y)', m.id = y.id
               PROVE  m.content = y.content
    BY DEF SameText
  <2>1. PICK x : /\ In(c, x) /\ m.id = x.id
                 /\ x.id # a => m.content = x.content
                 /\ x.id = a => m.content = Append(x.content, Text(a, e.n))
    BY <1>13
  <2>2. PICK z : /\ In(d, z) /\ y.id = z.id
                 /\ z.id # a => y.content = z.content
                 /\ z.id = a => y.content = Append(z.content, Text(a, e.n))
    BY <1>13
  <2>3. x.content = z.content
    <3>1. x.id = z.id
      BY <2>1, <2>2
    <3>2. SameText
      BY DEF XInv
    <3>3. In(c, x) /\ In(d, z)
      BY <2>1, <2>2
    <3> QED  BY <3>1, <3>2, <3>3, Zenon DEF SameText
  <2>4. x.id = z.id
    BY <2>1, <2>2
  <2>5. CASE x.id = a
    BY <2>1, <2>2, <2>3, <2>4, <2>5, Zenon
  <2>6. CASE x.id # a
    BY <2>1, <2>2, <2>3, <2>4, <2>6, Zenon
  <2> QED  BY <2>5, <2>6
<1>16. QuoteInv'
  <2> SUFFICES ASSUME NEW b \in DOMAIN streams, NEW m \in Range(streams[b].request)
               PROVE  m.id < b /\ \A c, y : In(c, y)' /\ y.id = m.id => y.content = m.content
    BY <1>3 DEF QuoteInv
  <2>1. m.id < b /\ \A c, x : In(c, x) /\ x.id = m.id => x.content = m.content
    BY DEF XInv, QuoteInv
  <2>2. b <= a /\ b \in Nat
    BY <1>1, <1>2, HarnessAssumption DEF TInv, ThreadsOK, MessageId
  <2>3. m.id # a
    <3>1. b \in MessageId /\ streams[b] \in Stream
      BY DEF TInv, ThreadsOK
    <3>2. streams[b].request \in Seq(Message)
      BY <3>1 DEF Stream
    <3>3. m \in Message
      BY <3>2 DEF Range
    <3>4. m.id \in Nat /\ a \in Nat
      BY <1>4, <3>3, HarnessAssumption DEF Message, MessageId
    <3> QED  BY <2>1, <2>2, <3>4
  <2>4. ASSUME NEW c, NEW y, In(c, y)', y.id = m.id PROVE y.content = m.content
    BY <1>13, <2>1, <2>3, <2>4
  <2> QED  BY <2>1, <2>4
<1> QED  BY <1>10, <1>12, <1>14, <1>15, <1>16 DEF XInv

(* The last event of a stream: nothing of it is left in the queue.         *)
LEMMA EndShows ==
  ASSUME Inv, TInv, XInv, ProcessEvent, Head(events).kind # "Delta"
  PROVE  TInv' /\ XInv'
<1>1. PICK s \in active :
        /\ active = {s} /\ Head(events) \in Event /\ Tail(events) \in Seq(Event)
        /\ Len(Tail(events)) = Len(events) - 1
        /\ Head(events).conversation = s.conversation
        /\ Len(events) = 1 /\ Waiting(s.assistant_message) = 0
  <2>1. events # <<>>
    BY DEF ProcessEvent
  <2> QED  BY <2>1, FirstEvent
<1>2. PICK e : e = Head(events)
  OBVIOUS
<1>3. events' = Tail(events) /\ active' = {} /\ UNCHANGED <<selected, streams>>
  BY <1>1, <1>2 DEF ProcessEvent
<1>4. \/ e.kind = "Failed" /\ chats' = ErrorMessage(e) /\ counts' = [counts EXCEPT !.messages = @ + 1]
      \/ UNCHANGED <<chats, counts>>
  BY <1>2 DEF ProcessEvent
<1>5. \A b : Waiting(b) = 0 /\ Waiting(b)' = 0
  BY <1>1, <1>3 DEF Waiting
<1>6. /\ ChatsOK' /\ counts' \in Counts /\ counts'.sends = counts.sends
      /\ counts'.messages \in {counts.messages, counts.messages + 1}
      /\ \A c, m : In(c, m)' =>
           \/ In(c, m)
           \/ m.id = counts.messages + 1 /\ m.content = <<>> /\ counts'.messages = counts.messages + 1
  <2>1. ChatsOK /\ CountsOK
    BY DEF TInv
  <2>2. CASE e.kind = "Failed" /\ chats' = ErrorMessage(e) /\ counts' = [counts EXCEPT !.messages = @ + 1]
    <3>1. e.conversation \in ChatId
      BY <1>1, <1>2 DEF Event
    <3> QED  BY <1>1, <1>3, <2>1, <2>2, <3>1, ErrorShows
  <2>3. CASE UNCHANGED <<chats, counts>>
    BY <1>3, <2>1, <2>3 DEF ChatsOK, CountsOK, In
  <2> QED  BY <1>4, <2>2, <2>3
<1>7. counts.messages \in Nat /\ counts.messages + 1 <= 3 * counts.sends /\ counts.sends \in Nat
  BY <1>1 DEF TInv, CountsOK, Counts
<1>8. TInv'
  <2>1. CountsOK'
    BY <1>3, <1>6, <1>7 DEF CountsOK
  <2>2. ThreadsOK'
    <3>1. \A b \in DOMAIN streams : b \in MessageId /\ b <= counts.messages /\ streams[b] \in Stream
                                    /\ b \in Nat
      BY HarnessAssumption DEF TInv, ThreadsOK, MessageId
    <3> QED  BY <1>3, <1>6, <1>7, <3>1 DEF ThreadsOK
  <2>3. ActiveOK'
    BY <1>1, <1>3 DEF ActiveOK
  <2> QED  BY <1>6, <2>1, <2>2, <2>3 DEF TInv
<1>9. WaitInv'
  BY <1>3 DEF WaitInv
<1>10. ASSUME NEW c, NEW m, In(c, m) PROVE m.id <= counts.messages /\ m.id \in Nat
  BY <1>10, ShownTypes DEF TInv, XInv, TextInv
<1>11. TextInv'
  <2> SUFFICES ASSUME NEW c, NEW m, In(c, m)'
               PROVE  /\ m.id <= counts'.messages
                      /\ m.content = UpTo(m.id, Len(m.content))
                      /\ m.id \in DOMAIN streams =>
                           /\ c = streams[m.id].conversation
                           /\ Len(m.content) = streams[m.id].heard - Waiting(m.id)'
    BY <1>3 DEF TextInv
  <2>1. CASE In(c, m)
    <3>1. m.id <= counts'.messages
      BY <1>6, <1>7, <1>10, <2>1
    <3> QED  BY <1>5, <2>1, <3>1 DEF XInv, TextInv
  <2>2. CASE m.id = counts.messages + 1 /\ m.content = <<>> /\ counts'.messages = counts.messages + 1
    <3>1. m.id <= counts'.messages
      BY <1>7, <2>2
    <3>2. m.content = UpTo(m.id, Len(m.content))
      BY <2>2 DEF UpTo
    <3>3. m.id \notin DOMAIN streams
      <4>1. \A b \in DOMAIN streams : b <= counts.messages /\ b \in Nat
        BY HarnessAssumption DEF TInv, ThreadsOK, MessageId
      <4> QED  BY <1>7, <2>2, <4>1
    <3> QED  BY <3>1, <3>2, <3>3
  <2> QED  BY <1>6, <2>1, <2>2
<1>12. SameText'
  <2> SUFFICES ASSUME NEW c, NEW d, NEW m, NEW y, In(c, m)', In(d, y)', m.id = y.id
               PROVE  m.content = y.content
    BY DEF SameText
  <2>1. CASE In(c, m) /\ In(d, y)
    BY <2>1 DEF XInv, SameText
  <2> QED  BY <1>6, <1>7, <1>10, <2>1
<1>13. QuoteInv'
  <2> SUFFICES ASSUME NEW b \in DOMAIN streams, NEW m \in Range(streams[b].request)
               PROVE  m.id < b /\ \A c, y : In(c, y)' /\ y.id = m.id => y.content = m.content
    BY <1>3 DEF QuoteInv
  <2>1. m.id < b /\ \A c, x : In(c, x) /\ x.id = m.id => x.content = m.content
    BY DEF XInv, QuoteInv
  <2>2. b <= counts.messages /\ b \in Nat
    BY HarnessAssumption DEF TInv, ThreadsOK, MessageId
  <2>3. m.id # counts.messages + 1
    <3>1. streams[b] \in Stream
      BY DEF TInv, ThreadsOK
    <3>2. streams[b].request \in Seq(Message)
      BY <3>1 DEF Stream
    <3>3. m \in Message
      BY <3>2 DEF Range
    <3>4. m.id \in Nat
      BY <3>3, HarnessAssumption DEF Message, MessageId
    <3> QED  BY <1>7, <2>1, <2>2, <3>4
  <2> QED  BY <1>6, <2>1, <2>3
<1> QED  BY <1>8, <1>9, <1>11, <1>12, <1>13 DEF XInv

-----------------------------------------------------------------------------
LEMMA TextInit == Init => TInv /\ XInv
<1> SUFFICES ASSUME Init PROVE TInv /\ XInv
  OBVIOUS
<1> DEFINE new == NewConversation(1)
<1>1. new \in Conversation /\ new.id = 1 /\ new.messages = <<>>
  BY HarnessAssumption DEF NewConversation, Conversation, ChatId
<1> HIDE DEF new
<1>2. chats = <<new>> /\ selected = 1
  BY DEF Init, new
<1>3. /\ chats \in Seq(Conversation) /\ Len(chats) = 1 /\ chats[1] = new
      /\ DOMAIN streams = {} /\ active = {} /\ events = <<>>
      /\ counts = [chats |-> 1, messages |-> 0, sends |-> 0, reopens |-> 0]
  BY <1>1, <1>2 DEF Init
<1>4. ChatsOK
  BY <1>1, <1>2, <1>3 DEF ChatsOK
<1>5. CountsOK /\ ThreadsOK /\ ActiveOK
  BY <1>3, HarnessAssumption DEF CountsOK, Counts, ThreadsOK, ActiveOK
<1>6. \A c, m : ~In(c, m)
  BY <1>1, <1>3 DEF In
<1> QED  BY <1>3, <1>4, <1>5, <1>6 DEF TInv, XInv, WaitInv, TextInv, SameText, QuoteInv

LEMMA TextNext == Inv /\ TInv /\ XInv /\ [Next]_vars => TInv' /\ XInv'
<1> SUFFICES ASSUME Inv, TInv, XInv, [Next]_vars PROVE TInv' /\ XInv'
  OBVIOUS
<1>1. CASE Send
  BY <1>1, SendShows
<1>2. CASE Reopen
  BY <1>2, ReopenShows
<1>3. CASE User /\ ~Send /\ ~Reopen
  BY <1>3, QuietUser, QuietKeeps
<1>4. CASE ProcessEvent
  BY <1>4, TextShows, EndShows
<1>5. CASE \E a \in DOMAIN streams : Server(a) \/ Cancelled(a)
  BY <1>5, ThreadShows
<1>6. CASE UNCHANGED vars
  <2>1. UNCHANGED <<chats, selected, active, events, streams, counts>>
    BY <1>6 DEF vars
  <2>2. ChatsOK' /\ Fewer /\ SameCounts /\ SameThreads
    BY <2>1 DEF TInv, ChatsOK, Fewer, In, SameCounts, CountsOK, SameThreads, ThreadsOK, Live
  <2> QED  BY <2>1, <2>2, QuietKeeps
<1> QED  BY <1>1, <1>2, <1>3, <1>4, <1>5, <1>6 DEF Next

LEMMA TextInvariance == Spec => [](Inv /\ TInv /\ XInv)
<1>1. Init => Inv /\ TInv /\ XInv
  BY InitInv, TextInit
<1>2. Inv /\ TInv /\ XInv /\ [Next]_vars => (Inv /\ TInv /\ XInv)'
  BY NextInv, TextNext
<1> QED  BY <1>1, <1>2, PTL DEF Spec

LEMMA InvTypes == Inv /\ TInv => TypeOK
<1> SUFFICES ASSUME Inv, TInv PROVE TypeOK
  OBVIOUS
<1>1. Cardinality(active) <= 1
  <2>1. active = {} \/ \E s : active = {s}
    BY DEF Inv, ActiveInv
  <2>2. CASE active = {}
    BY <2>2, FS_EmptySet
  <2>3. ASSUME NEW s, active = {s}
        PROVE  Cardinality(active) <= 1
    <3>1. Cardinality({s}) = 1
      BY FS_Singleton
    <3> QED  BY <2>3, <3>1
  <2> QED  BY <2>1, <2>2, <2>3
<1>2. Cardinality(IdsOf(chats)) = Len(chats) /\ selected \in IdsOf(chats)
  BY DistinctCounted DEF TInv
<1> QED
  BY <1>1, <1>2 DEF TInv, ChatsOK, CountsOK, ThreadsOK, ActiveOK, TypeOK

(* The text that is queued for a message is what its thread has waiting.   *)
LEMMA QueuedCounted ==
  ASSUME Inv, TInv, XInv, NEW a \in DOMAIN streams
  PROVE  Cardinality({k \in DOMAIN events : events[k].kind = "Delta" /\ events[k].message = a})
           = Waiting(a)
<1> DEFINE Q == {k \in DOMAIN events : events[k].kind = "Delta" /\ events[k].message = a}
<1>1. events \in Seq(Event) /\ Len(events) \in Nat /\ DOMAIN events = 1..Len(events)
  BY DEF TInv, ActiveOK
<1>2. CASE active = {}
  <2>1. events = <<>>
    BY <1>2 DEF Inv, ActiveInv, Quiet
  <2>2. DOMAIN events = {}
    BY <2>1
  <2>3. Q = {}
    BY <2>2
  <2>4. Waiting(a) = 0
    BY <1>2 DEF Waiting
  <2>5. Cardinality(Q) = 0
    BY <2>3, FS_EmptySet, Zenon
  <2> QED  BY <2>4, <2>5
<1>3. CASE active # {}
  <2>1. PICK s \in active : active = {s} /\ ThreadOf(s) /\ QueueOf(s)
    BY <1>3 DEF Inv, ActiveInv
  <2>2. PICK b, w : b = s.assistant_message /\ w = Waiting(b)
    OBVIOUS
  <2>3. w = IF Live(b) THEN Len(events) ELSE Len(events) - 1
    BY <2>1, <2>2 DEF Waiting
  <2>4. w \in Nat /\ \A k \in 1..Len(events) : events[k].kind = "Delta" <=> k \in 1..w
    <3>1. CASE Live(b)
      BY <1>1, <2>1, <2>2, <2>3, <3>1 DEF QueueOf
    <3>2. CASE ~Live(b)
      BY <1>1, <2>1, <2>2, <2>3, <3>2 DEF QueueOf
    <3> QED  BY <3>1, <3>2
  <2>5. \A k \in 1..w : events[k].message = b /\ k \in 1..Len(events)
    <3>1. WaitInv
      BY DEF XInv
    <3>2. \A k \in 1..w : events[k].message = b
      BY <2>1, <2>2, <3>1 DEF WaitInv
    <3>3. w <= Len(events)
      BY <1>1, <2>3
    <3>4. \A k \in 1..w : k \in 1..Len(events)
      BY <1>1, <2>4, <3>3
    <3> QED  BY <3>2, <3>4
  <2>6. CASE a = b
    <3>1. Q = 1..w
      BY <1>1, <2>4, <2>5, <2>6
    <3>2. Cardinality(1..w) = w
      <4>1. Cardinality(1..w) = IF 1 > w THEN 0 ELSE w - 1 + 1
        BY <2>4, FS_Interval
      <4> QED  BY <2>4, <4>1
    <3> QED  BY <2>2, <2>6, <3>1, <3>2
  <2>7. CASE a # b
    <3>1. Q = {}
      BY <1>1, <2>4, <2>5, <2>7
    <3>2. Waiting(a) = 0
      BY <2>1, <2>2, <2>7 DEF Waiting
    <3> QED  BY <3>1, <3>2, FS_EmptySet
  <2> QED  BY <2>6, <2>7
<1> QED  BY <1>2, <1>3

(* HarnessApp::process_events and stream_chat: for any numbers of          *)
(* conversations, messages and pieces of text, a message that is still     *)
(* there holds what its stream heard, in order and without gaps, up to     *)
(* what is queued, whatever is deleted, cleared, stopped or sent meanwhile.*)
THEOREM TextAlwaysInItsMessage == Spec => []TextInItsMessage
<1>1. Inv /\ TInv /\ XInv => TextInItsMessage
  <2> SUFFICES ASSUME Inv, TInv, XInv PROVE TextInItsMessage
    OBVIOUS
  <2>1. TypeOK
    BY InvTypes
  <2>2. ASSUME NEW i \in DOMAIN chats, NEW m \in Range(chats[i].messages)
        PROVE  /\ m.content = UpTo(m.id, Len(m.content))
               /\ m.id \in DOMAIN streams =>
                    /\ chats[i].id = streams[m.id].conversation
                    /\ Len(m.content) = streams[m.id].heard -
                         Cardinality({k \in DOMAIN events :
                                        events[k].kind = "Delta" /\ events[k].message = m.id})
    BY <2>2, ShownIn, QueuedCounted DEF XInv, TextInv
  <2> QED  BY <2>1, <2>2 DEF TextInItsMessage
<1> QED  BY <1>1, TextInvariance, PTL

(* ChatRequest::from_conversation: for any bounds, what a request quoted   *)
(* stays what its conversation shows, unless the user deletes it.          *)
THEOREM QuotesAlwaysSettled == Spec => []QuotesStaySettled
<1>1. Inv /\ TInv /\ XInv => QuotesStaySettled
  <2> SUFFICES ASSUME Inv, TInv, XInv, NEW a \in DOMAIN streams, NEW m \in Range(streams[a].request),
                      NEW i \in DOMAIN chats, NEW x \in Range(chats[i].messages), x.id = m.id
               PROVE  x.content = m.content
    BY DEF QuotesStaySettled
  <2>1. In(chats[i].id, x)
    BY ShownIn
  <2> QED  BY <2>1 DEF XInv, QuoteInv
<1> QED  BY <1>1, TextInvariance, PTL

=============================================================================
