--------------------------- MODULE ToolLoopProofs ---------------------------
(* Theorems about ToolLoop, for any tools, any texts the model may write,  *)
(* any messages a client may send and any numbers of them.                 *)
EXTENDS ToolLoop, FiniteSetTheorems, SequenceTheorems, WellFoundedInduction, TLAPS

-----------------------------------------------------------------------------
(* Folds.                                                                  *)

(* Induction over a set of numbers.                                       *)
LEMMA NatInductionSet ==
  ASSUME NEW S \in SUBSET Nat, 0 \in S, \A n \in S : n + 1 \in S
  PROVE  S = Nat
<1> DEFINE T == Nat \ S
           R == OpToRel(<, Nat)
<1>0. \A x, y \in Nat : <<y, x>> \in R <=> y < x
  BY DEF OpToRel
<1> SUFFICES ASSUME T # {} PROVE FALSE
  OBVIOUS
<1>1. IsWellFoundedOn(R, Nat)
  BY NatLessThanWellFounded DEF OpToRel
<1> HIDE DEF R
<1>2. PICK x \in T : \A y \in T : ~(<<y, x>> \in R)
  <2>1. T \subseteq Nat OBVIOUS
  <2> HIDE DEF T
  <2> QED BY <1>1, <2>1, WFMin
<1>3. \A y \in T : ~(y < x)
  BY <1>0, <1>2
<1>4. x \in Nat /\ x # 0 /\ x - 1 \in Nat /\ x - 1 < x
  BY <1>2
<1>5. x - 1 \in S
  BY <1>3, <1>4
<1>6. QED
  BY <1>2, <1>4, <1>5

(* The last of some numbers is the largest.                                *)
LEMMA MaxIsLast ==
  ASSUME NEW n \in Nat, NEW s \in SUBSET (1..n), n \in s
  PROVE  Max(s) = n
<1>1. \A y \in s : n >= y
  OBVIOUS
<1>2. \A x \in s : (\A y \in s : x >= y) => x = n
  OBVIOUS
<1> QED
  BY <1>1, <1>2 DEF Max

(* A fold over 1..n as the community modules define it, one step a time.  *)
IsFold(it, n, base, step) ==
  \A s \in SUBSET (1..n) :
    it[s] = IF s = {} THEN base ELSE step[<<it[s \ {Max(s)}], Max(s)>>]

LEMMA MaxIsIn ==
  \A n \in Nat : \A s \in SUBSET (1..n) : s # {} => Max(s) \in s
<1> DEFINE S == {n \in Nat : \A s \in SUBSET (1..n) : s # {} => Max(s) \in s}
<1>1. 0 \in S
  <2>1. \A s \in SUBSET (1..0) : s = {}
    OBVIOUS
  <2> QED  BY <2>1
<1>2. ASSUME NEW n \in S PROVE n + 1 \in S
  <2>1. ASSUME NEW s \in SUBSET (1..(n + 1)), s # {} PROVE Max(s) \in s
    <3>1. CASE n + 1 \in s
      BY <3>1, MaxIsLast
    <3>2. CASE n + 1 \notin s
      <4>1. s \in SUBSET (1..n)
        BY <3>2
      <4> QED  BY <2>1, <4>1
    <3> QED  BY <3>1, <3>2
  <2> QED  BY <2>1
<1> HIDE DEF S
<1>3. S \in SUBSET Nat
  BY DEF S
<1>4. S = Nat
  BY <1>1, <1>2, <1>3, NatInductionSet
<1> QED  BY <1>4 DEF S

LEMMA FoldExists ==
  ASSUME NEW V, NEW base \in V, NEW step \in [V \X Nat -> V]
  PROVE  \A n \in Nat : \E it \in [SUBSET (1..n) -> V] : IsFold(it, n, base, step)
<1> DEFINE S == {n \in Nat : \E it \in [SUBSET (1..n) -> V] : IsFold(it, n, base, step)}
<1>1. 0 \in S
  <2> DEFINE it == [s \in SUBSET (1..0) |-> base]
  <2>1. \A s \in SUBSET (1..0) : s = {}
    OBVIOUS
  <2>2. it \in [SUBSET (1..0) -> V] /\ IsFold(it, 0, base, step)
    BY <2>1 DEF IsFold
  <2> QED  BY <2>2
<1>2. ASSUME NEW n \in S PROVE n + 1 \in S
  <2>1. PICK it \in [SUBSET (1..n) -> V] : IsFold(it, n, base, step)
    OBVIOUS
  <2>2. n \in Nat /\ n + 1 \in Nat
    OBVIOUS
  <2> DEFINE more == [s \in SUBSET (1..(n + 1)) |->
                       IF n + 1 \in s THEN step[<<it[s \ {n + 1}], n + 1>>] ELSE it[s]]
  <2>3. ASSUME NEW s \in SUBSET (1..(n + 1))
        PROVE  s \ {n + 1} \in SUBSET (1..n) /\ (n + 1 \notin s => s \in SUBSET (1..n))
    BY <2>2
  <2>4. more \in [SUBSET (1..(n + 1)) -> V]
    <3>1. ASSUME NEW s \in SUBSET (1..(n + 1)) PROVE more[s] \in V
      <4>1. it[s \ {n + 1}] \in V /\ (n + 1 \notin s => it[s] \in V)
        BY <2>3
      <4>2. step[<<it[s \ {n + 1}], n + 1>>] \in V
        BY <2>2, <4>1
      <4> QED  BY <4>1, <4>2
    <3> QED  BY <3>1
  <2>5. ASSUME NEW s \in SUBSET (1..(n + 1))
        PROVE  more[s] = IF s = {} THEN base ELSE step[<<more[s \ {Max(s)}], Max(s)>>]
    <3>1. CASE n + 1 \in s
      <4>1. Max(s) = n + 1
        BY <2>2, <3>1, MaxIsLast
      <4>2. s \ {n + 1} \in SUBSET (1..(n + 1)) /\ n + 1 \notin s \ {n + 1}
        OBVIOUS
      <4>3. more[s \ {n + 1}] = it[s \ {n + 1}]
        BY <4>2
      <4> QED  BY <3>1, <4>1, <4>3
    <3>2. CASE n + 1 \notin s
      <4>1. s \in SUBSET (1..n) /\ more[s] = it[s]
        BY <2>3, <3>2
      <4>2. s \ {Max(s)} \in SUBSET (1..(n + 1)) /\ n + 1 \notin s \ {Max(s)}
        BY <3>2
      <4>3. more[s \ {Max(s)}] = it[s \ {Max(s)}]
        BY <4>2
      <4> QED  BY <2>1, <4>1, <4>3 DEF IsFold
    <3> QED  BY <3>1, <3>2
  <2> HIDE DEF more
  <2> QED  BY <2>2, <2>4, <2>5 DEF IsFold
<1> HIDE DEF S
<1>3. S \in SUBSET Nat
  BY DEF S
<1>4. S = Nat
  BY <1>1, <1>2, <1>3, NatInductionSet
<1> QED  BY <1>4 DEF S

-----------------------------------------------------------------------------
(* The three folds of the model, one step at a time.                       *)

Pendings == Seq(Id) \cup {Failed}

(* An id more, or a failure.                                               *)
LEMMA CallStep ==
  ASSUME NEW pending \in Pendings, NEW call \in ToolCall
  PROVE  CheckCall(pending, call) \in Pendings
<1>1. CASE pending = Failed
  BY <1>1 DEF CheckCall, Pendings
<1>2. CASE pending # Failed
  <2>1. pending \in Seq(Id) /\ call.id \in Id
    BY <1>2 DEF Pendings, ToolCall
  <2>2. Append(pending, call.id) \in Seq(Id)
    BY <2>1, AppendProperties
  <2> QED  BY <2>2 DEF CheckCall, Pendings
<1> QED  BY <1>1, <1>2

(* validate_tool_history, over the calls of one message.                   *)
LEMMA CallsFold ==
  ASSUME NEW pending \in Pendings, NEW calls \in Seq(ToolCall)
  PROVE  \E acc :
           /\ acc[0] = pending
           /\ \A k \in 0..Len(calls) : acc[k] \in Pendings
           /\ \A k \in 1..Len(calls) : acc[k] = CheckCall(acc[k - 1], calls[k])
           /\ FoldLeft(CheckCall, pending, calls) = acc[Len(calls)]
<1> DEFINE n == Len(calls)
           step == [p \in Pendings \X Nat |->
                      IF p[2] \in 1..n THEN CheckCall(p[1], calls[p[2]]) ELSE p[1]]
           Eq(it) == it = [s \in SUBSET (1..n) |->
                            IF s = {} THEN pending
                            ELSE CheckCall(it[s \ {Max(s)}], calls[Max(s)])]
<1>1. n \in Nat /\ DOMAIN calls = 1..n /\ pending \in Pendings
  OBVIOUS
<1>2. step \in [Pendings \X Nat -> Pendings]
  <2>1. ASSUME NEW p \in Pendings \X Nat
        PROVE  (IF p[2] \in 1..n THEN CheckCall(p[1], calls[p[2]]) ELSE p[1]) \in Pendings
    <3>1. p[1] \in Pendings /\ (p[2] \in 1..n => calls[p[2]] \in ToolCall)
      BY <1>1
    <3> HIDE DEF n
    <3> QED  BY <3>1, CallStep
  <2> QED  BY <2>1
<1>3. PICK it \in [SUBSET (1..n) -> Pendings] : IsFold(it, n, pending, step)
  <2> HIDE DEF step, n
  <2> QED  BY <1>1, <1>2, FoldExists
<1>4. Eq(it)
  <2>1. ASSUME NEW s \in SUBSET (1..n), s # {}
        PROVE  step[<<it[s \ {Max(s)}], Max(s)>>] = CheckCall(it[s \ {Max(s)}], calls[Max(s)])
    <3>1. Max(s) \in 1..n
      <4> HIDE DEF n
      <4> QED  BY <1>1, <2>1, MaxIsIn
    <3>2. it[s \ {Max(s)}] \in Pendings /\ Max(s) \in Nat
      <4> HIDE DEF n
      <4>1. s \ {Max(s)} \in SUBSET (1..n)
        OBVIOUS
      <4>2. Max(s) \in Nat
        BY <1>1, <3>1
      <4> QED  BY <4>1, <4>2
    <3> HIDE DEF n
    <3> QED  BY <1>1, <3>1, <3>2
  <2> HIDE DEF step, n
  <2> QED  BY <1>3, <2>1 DEF IsFold
<1> DEFINE iter == CHOOSE f : Eq(f)
<1>5. Eq(iter)
  <2> HIDE DEF Eq
  <2> QED  BY <1>4
<1>6. FoldLeft(CheckCall, pending, calls) = iter[1..n]
  BY <1>1 DEF FoldLeft, MapThenFoldSet
<1>7. ASSUME NEW k \in 1..n
      PROVE  iter[1..k] = CheckCall(iter[1..(k - 1)], calls[k])
  <2>0. k \in Nat /\ k \in 1..k /\ 1..k # {}
    <3>1. k \in Nat /\ k \in 1..k
      BY <1>1
    <3> QED  BY <3>1
  <2>1. 1..k \in SUBSET (1..n) /\ (1..k) \ {k} = 1..(k - 1)
    BY <1>1
  <2>2. Max(1..k) = k
    BY <2>0, <2>1, MaxIsLast
  <2> HIDE DEF n, iter
  <2>3. iter[1..k] = CheckCall(iter[(1..k) \ {k}], calls[k])
    BY <1>5, <2>0, <2>1, <2>2
  <2> QED  BY <2>1, <2>3
<1>8. iter[1..0] = pending
  <2> HIDE DEF n, iter
  <2>1. 1..0 = {}
    OBVIOUS
  <2> QED  BY <1>5, <2>1
<1> HIDE DEF iter
<1> DEFINE acc == [k \in 0..n |-> iter[1..k]]
<1>9. acc[0] = pending /\ FoldLeft(CheckCall, pending, calls) = acc[n]
  BY <1>1, <1>6, <1>8
<1>10. ASSUME NEW k \in 1..n
       PROVE  acc[k] = CheckCall(acc[k - 1], calls[k])
  <2>1. k \in 0..n /\ k - 1 \in 0..n
    BY <1>1
  <2>2. acc[k] = iter[1..k] /\ acc[k - 1] = iter[1..(k - 1)]
    BY <2>1
  <2> QED  BY <1>7, <2>2
<1> HIDE DEF acc
<1>11. \A k \in 0..n : acc[k] \in Pendings
  <2> DEFINE S == {k \in Nat : k <= n => acc[k] \in Pendings}
  <2> HIDE DEF n
  <2>1. 0 \in S
    BY <1>1, <1>9
  <2>2. ASSUME NEW k \in S PROVE k + 1 \in S
    <3> SUFFICES ASSUME k + 1 <= n PROVE acc[k + 1] \in Pendings
      OBVIOUS
    <3>1. k + 1 \in 1..n /\ (k + 1) - 1 = k /\ acc[k] \in Pendings
      BY <1>1
    <3>2. calls[k + 1] \in ToolCall
      BY <3>1 DEF n
    <3>3. acc[k + 1] = CheckCall(acc[k], calls[k + 1])
      BY <1>10, <3>1
    <3> QED  BY <3>1, <3>2, <3>3, CallStep
  <2> HIDE DEF S
  <2>3. S \in SUBSET Nat
    BY DEF S
  <2>4. S = Nat
    BY <2>1, <2>2, <2>3, NatInductionSet
  <2> QED  BY <1>1, <2>4 DEF S
<1> QED  BY <1>9, <1>10, <1>11

(* So a message leaves ids that wait, or a failure.                        *)
LEMMA MessageStep ==
  ASSUME NEW pending \in Pendings, NEW m \in ChatMessage
  PROVE  CheckMessage(pending, m) \in Pendings
<1>1. Failed \in Pendings /\ m.calls \in Seq(ToolCall)
  BY DEF Pendings, ChatMessage
<1>2. FoldLeft(CheckCall, pending, m.calls) \in Pendings
  <2>1. Len(m.calls) \in Nat
    BY <1>1
  <2>2. PICK acc : /\ acc[0] = pending
                   /\ \A k \in 0..Len(m.calls) : acc[k] \in Pendings
                   /\ \A k \in 1..Len(m.calls) : acc[k] = CheckCall(acc[k - 1], m.calls[k])
                   /\ FoldLeft(CheckCall, pending, m.calls) = acc[Len(m.calls)]
    BY <1>1, CallsFold, Zenon
  <2> QED  BY <2>1, <2>2
<1>3. pending # Failed => CheckResult(pending, m) \in Pendings
  <2> SUFFICES ASSUME pending # Failed PROVE CheckResult(pending, m) \in Pendings
    OBVIOUS
  <2>1. pending \in Seq(Id)
    BY DEF Pendings
  <2>2. pending # <<>> => Tail(pending) \in Seq(Id)
    BY <2>1, HeadTailProperties
  <2> QED  BY <1>1, <2>2 DEF CheckResult, Pendings
<1> QED  BY <1>1, <1>2, <1>3 DEF CheckMessage

(* validate_tool_history, over the messages.                               *)
LEMMA PendingFold ==
  ASSUME NEW h \in Seq(ChatMessage)
  PROVE  \E acc :
           /\ acc[0] = <<>>
           /\ \A k \in 0..Len(h) : acc[k] \in Pendings
           /\ \A k \in 1..Len(h) : acc[k] = CheckMessage(acc[k - 1], h[k])
           /\ Pending(h) = acc[Len(h)]
<1> DEFINE n == Len(h)
           step == [p \in Pendings \X Nat |->
                      IF p[2] \in 1..n THEN CheckMessage(p[1], h[p[2]]) ELSE p[1]]
           Eq(it) == it = [s \in SUBSET (1..n) |->
                            IF s = {} THEN <<>>
                            ELSE CheckMessage(it[s \ {Max(s)}], h[Max(s)])]
<1>1. n \in Nat /\ DOMAIN h = 1..n /\ <<>> \in Pendings
  BY DEF Pendings
<1>2. step \in [Pendings \X Nat -> Pendings]
  <2>1. ASSUME NEW p \in Pendings \X Nat
        PROVE  (IF p[2] \in 1..n THEN CheckMessage(p[1], h[p[2]]) ELSE p[1]) \in Pendings
    <3>1. p[1] \in Pendings /\ (p[2] \in 1..n => h[p[2]] \in ChatMessage)
      BY <1>1
    <3> HIDE DEF n
    <3> QED  BY <3>1, MessageStep
  <2> QED  BY <2>1
<1>3. PICK it \in [SUBSET (1..n) -> Pendings] : IsFold(it, n, <<>>, step)
  <2> HIDE DEF step, n
  <2> QED  BY <1>1, <1>2, FoldExists
<1>4. Eq(it)
  <2>1. ASSUME NEW s \in SUBSET (1..n), s # {}
        PROVE  step[<<it[s \ {Max(s)}], Max(s)>>] = CheckMessage(it[s \ {Max(s)}], h[Max(s)])
    <3>1. Max(s) \in 1..n
      <4> HIDE DEF n
      <4> QED  BY <1>1, <2>1, MaxIsIn
    <3>2. it[s \ {Max(s)}] \in Pendings /\ Max(s) \in Nat
      <4> HIDE DEF n
      <4>1. s \ {Max(s)} \in SUBSET (1..n)
        OBVIOUS
      <4>2. Max(s) \in Nat
        BY <1>1, <3>1
      <4> QED  BY <4>1, <4>2
    <3> HIDE DEF n
    <3> QED  BY <1>1, <3>1, <3>2
  <2> HIDE DEF step, n
  <2> QED  BY <1>3, <2>1 DEF IsFold
<1> DEFINE iter == CHOOSE f : Eq(f)
<1>5. Eq(iter)
  <2> HIDE DEF Eq
  <2> QED  BY <1>4
<1>6. Pending(h) = iter[1..n]
  BY <1>1 DEF Pending, FoldLeft, MapThenFoldSet
<1>7. ASSUME NEW k \in 1..n
      PROVE  iter[1..k] = CheckMessage(iter[1..(k - 1)], h[k])
  <2>0. k \in Nat /\ k \in 1..k /\ 1..k # {}
    <3>1. k \in Nat /\ k \in 1..k
      BY <1>1
    <3> QED  BY <3>1
  <2>1. 1..k \in SUBSET (1..n) /\ (1..k) \ {k} = 1..(k - 1)
    BY <1>1
  <2>2. Max(1..k) = k
    BY <2>0, <2>1, MaxIsLast
  <2> HIDE DEF n, iter
  <2>3. iter[1..k] = CheckMessage(iter[(1..k) \ {k}], h[k])
    BY <1>5, <2>0, <2>1, <2>2
  <2> QED  BY <2>1, <2>3
<1>8. iter[1..0] = <<>>
  <2> HIDE DEF n, iter
  <2>1. 1..0 = {}
    OBVIOUS
  <2> QED  BY <1>5, <2>1
<1> HIDE DEF iter
<1> DEFINE acc == [k \in 0..n |-> iter[1..k]]
<1>9. acc[0] = <<>> /\ Pending(h) = acc[n]
  BY <1>1, <1>6, <1>8
<1>10. ASSUME NEW k \in 1..n
       PROVE  acc[k] = CheckMessage(acc[k - 1], h[k])
  <2>1. k \in 0..n /\ k - 1 \in 0..n
    BY <1>1
  <2>2. acc[k] = iter[1..k] /\ acc[k - 1] = iter[1..(k - 1)]
    BY <2>1
  <2> QED  BY <1>7, <2>2
<1> HIDE DEF acc
<1>11. \A k \in 0..n : acc[k] \in Pendings
  <2> DEFINE S == {k \in Nat : k <= n => acc[k] \in Pendings}
  <2> HIDE DEF n
  <2>1. 0 \in S
    BY <1>1, <1>9
  <2>2. ASSUME NEW k \in S PROVE k + 1 \in S
    <3> SUFFICES ASSUME k + 1 <= n PROVE acc[k + 1] \in Pendings
      OBVIOUS
    <3>1. k + 1 \in 1..n /\ (k + 1) - 1 = k /\ acc[k] \in Pendings
      BY <1>1
    <3>2. h[k + 1] \in ChatMessage
      BY <3>1 DEF n
    <3>3. acc[k + 1] = CheckMessage(acc[k], h[k + 1])
      BY <1>10, <3>1
    <3> QED  BY <3>1, <3>2, <3>3, MessageStep
  <2> HIDE DEF S
  <2>3. S \in SUBSET Nat
    BY DEF S
  <2>4. S = Nat
    BY <2>1, <2>2, <2>3, NatInductionSet
  <2> QED  BY <1>1, <2>4 DEF S
<1> QED  BY <1>9, <1>10, <1>11


(* parse_tool_calls: what it has read of a text.                           *)
Inside == Seq(Piece \ {Close})
Scan == [visible : Seq(Piece), calls : Seq(ToolCall), block : Inside \cup {Outside}]
Scans == Scan \cup {Failed}

LEMMA ParsedCall ==
  ASSUME NEW block \in Inside, NEW index \in Nat, requests \in Nat
  PROVE  ParseOne(block, index) \in ToolCall \cup {Failed}
<1> SUFFICES ASSUME ParseOne(block, index) # Failed
             PROVE  ParseOne(block, index) \in ToolCall
  OBVIOUS
<1>1. Len(block) = 1 /\ block[1] \notin {Words, Open} /\ block[1] \in Piece \ {Close}
  BY DEF ParseOne, Inside
<1>2. PICK body \in Body : body = block[1]
  BY <1>1 DEF Piece
<1>3. body.id \in Id \cup {NoId} /\ body.name \in STRING
  BY DEF Body
<1>4. <<requests, index>> \in Id
  BY DEF Id
<1>5. ParseOne(block, index) =
        [id |-> IF body.id = NoId THEN Generated(requests, index) ELSE body.id,
         name |-> body.name, arguments |-> "object"]
  BY <1>1, <1>2 DEF ParseOne
<1> QED  BY <1>3, <1>4, <1>5 DEF Generated, ToolCall

LEMMA PieceStep ==
  ASSUME requests \in Nat, NEW s \in Scans, NEW piece \in Piece
  PROVE  ParsePiece(s, piece) \in Scans
<1>1. CASE s = Failed
  BY <1>1 DEF ParsePiece, Scans
<1>2. CASE s # Failed
  <2>1. s \in Scan
    BY <1>2 DEF Scans
  <2>2. /\ s.visible \in Seq(Piece) /\ s.calls \in Seq(ToolCall) /\ s.block \in Inside \cup {Outside}
        /\ Len(s.calls) \in Nat /\ <<>> \in Inside
    BY <2>1 DEF Scan, Inside
  <2>3. CASE s.block = Outside
    <3>1. Append(s.visible, piece) \in Seq(Piece)
      BY <2>2, AppendProperties
    <3>2. ParsePiece(s, piece) = IF piece = Open THEN [s EXCEPT !.block = <<>>]
                                 ELSE [s EXCEPT !.visible = Append(@, piece)]
      BY <1>2, <2>3 DEF ParsePiece
    <3> QED  BY <2>1, <2>2, <3>1, <3>2 DEF Scans, Scan
  <2>4. CASE s.block # Outside /\ piece = Close
    <3>1. ParsePiece(s, piece) = AddCall(s, ParseOne(s.block, Len(s.calls)))
      BY <1>2, <2>4 DEF ParsePiece
    <3>2. PICK call \in ToolCall \cup {Failed} : call = ParseOne(s.block, Len(s.calls))
      BY <2>2, <2>4, ParsedCall
    <3>3. call # Failed => Append(s.calls, call) \in Seq(ToolCall)
      BY <2>2, AppendProperties
    <3>4. AddCall(s, call) \in Scans
      BY <2>1, <2>2, <3>3 DEF AddCall, Scans, Scan
    <3> QED  BY <3>1, <3>2, <3>4
  <2>5. CASE s.block # Outside /\ piece # Close
    <3>1. Append(s.block, piece) \in Inside
      BY <2>2, <2>5, AppendProperties DEF Inside
    <3>2. ParsePiece(s, piece) = [s EXCEPT !.block = Append(@, piece)]
      BY <1>2, <2>5 DEF ParsePiece
    <3> QED  BY <2>1, <2>2, <3>1, <3>2 DEF Scans, Scan
  <2> QED  BY <2>3, <2>4, <2>5
<1> QED  BY <1>1, <1>2

LEMMA ScanStarts == [visible |-> <<>>, calls |-> <<>>, block |-> Outside] \in Scans
<1> QED  BY DEF Scans, Scan

(* parse_tool_calls, over the pieces of a text.                            *)
LEMMA TextFold ==
  ASSUME requests \in Nat, NEW text \in Seq(Piece)
  PROVE  \E acc :
           /\ acc[0] = [visible |-> <<>>, calls |-> <<>>, block |-> Outside]
           /\ \A k \in 0..Len(text) : acc[k] \in Scans
           /\ \A k \in 1..Len(text) : acc[k] = ParsePiece(acc[k - 1], text[k])
           /\ ParseToolCalls(text) = acc[Len(text)]
<1> DEFINE n == Len(text)
           step == [p \in Scans \X Nat |->
                      IF p[2] \in 1..n THEN ParsePiece(p[1], text[p[2]]) ELSE p[1]]
           Eq(it) == it = [s \in SUBSET (1..n) |->
                            IF s = {} THEN [visible |-> <<>>, calls |-> <<>>, block |-> Outside]
                            ELSE ParsePiece(it[s \ {Max(s)}], text[Max(s)])]
<1>1. n \in Nat /\ DOMAIN text = 1..n /\ [visible |-> <<>>, calls |-> <<>>, block |-> Outside] \in Scans
  BY ScanStarts
<1>2. step \in [Scans \X Nat -> Scans]
  <2>1. ASSUME NEW p \in Scans \X Nat
        PROVE  (IF p[2] \in 1..n THEN ParsePiece(p[1], text[p[2]]) ELSE p[1]) \in Scans
    <3>1. p[1] \in Scans /\ (p[2] \in 1..n => text[p[2]] \in Piece)
      BY <1>1
    <3> HIDE DEF n
    <3> QED  BY <3>1, PieceStep
  <2> QED  BY <2>1
<1>3. PICK it \in [SUBSET (1..n) -> Scans] : IsFold(it, n, [visible |-> <<>>, calls |-> <<>>, block |-> Outside], step)
  <2> HIDE DEF step, n
  <2> QED  BY <1>1, <1>2, FoldExists
<1>4. Eq(it)
  <2>1. ASSUME NEW s \in SUBSET (1..n), s # {}
        PROVE  step[<<it[s \ {Max(s)}], Max(s)>>] = ParsePiece(it[s \ {Max(s)}], text[Max(s)])
    <3>1. Max(s) \in 1..n
      <4> HIDE DEF n
      <4> QED  BY <1>1, <2>1, MaxIsIn
    <3>2. it[s \ {Max(s)}] \in Scans /\ Max(s) \in Nat
      <4> HIDE DEF n
      <4>1. s \ {Max(s)} \in SUBSET (1..n)
        OBVIOUS
      <4>2. Max(s) \in Nat
        BY <1>1, <3>1
      <4> QED  BY <4>1, <4>2
    <3> HIDE DEF n
    <3> QED  BY <1>1, <3>1, <3>2
  <2> HIDE DEF step, n
  <2> QED  BY <1>3, <2>1 DEF IsFold
<1> DEFINE iter == CHOOSE f : Eq(f)
<1>5. Eq(iter)
  <2> HIDE DEF Eq
  <2> QED  BY <1>4
<1>6. ParseToolCalls(text) = iter[1..n]
  BY <1>1 DEF ParseToolCalls, FoldLeft, MapThenFoldSet
<1>7. ASSUME NEW k \in 1..n
      PROVE  iter[1..k] = ParsePiece(iter[1..(k - 1)], text[k])
  <2>0. k \in Nat /\ k \in 1..k /\ 1..k # {}
    <3>1. k \in Nat /\ k \in 1..k
      BY <1>1
    <3> QED  BY <3>1
  <2>1. 1..k \in SUBSET (1..n) /\ (1..k) \ {k} = 1..(k - 1)
    BY <1>1
  <2>2. Max(1..k) = k
    BY <2>0, <2>1, MaxIsLast
  <2> HIDE DEF n, iter
  <2>3. iter[1..k] = ParsePiece(iter[(1..k) \ {k}], text[k])
    BY <1>5, <2>0, <2>1, <2>2
  <2> QED  BY <2>1, <2>3
<1>8. iter[1..0] = [visible |-> <<>>, calls |-> <<>>, block |-> Outside]
  <2> HIDE DEF n, iter
  <2>1. 1..0 = {}
    OBVIOUS
  <2> QED  BY <1>5, <2>1
<1> HIDE DEF iter
<1> DEFINE acc == [k \in 0..n |-> iter[1..k]]
<1>9. acc[0] = [visible |-> <<>>, calls |-> <<>>, block |-> Outside] /\ ParseToolCalls(text) = acc[n]
  BY <1>1, <1>6, <1>8
<1>10. ASSUME NEW k \in 1..n
       PROVE  acc[k] = ParsePiece(acc[k - 1], text[k])
  <2>1. k \in 0..n /\ k - 1 \in 0..n
    BY <1>1
  <2>2. acc[k] = iter[1..k] /\ acc[k - 1] = iter[1..(k - 1)]
    BY <2>1
  <2> QED  BY <1>7, <2>2
<1> HIDE DEF acc
<1>11. \A k \in 0..n : acc[k] \in Scans
  <2> DEFINE S == {k \in Nat : k <= n => acc[k] \in Scans}
  <2> HIDE DEF n
  <2>1. 0 \in S
    BY <1>1, <1>9
  <2>2. ASSUME NEW k \in S PROVE k + 1 \in S
    <3> SUFFICES ASSUME k + 1 <= n PROVE acc[k + 1] \in Scans
      OBVIOUS
    <3>1. k + 1 \in 1..n /\ (k + 1) - 1 = k /\ acc[k] \in Scans
      BY <1>1
    <3>2. text[k + 1] \in Piece
      BY <3>1 DEF n
    <3>3. acc[k + 1] = ParsePiece(acc[k], text[k + 1])
      BY <1>10, <3>1
    <3> QED  BY <3>1, <3>2, <3>3, PieceStep
  <2> HIDE DEF S
  <2>3. S \in SUBSET Nat
    BY DEF S
  <2>4. S = Nat
    BY <2>1, <2>2, <2>3, NatInductionSet
  <2> QED  BY <1>1, <2>4 DEF S
<1> QED  BY <1>9, <1>10, <1>11

-----------------------------------------------------------------------------
(* What the validator makes of good calls, and of calls at all.            *)

GoodCalls(names, calls) ==
  /\ \A k \in 1..Len(calls) : /\ calls[k].id \notin {EmptyId, NoId}
                              /\ calls[k].name \in names /\ calls[k].arguments = "object"
  /\ \A j, k \in 1..Len(calls) : calls[j].id = calls[k].id => j = k

IdsOf(calls) == [k \in 1..Len(calls) |-> calls[k].id]

(* Calls as the parser gives them out are all accepted.                    *)
LEMMA GoodCallsAccepted ==
  ASSUME NEW calls \in Seq(ToolCall), GoodCalls(Declared, calls)
  PROVE  FoldLeft(CheckCall, <<>>, calls) = IdsOf(calls)
<1> DEFINE n == Len(calls)
           first(k) == [j \in 1..k |-> calls[j].id]
<1>1. n \in Nat /\ <<>> \in Pendings /\ \A k \in 1..n : calls[k] \in ToolCall /\ calls[k].id \in Id
  <2>1. n \in Nat /\ \A k \in 1..n : calls[k] \in ToolCall
    OBVIOUS
  <2>2. <<>> \in Pendings
    BY DEF Pendings
  <2>3. \A call \in ToolCall : call.id \in Id
    BY DEF ToolCall
  <2> QED  BY <2>1, <2>2, <2>3
<1>2. PICK acc : /\ acc[0] = <<>>
                 /\ \A k \in 0..n : acc[k] \in Pendings
                 /\ \A k \in 1..n : acc[k] = CheckCall(acc[k - 1], calls[k])
                 /\ FoldLeft(CheckCall, <<>>, calls) = acc[n]
  BY <1>1, CallsFold, Zenon
<1> DEFINE S == {k \in Nat : k <= n => acc[k] = first(k)}
<1>3. 0 \in S
  <2>1. first(0) = <<>>
    OBVIOUS
  <2> QED  BY <1>2, <2>1
<1>4. ASSUME NEW k \in S PROVE k + 1 \in S
  <2> SUFFICES ASSUME k + 1 <= n PROVE acc[k + 1] = first(k + 1)
    OBVIOUS
  <2>1. k \in Nat /\ k + 1 \in 1..n /\ (k + 1) - 1 = k /\ acc[k] = first(k)
    BY <1>1
  <2>2. acc[k + 1] = CheckCall(first(k), calls[k + 1])
    BY <1>2, <2>1
  <2>3. first(k) \in Seq(Id) /\ Len(first(k)) = k /\ first(k) # Failed
    <3>1. \A j \in 1..k : calls[j].id \in Id
      BY <1>1, <2>1
    <3>2. first(k) \in Seq(Id) /\ Len(first(k)) = k
      BY <2>1, <3>1
    <3> QED  BY <3>2, ToolAssumption
  <2>4. calls[k + 1].id \notin Range(first(k))
    <3> SUFFICES ASSUME NEW j \in 1..k, calls[j].id = calls[k + 1].id PROVE FALSE
      BY DEF Range
    <3>1. j \in 1..n /\ j # k + 1
      BY <1>1, <2>1
    <3> QED  BY <2>1, <3>1 DEF GoodCalls
  <2>5. CheckCall(first(k), calls[k + 1]) = Append(first(k), calls[k + 1].id)
    BY <2>1, <2>3, <2>4 DEF CheckCall, GoodCalls
  <2>6. Append(first(k), calls[k + 1].id) = first(k + 1)
    BY <2>1, <2>3
  <2> QED  BY <2>2, <2>5, <2>6
<1>5. n \in S
  <2> HIDE DEF S
  <2>1. S \in SUBSET Nat
    BY DEF S
  <2> QED  BY <1>1, <1>3, <1>4, <2>1, NatInductionSet
<1> QED  BY <1>1, <1>2, <1>5 DEF IdsOf

(* Calls that are accepted name declared tools.                            *)
LEMMA AcceptedDeclared ==
  ASSUME NEW pending \in Pendings, NEW calls \in Seq(ToolCall),
         FoldLeft(CheckCall, pending, calls) # Failed
  PROVE  \A k \in 1..Len(calls) : calls[k].name \in Declared
<1> DEFINE n == Len(calls)
<1>1. n \in Nat
  OBVIOUS
<1>2. PICK acc : /\ acc[0] = pending
                 /\ \A k \in 0..n : acc[k] \in Pendings
                 /\ \A k \in 1..n : acc[k] = CheckCall(acc[k - 1], calls[k])
                 /\ FoldLeft(CheckCall, pending, calls) = acc[n]
  BY CallsFold, Zenon
<1> DEFINE S == {k \in Nat : k <= n /\ acc[k] # Failed => \A j \in 1..k : calls[j].name \in Declared}
<1>3. 0 \in S
  OBVIOUS
<1>4. ASSUME NEW k \in S PROVE k + 1 \in S
  <2> SUFFICES ASSUME k + 1 <= n, acc[k + 1] # Failed
               PROVE  \A j \in 1..(k + 1) : calls[j].name \in Declared
    OBVIOUS
  <2>1. k \in Nat /\ k + 1 \in 1..n /\ (k + 1) - 1 = k
    BY <1>1
  <2>2. acc[k + 1] = CheckCall(acc[k], calls[k + 1])
    BY <1>2, <2>1
  <2>3. acc[k] # Failed /\ calls[k + 1].name \in Declared
    BY <2>2 DEF CheckCall
  <2>4. \A j \in 1..k : calls[j].name \in Declared
    BY <1>1, <2>1, <2>3
  <2> QED  BY <2>1, <2>3, <2>4
<1>5. n \in S
  <2> HIDE DEF S
  <2>1. S \in SUBSET Nat
    BY DEF S
  <2> QED  BY <1>1, <1>3, <1>4, <2>1, NatInductionSet
<1> QED  BY <1>1, <1>2, <1>5

(* validate_tool_history: without tools, no message has a call or is a     *)
(* result.                                                                 *)
LEMMA NoToolsNoCalls ==
  ASSUME tools = <<>>, NEW h \in Seq(ChatMessage), Pending(h) = <<>>
  PROVE  \A m \in Range(h) : m.calls = <<>> /\ m.role # "Tool"
<1> DEFINE n == Len(h)
           Bare(j) == h[j].calls = <<>> /\ h[j].role # "Tool"
<1>1. n \in Nat /\ DOMAIN h = 1..n /\ Declared = {} /\ <<>> \in Pendings /\ <<>> # Failed
  <2>1. <<>> \in Seq(Id)
    OBVIOUS
  <2>2. n \in Nat /\ DOMAIN h = 1..n
    OBVIOUS
  <2>3. <<>> # Failed
    BY <2>1, ToolAssumption
  <2>4. DOMAIN tools = {}
    OBVIOUS
  <2>5. Declared = {}
    BY <2>4 DEF Declared
  <2> QED  BY <2>1, <2>2, <2>3, <2>5 DEF Pendings
<1>2. PICK acc : /\ acc[0] = <<>>
                 /\ \A k \in 0..n : acc[k] \in Pendings
                 /\ \A k \in 1..n : acc[k] = CheckMessage(acc[k - 1], h[k])
                 /\ Pending(h) = acc[n]
  BY PendingFold, Zenon
<1> DEFINE S == {k \in Nat : k <= n /\ acc[k] # Failed => acc[k] = <<>> /\ \A j \in 1..k : Bare(j)}
<1>3. 0 \in S
  BY <1>2
<1>4. ASSUME NEW k \in S PROVE k + 1 \in S
  <2> SUFFICES ASSUME k + 1 <= n, acc[k + 1] # Failed
               PROVE  acc[k + 1] = <<>> /\ \A j \in 1..(k + 1) : Bare(j)
    OBVIOUS
  <2>1. k \in Nat /\ k + 1 \in 1..n /\ (k + 1) - 1 = k /\ h[k + 1] \in ChatMessage
    BY <1>1
  <2>2. PICK m \in ChatMessage : m = h[k + 1]
    BY <2>1
  <2>3. acc[k + 1] = CheckMessage(acc[k], m)
    BY <1>2, <2>1, <2>2
  <2>4. acc[k] # Failed
    BY <2>3 DEF CheckMessage
  <2>5. acc[k] = <<>> /\ \A j \in 1..k : Bare(j)
    BY <1>1, <2>1, <2>4
  <2>6. m.calls \in Seq(ToolCall) /\ (m.calls # <<>> => Len(m.calls) >= 1)
    BY DEF ChatMessage
  <2>7. CASE m.role = "Assistant"
    <3>1. acc[k + 1] = FoldLeft(CheckCall, <<>>, m.calls)
      BY <2>3, <2>4, <2>5, <2>7 DEF CheckMessage
    <3>2. \A i \in 1..Len(m.calls) : m.calls[i].name \in Declared
      BY <1>1, <2>6, <3>1, AcceptedDeclared
    <3>3. m.calls = <<>>
      BY <1>1, <2>6, <3>2
    <3>4. GoodCalls(Declared, m.calls) /\ IdsOf(m.calls) = <<>>
      BY <3>3 DEF GoodCalls, IdsOf
    <3>5. acc[k + 1] = <<>>
      BY <2>6, <3>1, <3>4, GoodCallsAccepted
    <3> QED  BY <2>1, <2>2, <2>5, <2>7, <3>3, <3>5
  <2>8. CASE m.role = "Tool"
    BY <2>3, <2>4, <2>5, <2>8 DEF CheckMessage, CheckResult
  <2>9. CASE m.role \notin {"Assistant", "Tool"}
    <3>1. m.calls = <<>> /\ acc[k + 1] = <<>>
      BY <2>3, <2>4, <2>5, <2>9 DEF CheckMessage
    <3> QED  BY <2>1, <2>2, <2>5, <2>9, <3>1
  <2> QED  BY <2>7, <2>8, <2>9
<1>5. n \in S
  <2> HIDE DEF S
  <2>1. S \in SUBSET Nat
    BY DEF S
  <2> QED  BY <1>1, <1>3, <1>4, <2>1, NatInductionSet
<1> QED  BY <1>1, <1>2, <1>5 DEF Range

-----------------------------------------------------------------------------
(* The history of a careful client.                                        *)

(* What waits before and after a message of its history.                   *)
FollowsOn(names, before, m, after) ==
  \/ /\ m.role = "Assistant" /\ m.result = NoId
     /\ GoodCalls(names, m.calls) /\ before = <<>> /\ after = IdsOf(m.calls)
  \/ /\ m.role = "Tool" /\ m.calls = <<>> /\ m.result \notin {NoId, EmptyId}
     /\ before # <<>> /\ Head(before) = m.result /\ after = Tail(before)
  \/ /\ m.role = "User" /\ m.calls = <<>> /\ m.result = NoId
     /\ before = <<>> /\ after = <<>>

(* acc holds the ids that wait behind every message.                       *)
Follows(names, acc, h) ==
  /\ acc[0] = <<>>
  /\ \A k \in 0..Len(h) : acc[k] \in Seq(Id)
  /\ \A k \in 1..Len(h) : FollowsOn(names, acc[k - 1], h[k], acc[k])

(* The validator agrees about what waits.                                  *)
LEMMA FollowedAccepted ==
  ASSUME NEW h \in Seq(ChatMessage), NEW acc, Follows(Declared, acc, h)
  PROVE  Pending(h) = acc[Len(h)] /\ Converted(h)
<1> DEFINE n == Len(h)
<1>1. n \in Nat /\ DOMAIN h = 1..n /\ \A k \in 1..n : h[k] \in ChatMessage
  OBVIOUS
<1>2. PICK f : /\ f[0] = <<>>
               /\ \A k \in 0..n : f[k] \in Pendings
               /\ \A k \in 1..n : f[k] = CheckMessage(f[k - 1], h[k])
               /\ Pending(h) = f[n]
  BY PendingFold, Zenon
<1> DEFINE S == {k \in Nat : k <= n => f[k] = acc[k]}
<1>3. 0 \in S
  BY <1>2 DEF Follows
<1>4. ASSUME NEW k \in S PROVE k + 1 \in S
  <2> SUFFICES ASSUME k + 1 <= n PROVE f[k + 1] = acc[k + 1]
    OBVIOUS
  <2>1. k \in Nat /\ k \in 0..n /\ k + 1 \in 1..n /\ (k + 1) - 1 = k /\ f[k] = acc[k]
    BY <1>1
  <2>2. PICK m \in ChatMessage : m = h[k + 1]
    BY <1>1, <2>1
  <2>3. m.calls \in Seq(ToolCall)
    BY DEF ChatMessage
  <2>4. f[k + 1] = CheckMessage(acc[k], m)
    BY <1>2, <2>1, <2>2
  <2>5. acc[k] \in Seq(Id) /\ acc[k] # Failed
    BY <2>1, ToolAssumption DEF Follows
  <2>6. FollowsOn(Declared, acc[k], m, acc[k + 1])
    <3>1. acc[(k + 1) - 1] = acc[k]
      BY <2>1
    <3> QED  BY <2>1, <2>2, <3>1 DEF Follows
  <2>7. CASE m.role = "Assistant"
    <3>1. GoodCalls(Declared, m.calls) /\ acc[k] = <<>> /\ acc[k + 1] = IdsOf(m.calls) /\ m.result = NoId
      BY <2>6, <2>7 DEF FollowsOn
    <3>2. CheckMessage(acc[k], m) = FoldLeft(CheckCall, <<>>, m.calls)
      BY <2>5, <2>7, <3>1 DEF CheckMessage
    <3> QED  BY <2>3, <2>4, <3>1, <3>2, GoodCallsAccepted
  <2>8. CASE m.role = "Tool"
    BY <2>4, <2>5, <2>6, <2>8 DEF FollowsOn, CheckMessage, CheckResult
  <2>9. CASE m.role = "User"
    BY <2>4, <2>5, <2>6, <2>9 DEF FollowsOn, CheckMessage
  <2> QED  BY <2>6, <2>7, <2>8, <2>9 DEF FollowsOn
<1>5. n \in S
  <2> HIDE DEF S
  <2>1. S \in SUBSET Nat
    BY DEF S
  <2> QED  BY <1>1, <1>3, <1>4, <2>1, NatInductionSet
<1>6. ASSUME NEW k \in 1..n, NEW j \in 1..Len(h[k].calls)
      PROVE  h[k].calls[j].arguments = "object"
  BY <1>6 DEF Follows, FollowsOn, GoodCalls
<1>7. \A k \in 1..n : DOMAIN h[k].calls = 1..Len(h[k].calls)
  <2>1. \A m \in ChatMessage : m.calls \in Seq(ToolCall)
    BY DEF ChatMessage
  <2> QED  BY <1>1, <2>1
<1>8. Converted(h)
  <2> HIDE DEF n
  <2> QED  BY <1>1, <1>6, <1>7 DEF Converted, Range
<1> QED  BY <1>2, <1>5, <1>8

(* parse_one: no call has an empty id, or none at all.                     *)
LEMMA CallIsGood ==
  ASSUME NEW block \in Inside, NEW index \in Nat, requests \in Nat,
         ParseOne(block, index) # Failed
  PROVE  /\ ParseOne(block, index).id \notin {EmptyId, NoId}
         /\ ParseOne(block, index).name \in Declared
         /\ ParseOne(block, index).arguments = "object"
<1>1. PICK body : body = block[1]
  OBVIOUS
<1>2. /\ body.name \in Declared /\ body.id # EmptyId
      /\ ParseOne(block, index) =
           [id |-> IF body.id = NoId THEN Generated(requests, index) ELSE body.id,
            name |-> body.name, arguments |-> "object"]
  BY <1>1 DEF ParseOne
<1>3. Generated(requests, index) \notin {EmptyId, NoId}
  <2>1. Generated(requests, index) \in Id
    BY DEF Generated, Id
  <2>2. Generated(requests, index) # EmptyId
    BY DEF Generated, EmptyId
  <2> QED  BY <2>1, <2>2, ToolAssumption
<1> QED  BY <1>2, <1>3

LEMMA ListedIn ==
  ASSUME NEW T, NEW list \in Seq(T)
  PROVE  Range(list) = {list[j] : j \in 1..Len(list)}
BY DEF Range

LEMMA GoodMore ==
  ASSUME NEW names, NEW old \in Seq(ToolCall), GoodCalls(names, old), NEW call \in ToolCall,
         call.id \notin {EmptyId, NoId}, call.name \in names, call.arguments = "object",
         \A c \in Range(old) : call.id # c.id
  PROVE  GoodCalls(names, Append(old, call))
<1>1. PICK l \in Nat : l = Len(old)
  OBVIOUS
<1>2. PICK new : new = Append(old, call)
  OBVIOUS
<1>3. Len(new) = l + 1 /\ new[l + 1] = call /\ \A i \in 1..l : new[i] = old[i]
  BY <1>1, <1>2, AppendProperties
<1>4. \A i \in 1..l : old[i].id # call.id
  <2>1. Range(old) = {old[i] : i \in 1..l}
    BY <1>1, ListedIn
  <2> QED  BY <2>1
<1>5. \A i \in 1..(l + 1) : i \in 1..l \/ i = l + 1
  OBVIOUS
<1> QED  BY <1>1, <1>2, <1>3, <1>4, <1>5 DEF GoodCalls

(* parse_tool_calls: the calls it finds have an id of their own, a declared*)
(* name and an object for arguments.                                       *)
LEMMA ParsedGood ==
  ASSUME requests \in Nat, NEW text \in Seq(Piece), ParseToolCalls(text) # Failed
  PROVE  ParseToolCalls(text).calls \in Seq(ToolCall) /\ GoodCalls(Declared, ParseToolCalls(text).calls)
<1> DEFINE n == Len(text)
<1>1. n \in Nat
  OBVIOUS
<1>2. PICK acc :
        /\ acc[0] = [visible |-> <<>>, calls |-> <<>>, block |-> Outside]
        /\ \A k \in 0..n : acc[k] \in Scans
        /\ \A k \in 1..n : acc[k] = ParsePiece(acc[k - 1], text[k])
        /\ ParseToolCalls(text) = acc[n]
  BY TextFold, Zenon
<1> DEFINE S == {k \in Nat : k <= n /\ acc[k] # Failed => GoodCalls(Declared, acc[k].calls)}
<1>3. 0 \in S
  BY <1>2 DEF GoodCalls
<1>4. ASSUME NEW k \in S PROVE k + 1 \in S
  <2> SUFFICES ASSUME k + 1 <= n, acc[k + 1] # Failed PROVE GoodCalls(Declared, acc[k + 1].calls)
    OBVIOUS
  <2>1. k \in Nat /\ k \in 0..n /\ k + 1 \in 1..n /\ (k + 1) - 1 = k
    BY <1>1
  <2>2. PICK s, piece : s = acc[k] /\ piece = text[k + 1]
    OBVIOUS
  <2>3. acc[k + 1] = ParsePiece(s, piece)
    BY <1>2, <2>1, <2>2
  <2>4. s # Failed
    BY <2>3 DEF ParsePiece
  <2>5. s \in Scan /\ GoodCalls(Declared, s.calls)
    BY <1>1, <1>2, <2>1, <2>2, <2>4 DEF Scans
  <2>6. s.calls \in Seq(ToolCall) /\ s.block \in Inside \cup {Outside} /\ Len(s.calls) \in Nat
    BY <2>5 DEF Scan
  <2>7. CASE s.block # Outside /\ piece = Close
    <3>1. acc[k + 1] = AddCall(s, ParseOne(s.block, Len(s.calls)))
      BY <2>3, <2>4, <2>7 DEF ParsePiece
    <3>2. PICK call : call = ParseOne(s.block, Len(s.calls))
      OBVIOUS
    <3>3. /\ call # Failed /\ \A c \in Range(s.calls) : call.id # c.id
          /\ acc[k + 1].calls = Append(s.calls, call)
      BY <2>5, <3>1, <3>2 DEF AddCall, Scan
    <3>4. call \in ToolCall
      BY <2>6, <2>7, <3>2, <3>3, ParsedCall
    <3>5. call.id \notin {EmptyId, NoId} /\ call.name \in Declared /\ call.arguments = "object"
      BY <2>6, <2>7, <3>2, <3>3, CallIsGood
    <3>6. PICK old : old = s.calls
      OBVIOUS
    <3>7. old \in Seq(ToolCall) /\ GoodCalls(Declared, old) /\ \A c \in Range(old) : call.id # c.id
      BY <2>5, <2>6, <3>3, <3>6
    <3>8. GoodCalls(Declared, Append(old, call))
      BY <3>4, <3>5, <3>7, GoodMore
    <3> QED  BY <3>3, <3>6, <3>8
  <2>8. CASE ~(s.block # Outside /\ piece = Close)
    <3>1. acc[k + 1].calls = s.calls
      BY <2>3, <2>4, <2>5, <2>8 DEF ParsePiece, Scan
    <3> QED  BY <2>5, <3>1
  <2> QED  BY <2>7, <2>8
<1>5. n \in S
  <2> HIDE DEF S
  <2>1. S \in SUBSET Nat
    BY DEF S
  <2> QED  BY <1>1, <1>3, <1>4, <2>1, NatInductionSet
<1>6. acc[n] \in Scan
  BY <1>1, <1>2 DEF Scans
<1> QED  BY <1>1, <1>2, <1>5, <1>6 DEF Scan

-----------------------------------------------------------------------------
(* Places in a text.                                                       *)

(* The places P, and one more behind them.                                 *)
LastOf(P, j) ==
  /\ Cardinality(P) \in Nat /\ Cardinality(P \cup {j}) = Cardinality(P) + 1
  /\ \A i \in P : UpTo(P, i) \in 1..Cardinality(P) /\ UpTo(P \cup {j}, i) = UpTo(P, i)
  /\ UpTo(P \cup {j}, j) = Cardinality(P) + 1

LEMMA PlaceAdded ==
  ASSUME NEW k \in Nat, NEW P \in SUBSET (1..k), NEW j \in Nat, j > k
  PROVE  LastOf(P, j)
<1>1. IsFiniteSet(P) /\ Cardinality(P) \in Nat
  <2>1. IsFiniteSet(1..k)
    <3>1. 1 \in Int /\ k \in Int
      OBVIOUS
    <3> QED  BY <3>1, FS_Interval, Zenon
  <2> QED  BY <2>1, FS_Subset, FS_CardinalityType
<1>2. j \notin P
  OBVIOUS
<1>3. Cardinality(P \cup {j}) = Cardinality(P) + 1
  BY <1>1, <1>2, FS_AddElement
<1>4. UpTo(P \cup {j}, j) = Cardinality(P) + 1
  <2>1. \A i \in P \cup {j} : i <= j
    OBVIOUS
  <2> QED  BY <1>3, <2>1 DEF UpTo
<1>5. ASSUME NEW i \in P
      PROVE  UpTo(P, i) \in 1..Cardinality(P) /\ UpTo(P \cup {j}, i) = UpTo(P, i)
  <2> DEFINE Q == {x \in P : x <= i}
  <2>1. {x \in P \cup {j} : x <= i} = Q
    OBVIOUS
  <2>2. Q \in SUBSET P /\ Q # {}
    <3>1. i \in Q
      OBVIOUS
    <3> QED  BY <3>1
  <2>3. UpTo(P, i) = Cardinality(Q) /\ UpTo(P \cup {j}, i) = Cardinality(Q)
    BY <2>1 DEF UpTo
  <2> HIDE DEF Q
  <2>4. IsFiniteSet(Q) /\ Cardinality(Q) <= Cardinality(P)
    BY <1>1, <2>2, FS_Subset
  <2>5. Cardinality(Q) \in Nat /\ Cardinality(Q) # 0
    BY <2>2, <2>4, FS_CardinalityType, FS_EmptySet
  <2> QED  BY <1>1, <2>3, <2>4, <2>5
<1> QED  BY <1>1, <1>3, <1>4, <1>5 DEF LastOf

InAt(text, i) == \E o \in 1..i : text[o] = Open /\ \A j \in o..(i - 1) : text[j] # Close
OpenAt(text, k) == \E o \in 1..k : text[o] = Open /\ \A j \in o..k : text[j] # Close
ShownTo(text, k) == {i \in 1..k : ~InAt(text, i)}
BodiesTo(text, k) == {i \in 1..k : InAt(text, i) /\ text[i] \notin {Open, Close}}

(* v lists the pieces at the places P, and c the calls whose bodies are    *)
(* there.                                                                  *)
Shows(text, v, P) == Len(v) = Cardinality(P) /\ \A i \in P : v[UpTo(P, i)] = text[i]
Calls(text, c, P) == Len(c) = Cardinality(P) /\ \A i \in P : c[UpTo(P, i)].name = text[i].name

LEMMA ShowsMore ==
  ASSUME NEW text, NEW k \in Nat, NEW P \in SUBSET (1..k), NEW j \in Nat, j > k,
         NEW v \in Seq(Piece), text[j] \in Piece, Shows(text, v, P)
  PROVE  Shows(text, Append(v, text[j]), P \cup {j})
<1>1. PICK l \in Nat : l = Cardinality(P) /\ l = Len(v)
  BY PlaceAdded DEF LastOf, Shows
<1>2. /\ Len(Append(v, text[j])) = l + 1 /\ Append(v, text[j])[l + 1] = text[j]
      /\ \A i \in 1..l : Append(v, text[j])[i] = v[i]
  BY <1>1, AppendProperties
<1>3. /\ Cardinality(P \cup {j}) = l + 1 /\ UpTo(P \cup {j}, j) = l + 1
      /\ \A i \in P : UpTo(P, i) \in 1..l /\ UpTo(P \cup {j}, i) = UpTo(P, i)
  <2>1. LastOf(P, j)
    BY PlaceAdded
  <2> QED  BY <1>1, <2>1 DEF LastOf
<1> QED  BY <1>2, <1>3 DEF Shows

LEMMA CallsMore ==
  ASSUME NEW text, NEW k \in Nat, NEW P \in SUBSET (1..k), NEW j \in Nat, j > k,
         NEW c \in Seq(ToolCall), NEW call \in ToolCall, call.name = text[j].name,
         Calls(text, c, P)
  PROVE  Calls(text, Append(c, call), P \cup {j})
<1>1. PICK l \in Nat : l = Cardinality(P) /\ l = Len(c)
  BY PlaceAdded DEF LastOf, Calls
<1>2. /\ Len(Append(c, call)) = l + 1 /\ Append(c, call)[l + 1] = call
      /\ \A i \in 1..l : Append(c, call)[i] = c[i]
  BY <1>1, AppendProperties
<1>3. /\ Cardinality(P \cup {j}) = l + 1 /\ UpTo(P \cup {j}, j) = l + 1
      /\ \A i \in P : UpTo(P, i) \in 1..l /\ UpTo(P \cup {j}, i) = UpTo(P, i)
  <2>1. LastOf(P, j)
    BY PlaceAdded
  <2> QED  BY <1>1, <2>1 DEF LastOf
<1> QED  BY <1>2, <1>3 DEF Calls

(* The next piece is in a block if a block is open or starts there.        *)
LEMMA NextPlace ==
  ASSUME NEW text, NEW k \in Nat
  PROVE  /\ InAt(text, k + 1) <=> (text[k + 1] = Open \/ OpenAt(text, k))
         /\ OpenAt(text, k + 1) <=>
              (text[k + 1] # Close /\ (text[k + 1] = Open \/ OpenAt(text, k)))
         /\ InAt(text, k + 1) => ShownTo(text, k + 1) = ShownTo(text, k)
         /\ ~InAt(text, k + 1) => ShownTo(text, k + 1) = ShownTo(text, k) \cup {k + 1}
         /\ ~InAt(text, k + 1) \/ text[k + 1] \in {Open, Close} =>
              BodiesTo(text, k + 1) = BodiesTo(text, k)
         /\ InAt(text, k + 1) /\ text[k + 1] \notin {Open, Close} =>
              BodiesTo(text, k + 1) = BodiesTo(text, k) \cup {k + 1}
<1>1. /\ \A o : o \in 1..(k + 1) <=> o \in 1..k \/ o = k + 1
      /\ (k + 1) - 1 = k /\ \A j : j \notin (k + 1)..k
      /\ \A o \in 1..k : \A j : j \in o..(k + 1) <=> j \in o..k \/ j = k + 1
      /\ \A j : j \in (k + 1)..(k + 1) <=> j = k + 1
  OBVIOUS
<1>2. InAt(text, k + 1) <=> (text[k + 1] = Open \/ OpenAt(text, k))
  BY <1>1 DEF InAt, OpenAt
<1>3. OpenAt(text, k + 1) <=>
        (text[k + 1] # Close /\ (text[k + 1] = Open \/ OpenAt(text, k)))
  BY <1>1, ToolAssumption DEF OpenAt
<1>4. /\ InAt(text, k + 1) => ShownTo(text, k + 1) = ShownTo(text, k)
      /\ ~InAt(text, k + 1) => ShownTo(text, k + 1) = ShownTo(text, k) \cup {k + 1}
      /\ ~InAt(text, k + 1) \/ text[k + 1] \in {Open, Close} =>
           BodiesTo(text, k + 1) = BodiesTo(text, k)
      /\ InAt(text, k + 1) /\ text[k + 1] \notin {Open, Close} =>
           BodiesTo(text, k + 1) = BodiesTo(text, k) \cup {k + 1}
  BY <1>1 DEF ShownTo, BodiesTo
<1> QED  BY <1>2, <1>3, <1>4

(* parse_tool_calls, having read k pieces: it is in a block or not, has the *)
(* visible pieces and a call for every body but one it may be reading.     *)
ScanOK(text, k, s) ==
  /\ s.block # Outside <=> OpenAt(text, k)
  /\ Shows(text, s.visible, ShownTo(text, k))
  /\ s.block \in {Outside, <<>>} => Calls(text, s.calls, BodiesTo(text, k))
  /\ s.block # Outside /\ Len(s.block) = 1 /\ s.block[1] # Open =>
       /\ k > 0 /\ s.block[1] = text[k]
       /\ BodiesTo(text, k) = BodiesTo(text, k - 1) \cup {k}
       /\ Calls(text, s.calls, BodiesTo(text, k - 1))

LEMMA ScanNext ==
  ASSUME requests \in Nat, NEW text, NEW k \in Nat, NEW s \in Scan, ScanOK(text, k, s),
         NEW piece \in Piece, piece = text[k + 1],
         ParsePiece(s, piece) # Failed, s # Failed
  PROVE  ScanOK(text, k + 1, ParsePiece(s, piece))
<1>0. PICK t : t = ParsePiece(s, piece)
  OBVIOUS
<1> SUFFICES ScanOK(text, k + 1, t)
  BY <1>0
<1>1. /\ s.visible \in Seq(Piece) /\ s.calls \in Seq(ToolCall) /\ s.block \in Inside \cup {Outside}
      /\ Len(s.calls) \in Nat
  BY DEF Scan
<1>2. /\ <<>> # Outside /\ Open # Close
      /\ \A b \in Inside : b # Outside /\ Len(b) \in Nat /\ (Len(b) = 0 <=> b = <<>>)
  <2>1. <<>> \in Seq(Piece)
    OBVIOUS
  <2>2. \A b \in Inside : b \in Seq(Piece) /\ Len(b) \in Nat /\ (Len(b) = 0 <=> b = <<>>)
    BY DEF Inside
  <2> QED  BY <2>1, <2>2, ToolAssumption
<1>3. /\ (k + 1) - 1 = k /\ k + 1 > 0 /\ k + 1 > k /\ k + 1 \in Nat
      /\ ShownTo(text, k) \in SUBSET (1..k) /\ BodiesTo(text, k) \in SUBSET (1..k)
  BY DEF ShownTo, BodiesTo
<1>4. CASE s.block = Outside /\ piece = Open
  <2>1. t = [s EXCEPT !.block = <<>>]
    BY <1>0, <1>4 DEF ParsePiece
  <2>2. t.block = <<>> /\ t.visible = s.visible /\ t.calls = s.calls
    BY <2>1 DEF Scan
  <2>3. InAt(text, k + 1) /\ OpenAt(text, k + 1)
    BY <1>2, <1>4, NextPlace
  <2>4. ShownTo(text, k + 1) = ShownTo(text, k) /\ BodiesTo(text, k + 1) = BodiesTo(text, k)
    BY <1>4, <2>3, NextPlace
  <2>5. Len(t.block) = 0
    BY <2>2
  <2> QED  BY <1>2, <1>4, <2>2, <2>3, <2>4, <2>5 DEF ScanOK
<1>5. CASE s.block = Outside /\ piece # Open
  <2>1. t = [s EXCEPT !.visible = Append(@, piece)]
    BY <1>0, <1>5 DEF ParsePiece
  <2>2. t.block = Outside /\ t.visible = Append(s.visible, text[k + 1]) /\ t.calls = s.calls
    BY <1>5, <2>1 DEF Scan
  <2>3. ~InAt(text, k + 1) /\ ~OpenAt(text, k + 1)
    BY <1>5, NextPlace DEF ScanOK
  <2>4. /\ ShownTo(text, k + 1) = ShownTo(text, k) \cup {k + 1}
        /\ BodiesTo(text, k + 1) = BodiesTo(text, k)
    BY <1>5, <2>3, NextPlace
  <2>5. Shows(text, s.visible, ShownTo(text, k))
    BY DEF ScanOK
  <2>6. Shows(text, t.visible, ShownTo(text, k + 1))
    <3>1. PICK P, v, j : P = ShownTo(text, k) /\ v = s.visible /\ j = k + 1
      OBVIOUS
    <3>2. /\ P \in SUBSET (1..k) /\ v \in Seq(Piece) /\ j \in Nat /\ j > k
          /\ text[j] \in Piece /\ Shows(text, v, P)
      BY <1>1, <1>3, <2>5, <3>1
    <3>3. Shows(text, Append(v, text[j]), P \cup {j})
      BY <3>2, ShowsMore
    <3> QED  BY <2>2, <2>4, <3>1, <3>3
  <2> QED  BY <1>5, <2>2, <2>3, <2>4, <2>6 DEF ScanOK
<1>6. CASE s.block # Outside /\ piece = Close
  <2>1. t = AddCall(s, ParseOne(s.block, Len(s.calls)))
    BY <1>0, <1>6 DEF ParsePiece
  <2>2. PICK call : call = ParseOne(s.block, Len(s.calls))
    OBVIOUS
  <2>3. call # Failed /\ t = [s EXCEPT !.calls = Append(@, call), !.block = Outside]
    BY <1>0, <2>1, <2>2 DEF AddCall
  <2>4. t.block = Outside /\ t.visible = s.visible /\ t.calls = Append(s.calls, call)
    BY <2>3 DEF Scan
  <2>5. call \in ToolCall
    BY <1>1, <1>6, <2>2, <2>3, ParsedCall
  <2>6. Len(s.block) = 1 /\ s.block[1] # Open /\ call.name = s.block[1].name
    BY <2>2, <2>3 DEF ParseOne
  <2>7. /\ k > 0 /\ s.block[1] = text[k] /\ BodiesTo(text, k) = BodiesTo(text, k - 1) \cup {k}
        /\ Calls(text, s.calls, BodiesTo(text, k - 1)) /\ OpenAt(text, k)
        /\ Shows(text, s.visible, ShownTo(text, k))
    BY <1>6, <2>6 DEF ScanOK
  <2>8. InAt(text, k + 1) /\ ~OpenAt(text, k + 1)
    BY <1>2, <1>6, <2>7, NextPlace
  <2>9. ShownTo(text, k + 1) = ShownTo(text, k) /\ BodiesTo(text, k + 1) = BodiesTo(text, k)
    BY <1>6, <2>8, NextPlace
  <2>10. Calls(text, t.calls, BodiesTo(text, k))
    <3>1. k - 1 \in Nat /\ k > k - 1 /\ BodiesTo(text, k - 1) \in SUBSET (1..(k - 1))
      BY <2>7 DEF BodiesTo
    <3>2. call.name = text[k].name
      BY <2>6, <2>7
    <3>3. Calls(text, Append(s.calls, call), BodiesTo(text, k - 1) \cup {k})
      BY <1>1, <2>5, <2>7, <3>1, <3>2, CallsMore
    <3> QED  BY <2>4, <2>7, <3>3
  <2> QED  BY <1>2, <2>4, <2>7, <2>8, <2>9, <2>10 DEF ScanOK
<1>7. CASE s.block # Outside /\ piece # Close
  <2>1. t = [s EXCEPT !.block = Append(@, piece)]
    BY <1>0, <1>7 DEF ParsePiece
  <2>2. t.block = Append(s.block, piece) /\ t.visible = s.visible /\ t.calls = s.calls
    BY <2>1 DEF Scan
  <2>3. OpenAt(text, k) /\ Shows(text, s.visible, ShownTo(text, k))
    BY <1>7 DEF ScanOK
  <2>4. InAt(text, k + 1) /\ OpenAt(text, k + 1)
    BY <1>7, <2>3, NextPlace
  <2>5. ShownTo(text, k + 1) = ShownTo(text, k)
    BY <2>4, NextPlace
  <2>6. s.block \in Inside /\ t.block \in Inside /\ Len(t.block) = Len(s.block) + 1
    BY <1>1, <1>7, <2>2, AppendProperties DEF Inside
  <2>7. t.block \notin {Outside, <<>>}
    BY <1>2, <2>6
  <2>8. ASSUME Len(t.block) = 1, t.block[1] # Open
        PROVE  /\ t.block[1] = text[k + 1]
               /\ BodiesTo(text, k + 1) = BodiesTo(text, k) \cup {k + 1}
               /\ Calls(text, t.calls, BodiesTo(text, k))
    <3>1. s.block = <<>>
      <4>1. Len(s.block) \in Nat /\ (Len(s.block) = 0 <=> s.block = <<>>)
        BY <1>2, <2>6
      <4>2. Len(s.block) + 1 = 1
        BY <2>6, <2>8
      <4> QED  BY <4>1, <4>2
    <3>2. t.block[1] = piece
      BY <2>2, <3>1
    <3>3. BodiesTo(text, k + 1) = BodiesTo(text, k) \cup {k + 1}
      BY <1>7, <2>4, <2>8, <3>2, NextPlace
    <3> QED  BY <2>2, <3>1, <3>2, <3>3 DEF ScanOK
  <2> QED  BY <1>3, <2>2, <2>3, <2>4, <2>5, <2>7, <2>8 DEF ScanOK
<1> QED  BY <1>4, <1>5, <1>6, <1>7

LEMMA ScanFirst ==
  ASSUME NEW text
  PROVE  ScanOK(text, 0, [visible |-> <<>>, calls |-> <<>>, block |-> Outside])
<1>1. ~OpenAt(text, 0) /\ ShownTo(text, 0) = {} /\ BodiesTo(text, 0) = {}
  BY DEF OpenAt, ShownTo, BodiesTo
<1>2. Shows(text, <<>>, {}) /\ Calls(text, <<>>, {})
  BY FS_EmptySet DEF Shows, Calls
<1> QED  BY <1>1, <1>2 DEF ScanOK

(* parse_tool_calls: the visible text is what stands outside of the blocks,*)
(* and the calls are those inside of them.                                 *)
LEMMA ParsedWithheld ==
  ASSUME requests \in Nat, NEW text \in Seq(Piece),
         ParseToolCalls(text) # Failed, ParseToolCalls(text).block = Outside
  PROVE  /\ Shows(text, ParseToolCalls(text).visible, ShownTo(text, Len(text)))
         /\ Calls(text, ParseToolCalls(text).calls, BodiesTo(text, Len(text)))
<1> DEFINE n == Len(text)
<1>1. n \in Nat
  OBVIOUS
<1>2. PICK acc :
        /\ acc[0] = [visible |-> <<>>, calls |-> <<>>, block |-> Outside]
        /\ \A k \in 0..n : acc[k] \in Scans
        /\ \A k \in 1..n : acc[k] = ParsePiece(acc[k - 1], text[k])
        /\ ParseToolCalls(text) = acc[n]
  BY TextFold, Zenon
<1> DEFINE S == {k \in Nat : k <= n /\ acc[k] # Failed => ScanOK(text, k, acc[k])}
<1>3. 0 \in S
  BY <1>2, ScanFirst
<1>4. ASSUME NEW k \in S PROVE k + 1 \in S
  <2> SUFFICES ASSUME k + 1 <= n, acc[k + 1] # Failed PROVE ScanOK(text, k + 1, acc[k + 1])
    OBVIOUS
  <2>1. k \in Nat /\ k \in 0..n /\ k + 1 \in 1..n /\ (k + 1) - 1 = k
    BY <1>1
  <2>2. PICK s, piece : s = acc[k] /\ piece = text[k + 1]
    OBVIOUS
  <2>3. acc[k + 1] = ParsePiece(s, piece) /\ piece \in Piece
    BY <1>2, <2>1, <2>2
  <2>4. s # Failed
    BY <2>3 DEF ParsePiece
  <2>5. s \in Scan /\ ScanOK(text, k, s)
    BY <1>1, <1>2, <2>1, <2>2, <2>4 DEF Scans
  <2> QED  BY <2>1, <2>2, <2>3, <2>4, <2>5, ScanNext
<1>5. n \in S
  <2> HIDE DEF S
  <2>1. S \in SUBSET Nat
    BY DEF S
  <2> QED  BY <1>1, <1>3, <1>4, <2>1, NatInductionSet
<1> QED  BY <1>1, <1>2, <1>5 DEF ScanOK

-----------------------------------------------------------------------------
(* How the history of a careful client grows.                              *)

LEMMA FollowsAppend ==
  ASSUME NEW h \in Seq(ChatMessage), NEW names, NEW acc, Follows(names, acc, h),
         NEW m \in ChatMessage, NEW w \in Seq(Id), FollowsOn(names, acc[Len(h)], m, w)
  PROVE  \E f : Follows(names, f, Append(h, m)) /\ f[Len(h) + 1] = w
<1>1. PICK n \in Nat : n = Len(h)
  OBVIOUS
<1>2. PICK f : f = [k \in 0..(n + 1) |-> IF k = n + 1 THEN w ELSE acc[k]]
  OBVIOUS
<1>3. /\ Len(Append(h, m)) = n + 1 /\ Append(h, m)[n + 1] = m
      /\ \A k \in 1..n : Append(h, m)[k] = h[k]
  BY <1>1, AppendProperties
<1>4. f[0] = <<>> /\ f[n + 1] = w /\ \A k \in 0..n : f[k] = acc[k]
  <2>1. \A k \in 0..n : k \in 0..(n + 1) /\ k # n + 1
    BY <1>1
  <2>2. 0 \in 0..n /\ n + 1 \in 0..(n + 1)
    BY <1>1
  <2>3. acc[0] = <<>>
    BY DEF Follows
  <2> QED  BY <1>2, <2>1, <2>2, <2>3
<1>5. \A k \in 0..(n + 1) : f[k] \in Seq(Id)
  <2>1. \A k \in 0..n : acc[k] \in Seq(Id)
    BY <1>1 DEF Follows
  <2>2. \A k \in 0..(n + 1) : k \in 0..n \/ k = n + 1
    BY <1>1
  <2> QED  BY <1>4, <2>1, <2>2
<1>6. ASSUME NEW k \in 1..(n + 1)
      PROVE  FollowsOn(names, f[k - 1], Append(h, m)[k], f[k])
  <2>1. CASE k = n + 1
    <3>1. k - 1 = n /\ n \in 0..n
      BY <1>1, <2>1
    <3> QED  BY <1>1, <1>3, <1>4, <2>1, <3>1
  <2>2. CASE k # n + 1
    <3>1. k \in 1..n /\ k \in 0..n /\ k - 1 \in 0..n
      BY <1>1, <2>2
    <3>2. FollowsOn(names, acc[k - 1], h[k], acc[k])
      BY <1>1, <3>1 DEF Follows
    <3> QED  BY <1>3, <1>4, <3>1, <3>2
  <2> QED  BY <2>1, <2>2
<1> QED  BY <1>1, <1>3, <1>4, <1>5, <1>6 DEF Follows

Drop(ids, i) == [j \in 1..(Len(ids) - i) |-> ids[i + j]]

LEMMA DropTail ==
  ASSUME NEW ids \in Seq(Id), NEW i \in Nat, i < Len(ids)
  PROVE  /\ Drop(ids, i) \in Seq(Id) /\ Drop(ids, i) # <<>> /\ Head(Drop(ids, i)) = ids[i + 1]
         /\ Tail(Drop(ids, i)) = Drop(ids, i + 1)
<1>1. PICK l \in Nat : l = Len(ids) - i /\ l >= 1
  OBVIOUS
<1>2. \A j \in 1..l : i + j \in 1..Len(ids)
  BY <1>1
<1>3. Drop(ids, i) \in Seq(Id) /\ Len(Drop(ids, i)) = l
      /\ \A j \in 1..l : Drop(ids, i)[j] = ids[i + j]
  BY <1>1, <1>2 DEF Drop
<1>4. Drop(ids, i) # <<>> /\ Head(Drop(ids, i)) = ids[i + 1]
  BY <1>1, <1>3
<1>5. PICK d \in Seq(Id) : d = Tail(Drop(ids, i))
  BY <1>3, <1>4, HeadTailProperties
<1>6. Len(d) = l - 1 /\ \A j \in 1..(l - 1) : d[j] = Drop(ids, i)[j + 1]
  BY <1>1, <1>3, <1>4, <1>5, HeadTailProperties
<1>7. \A j \in 1..(l - 1) : d[j] = ids[(i + 1) + j]
  <2>1. \A j \in 1..(l - 1) : j + 1 \in 1..l /\ i + (j + 1) = (i + 1) + j
    BY <1>1
  <2> QED  BY <1>3, <1>6, <2>1
<1>8. d = [j \in 1..(l - 1) |-> ids[(i + 1) + j]]
  <2>1. d = [j \in 1..Len(d) |-> d[j]]
    OBVIOUS
  <2> QED  BY <1>6, <1>7, <2>1
<1>9. Len(ids) - (i + 1) = l - 1
  BY <1>1
<1> QED  BY <1>3, <1>4, <1>5, <1>8, <1>9 DEF Drop

LEMMA LongerHistory ==
  ASSUME NEW h \in Seq(ChatMessage), NEW more \in Seq(ChatMessage)
  PROVE  /\ Len(h \o more) = Len(h) + Len(more)
         /\ \A k \in 1..Len(h) + Len(more) :
              (h \o more)[k] = IF k <= Len(h) THEN h[k] ELSE more[k - Len(h)]
<1> QED  BY ConcatProperties

LEMMA FollowsResults ==
  ASSUME NEW h \in Seq(ChatMessage), NEW names, NEW acc, Follows(names, acc, h),
         NEW ids \in Seq(Id), acc[Len(h)] = ids, NEW results \in Seq(ChatMessage),
         Len(results) = Len(ids),
         \A i \in 1..Len(ids) :
           /\ ids[i] \notin {NoId, EmptyId}
           /\ results[i].role = "Tool" /\ results[i].calls = <<>> /\ results[i].result = ids[i]
  PROVE  \E f : Follows(names, f, h \o results) /\ f[Len(h \o results)] = <<>>
<1>1. PICK n \in Nat, l \in Nat : n = Len(h) /\ l = Len(ids)
  OBVIOUS
<1>2. PICK f : f = [k \in 0..(n + l) |-> IF k <= n THEN acc[k] ELSE Drop(ids, k - n)]
  OBVIOUS
<1>3. PICK all : all = h \o results
  OBVIOUS
<1>4. /\ Len(all) = n + l /\ \A k \in 1..n : all[k] = h[k]
      /\ \A i \in 1..l : all[n + i] = results[i]
  <2>1. /\ Len(all) = n + l
        /\ \A k \in 1..(n + l) : all[k] = IF k <= n THEN h[k] ELSE results[k - n]
    <3>1. /\ Len(h \o results) = Len(h) + Len(results)
          /\ \A k \in 1..Len(h) + Len(results) :
               (h \o results)[k] = IF k <= Len(h) THEN h[k] ELSE results[k - Len(h)]
      BY LongerHistory
    <3> QED  BY <1>1, <1>3, <3>1
  <2>2. \A k \in 1..n : k \in 1..(n + l) /\ k <= n
    BY <1>1
  <2>3. \A i \in 1..l : n + i \in 1..(n + l) /\ ~(n + i <= n) /\ (n + i) - n = i
    BY <1>1
  <2> QED  BY <2>1, <2>2, <2>3
<1>5. acc[0] = <<>> /\ \A k \in 0..n : f[k] = acc[k] /\ acc[k] \in Seq(Id)
  <2>1. \A k \in 0..n : k \in 0..(n + l) /\ k <= n
    BY <1>1
  <2> QED  BY <1>1, <1>2, <2>1 DEF Follows
<1>6. Drop(ids, 0) = ids
  <2>1. ids = [j \in 1..l |-> ids[j]]
    BY <1>1
  <2>2. \A j \in 1..l : 0 + j = j
    BY <1>1
  <2>3. l - 0 = l
    BY <1>1
  <2> QED  BY <1>1, <2>1, <2>2, <2>3 DEF Drop
<1>7. \A i \in 0..l : f[n + i] = Drop(ids, i)
  <2> SUFFICES ASSUME NEW i \in 0..l PROVE f[n + i] = Drop(ids, i)
    OBVIOUS
  <2>1. CASE i = 0
    <3>1. n + i = n /\ n \in 0..n
      BY <1>1, <2>1
    <3>2. f[n] = ids
      BY <1>1, <1>5, <3>1
    <3> QED  BY <1>6, <2>1, <3>1, <3>2
  <2>2. CASE i # 0
    <3>1. n + i \in 0..(n + l) /\ ~(n + i <= n) /\ (n + i) - n = i
      BY <1>1, <2>2
    <3> QED  BY <1>2, <3>1
  <2> QED  BY <2>1, <2>2
<1>8. \A i \in 0..l : Drop(ids, i) \in Seq(Id)
  <2> SUFFICES ASSUME NEW i \in 0..l PROVE Drop(ids, i) \in Seq(Id)
    OBVIOUS
  <2>1. Len(ids) - i \in Nat /\ \A j \in 1..(Len(ids) - i) : i + j \in 1..Len(ids)
    BY <1>1
  <2> QED  BY <2>1 DEF Drop
<1>9. \A k \in 0..(n + l) : f[k] \in Seq(Id)
  <2> SUFFICES ASSUME NEW k \in 0..(n + l) PROVE f[k] \in Seq(Id)
    OBVIOUS
  <2>1. CASE k <= n
    <3>1. k \in 0..n
      BY <1>1, <2>1
    <3> QED  BY <1>5, <3>1
  <2>2. CASE ~(k <= n)
    <3>1. k - n \in 0..l /\ n + (k - n) = k
      BY <1>1, <2>2
    <3> QED  BY <1>7, <1>8, <3>1
  <2> QED  BY <2>1, <2>2
<1>10. ASSUME NEW k \in 1..(n + l) PROVE FollowsOn(names, f[k - 1], all[k], f[k])
  <2>1. CASE k <= n
    <3>1. k \in 1..n /\ k \in 0..n /\ k - 1 \in 0..n
      BY <1>1, <2>1
    <3>2. FollowsOn(names, acc[k - 1], h[k], acc[k])
      BY <1>1, <3>1 DEF Follows
    <3> QED  BY <1>4, <1>5, <3>1, <3>2
  <2>2. CASE ~(k <= n)
    <3>1. PICK i \in 0..l : k = n + (i + 1) /\ i + 1 \in 1..l /\ i + 1 \in 0..l /\ k - 1 = n + i
      <4>1. (k - n) - 1 \in 0..l /\ k = n + (((k - n) - 1) + 1) /\ ((k - n) - 1) + 1 \in 1..l
            /\ ((k - n) - 1) + 1 \in 0..l /\ k - 1 = n + ((k - n) - 1)
        BY <1>1, <2>2
      <4> QED  BY <4>1
    <3>2. f[k - 1] = Drop(ids, i) /\ f[k] = Drop(ids, i + 1) /\ all[k] = results[i + 1]
      BY <1>4, <1>7, <3>1
    <3>3. i \in Nat /\ i < Len(ids)
      BY <1>1, <3>1
    <3>4. /\ Drop(ids, i) # <<>> /\ Head(Drop(ids, i)) = ids[i + 1]
          /\ Tail(Drop(ids, i)) = Drop(ids, i + 1)
      BY <3>3, DropTail
    <3>5. /\ ids[i + 1] \notin {NoId, EmptyId} /\ results[i + 1].role = "Tool"
          /\ results[i + 1].calls = <<>> /\ results[i + 1].result = ids[i + 1]
      BY <1>1, <3>1
    <3> QED  BY <3>2, <3>4, <3>5 DEF FollowsOn
  <2> QED  BY <2>1, <2>2
<1>11. f[n + l] = <<>>
  <2>1. l \in 0..l /\ Len(ids) - l = 0
    BY <1>1
  <2>2. Drop(ids, l) = <<>>
    BY <2>1 DEF Drop
  <2> QED  BY <1>7, <2>1, <2>2
<1>12. f[0] = <<>>
  <2>1. 0 \in 0..n
    BY <1>1
  <2> QED  BY <1>5, <2>1
<1> QED  BY <1>3, <1>4, <1>9, <1>10, <1>11, <1>12 DEF Follows

-----------------------------------------------------------------------------
(* The inductive invariant.                                                *)

TypeInv ==
  /\ tools \in ToolLists /\ output \in Outputs \cup {<<>>}
  /\ phase \in {"writing", "refused", "generating", "replied"}
  /\ careful \in BOOLEAN /\ requests \in 0..MaxRequests
  /\ qwen \in BOOLEAN /\ template \in Requested \cup {NoTemplate}
  /\ history \in Seq(ChatMessage)

(* What is known of a reply while the client has it.                       *)
ReplyInv ==
  /\ phase # "replied" => reply = NoReply
  /\ phase = "replied" =>
       /\ reply.calls \in Seq(ToolCall) /\ GoodCalls(Declared, reply.calls)
       /\ reply.finish = "ToolCalls" <=> reply.calls # <<>>
       /\ tools = <<>> => reply.calls = <<>>
       /\ RenderedBy(template) # Failed /\ output \in Outputs
       /\ tools # <<>> => /\ Shows(output, reply.text, ShownTo(output, Len(output)))
                          /\ Calls(output, reply.calls, BodiesTo(output, Len(output)))

(* What was let through without tools has no calls.                        *)
BareInv ==
  phase \in {"generating", "replied"} /\ tools = <<>> =>
    \A m \in Range(history) : m.calls = <<>> /\ m.role # "Tool"

(* The ids that wait are those of the calls a careful client has to answer.*)
CarefulInv ==
  careful => /\ ToolsValid(tools) /\ phase # "refused"
             /\ phase \in {"generating", "replied"} => Waiting = <<>>
             /\ \E acc : Follows(Declared, acc, history) /\ acc[Len(history)] = IdsOf(Waiting)

ToolInv == TypeInv /\ ReplyInv /\ BareInv /\ CarefulInv

LEMMA HistoryTyped ==
  ASSUME NEW h \in Seq(ChatMessage)
  PROVE  /\ Len(h) \in Nat /\ DOMAIN h = 1..Len(h) /\ (h = <<>> <=> Len(h) = 0)
         /\ h # <<>> => Last(h) \in ChatMessage /\ Last(h) = h[Len(h)]
         /\ Waiting \in Seq(ToolCall) \/ history # h
<1>1. Len(h) \in Nat /\ DOMAIN h = 1..Len(h) /\ (h = <<>> <=> Len(h) = 0)
  OBVIOUS
<1>2. h # <<>> => Last(h) \in ChatMessage /\ Last(h) = h[Len(h)]
  BY <1>1 DEF Last
<1>3. \A m \in ChatMessage : m.calls \in Seq(ToolCall)
  BY DEF ChatMessage
<1>4. history = h => Waiting \in Seq(ToolCall)
  BY <1>2, <1>3 DEF Waiting
<1> QED  BY <1>1, <1>2, <1>4

LEMMA ToolInit == Init => ToolInv
<1> SUFFICES ASSUME Init PROVE ToolInv
  OBVIOUS
<1>1. TypeInv
  BY ToolAssumption DEF Init, TypeInv, ToolsValid
<1>2. ReplyInv /\ BareInv
  BY DEF Init, ReplyInv, BareInv
<1>3. CarefulInv
  <2> SUFFICES ASSUME careful
               PROVE  \E acc : Follows(Declared, acc, history) /\ acc[Len(history)] = IdsOf(Waiting)
    BY DEF CarefulInv, Init
  <2>1. history = <<>> /\ Len(history) = 0 /\ Waiting = <<>>
    BY DEF Init, Waiting
  <2>2. IdsOf(Waiting) = <<>>
    BY <2>1 DEF IdsOf
  <2> DEFINE acc == [k \in 0..0 |-> <<>>]
  <2>3. acc[0] = <<>> /\ <<>> \in Seq(Id) /\ \A k \in 0..0 : k = 0
    OBVIOUS
  <2> HIDE DEF acc
  <2>5. \A k \in 1..Len(history) : FALSE
    BY <2>1
  <2>6. \A k \in 0..Len(history) : acc[k] \in Seq(Id)
    BY <2>1, <2>3
  <2>4. Follows(Declared, acc, history)
    BY <2>3, <2>5, <2>6, Zenon DEF Follows
  <2> QED  BY <2>1, <2>2, <2>3, <2>4
<1> QED  BY <1>1, <1>2, <1>3 DEF ToolInv

LEMMA AskKeeps == ToolInv /\ Ask => ToolInv'
<1> SUFFICES ASSUME ToolInv, Ask PROVE ToolInv'
  OBVIOUS
<1>1. PICK m, h : m = Plain("User") /\ h = history
  OBVIOUS
<1>2. /\ phase = "writing" /\ careful /\ Waiting = <<>>
      /\ history' = Append(h, m)
      /\ UNCHANGED <<tools, careful, phase, requests, qwen, template, output, reply>>
  BY <1>1 DEF Ask, WorkerSide
<1>3. h \in Seq(ChatMessage) /\ Len(h) \in Nat /\ m \in ChatMessage
  BY <1>1, HistoryTyped DEF ToolInv, TypeInv, Plain, ChatMessage
<1>4. /\ history' \in Seq(ChatMessage) /\ Len(history') = Len(h) + 1
      /\ Append(h, m)[Len(h) + 1] = m
  BY <1>2, <1>3, AppendProperties
<1>5. TypeInv' /\ ReplyInv' /\ BareInv'
  BY <1>2, <1>4 DEF ToolInv, TypeInv, ReplyInv, BareInv
<1>6. Waiting' = <<>>
  BY <1>1, <1>2, <1>4 DEF Waiting, Last, Plain
<1>7. PICK acc : Follows(Declared, acc, h) /\ acc[Len(h)] = <<>>
  BY <1>1, <1>2 DEF ToolInv, CarefulInv, IdsOf
<1>8. FollowsOn(Declared, acc[Len(h)], m, <<>>)
  BY <1>1, <1>7 DEF FollowsOn, Plain
<1>9. PICK f : Follows(Declared, f, Append(h, m)) /\ f[Len(h) + 1] = <<>>
  <2>1. PICK names, w : names = Declared /\ w = <<>>
    OBVIOUS
  <2>2. Follows(names, acc, h) /\ w \in Seq(Id) /\ FollowsOn(names, acc[Len(h)], m, w)
    BY <1>7, <1>8, <2>1
  <2>3. \E f : Follows(names, f, Append(h, m)) /\ f[Len(h) + 1] = w
    BY <1>3, <2>2, FollowsAppend
  <2> QED  BY <2>1, <2>3
<1>10. Follows(Declared, f, history)' /\ f[Len(history')] = IdsOf(Waiting)'
  <2>1. IdsOf(<<>>) = <<>>
    BY DEF IdsOf
  <2>2. Declared' = Declared
    BY <1>2 DEF Declared
  <2> QED  BY <1>2, <1>4, <1>6, <1>9, <2>1, <2>2
<1>11. CarefulInv'
  BY <1>2, <1>6, <1>10 DEF ToolInv, CarefulInv
<1> QED  BY <1>5, <1>11 DEF ToolInv

LEMMA AnswerKeeps == ToolInv /\ AnswerCalls => ToolInv'
<1> SUFFICES ASSUME ToolInv, AnswerCalls PROVE ToolInv'
  OBVIOUS
<1>1. PICK h, calls, results :
        /\ h = history /\ calls = Waiting
        /\ results = [i \in DOMAIN calls |-> [Plain("Tool") EXCEPT !.result = calls[i].id]]
  OBVIOUS
<1>2. /\ phase = "writing" /\ careful /\ calls # <<>>
      /\ history' = h \o results
      /\ UNCHANGED <<tools, careful, phase, requests, qwen, template, output, reply>>
  BY <1>1 DEF AnswerCalls, WorkerSide
<1>3. /\ h \in Seq(ChatMessage) /\ Len(h) \in Nat /\ calls \in Seq(ToolCall)
      /\ Len(h) > 0 /\ h[Len(h)] \in ChatMessage /\ h[Len(h)].role = "Assistant"
      /\ h[Len(h)].calls = calls
  <2>1. h \in Seq(ChatMessage)
    BY <1>1 DEF ToolInv, TypeInv
  <2>2. h # <<>> /\ Last(h).role = "Assistant" /\ Last(h).calls = calls
    BY <1>1, <1>2 DEF Waiting
  <2>3. /\ Len(h) \in Nat /\ (h = <<>> <=> Len(h) = 0)
        /\ Last(h) \in ChatMessage /\ Last(h) = h[Len(h)]
    BY <2>1, <2>2, HistoryTyped
  <2>4. \A m \in ChatMessage : m.calls \in Seq(ToolCall)
    BY DEF ChatMessage
  <2> QED  BY <2>1, <2>2, <2>3, <2>4
<1>4. PICK acc : Follows(Declared, acc, h) /\ acc[Len(h)] = IdsOf(calls)
  BY <1>1, <1>2 DEF ToolInv, CarefulInv
<1>5. GoodCalls(Declared, calls)
  <2>1. Len(h) \in 1..Len(h)
    BY <1>3
  <2>2. FollowsOn(Declared, acc[Len(h) - 1], h[Len(h)], acc[Len(h)])
    BY <1>4, <2>1 DEF Follows
  <2> QED  BY <1>3, <2>2 DEF FollowsOn
<1>6. PICK ids, l : ids = IdsOf(calls) /\ l = Len(calls) /\ l \in Nat
  BY <1>3
<1>7. DOMAIN calls = 1..l /\ \A i \in 1..l : calls[i] \in ToolCall /\ calls[i].id \in Id
  <2>1. DOMAIN calls = 1..l /\ \A i \in 1..l : calls[i] \in ToolCall
    BY <1>3, <1>6
  <2>2. \A call \in ToolCall : call.id \in Id
    BY DEF ToolCall
  <2> QED  BY <2>1, <2>2
<1>8. ids \in Seq(Id) /\ Len(ids) = l /\ \A i \in 1..l : ids[i] = calls[i].id
  BY <1>6, <1>7 DEF IdsOf
<1>9. \A i \in 1..l : /\ results[i] \in ChatMessage /\ results[i].role = "Tool"
                      /\ results[i].calls = <<>> /\ results[i].result = ids[i]
  <2> SUFFICES ASSUME NEW i \in 1..l
               PROVE  /\ results[i] \in ChatMessage /\ results[i].role = "Tool"
                      /\ results[i].calls = <<>> /\ results[i].result = ids[i]
    OBVIOUS
  <2>1. results[i] = [role |-> "Tool", calls |-> <<>>, result |-> calls[i].id]
    BY <1>1, <1>7 DEF Plain
  <2>2. calls[i].id \in Id /\ ids[i] = calls[i].id
    BY <1>7, <1>8
  <2>3. <<>> \in Seq(ToolCall)
    OBVIOUS
  <2>4. results[i] \in ChatMessage
    BY <2>1, <2>2, <2>3 DEF ChatMessage
  <2> QED  BY <2>1, <2>2, <2>4
<1>10. results \in Seq(ChatMessage) /\ Len(results) = l
  <2>1. results = [i \in 1..l |-> results[i]]
    BY <1>1, <1>7
  <2> QED  BY <1>6, <1>9, <2>1
<1>11. \A i \in 1..l : ids[i] \notin {NoId, EmptyId}
  BY <1>5, <1>6, <1>8 DEF GoodCalls
<1>12. PICK f : Follows(Declared, f, h \o results) /\ f[Len(h \o results)] = <<>>
  <2>1. PICK names : names = Declared
    OBVIOUS
  <2>2. Follows(names, acc, h) /\ acc[Len(h)] = ids /\ Len(results) = Len(ids)
    BY <1>4, <1>6, <1>8, <1>10, <2>1
  <2>3. \A i \in 1..Len(ids) :
          /\ ids[i] \notin {NoId, EmptyId}
          /\ results[i].role = "Tool" /\ results[i].calls = <<>> /\ results[i].result = ids[i]
    BY <1>8, <1>9, <1>11
  <2>4. \E f : Follows(names, f, h \o results) /\ f[Len(h \o results)] = <<>>
    BY <1>3, <1>8, <1>10, <2>2, <2>3, FollowsResults
  <2> QED  BY <2>1, <2>4
<1>13. /\ history' \in Seq(ChatMessage) /\ Len(history') \in Nat /\ history' # <<>>
       /\ Last(history').role = "Tool"
  <2>1. l > 0
    BY <1>2, <1>3, <1>6
  <2>2. /\ history' \in Seq(ChatMessage) /\ Len(history') = Len(h) + l
        /\ history'[Len(h) + l] = results[l]
    <3>1. h \o results \in Seq(ChatMessage)
      BY <1>3, <1>10
    <3>2. Len(h \o results) = Len(h) + l
      BY <1>3, <1>10, LongerHistory
    <3>3. (h \o results)[Len(h) + l] = results[l]
      <4>1. /\ Len(h) + l \in 1..Len(h) + Len(results) /\ ~(Len(h) + l <= Len(h))
            /\ (Len(h) + l) - Len(h) = l
        BY <1>3, <1>10, <2>1
      <4>2. (h \o results)[Len(h) + l] = results[(Len(h) + l) - Len(h)]
        BY <1>3, <1>10, <4>1, LongerHistory
      <4> QED  BY <4>1, <4>2
    <3> QED  BY <1>2, <3>1, <3>2, <3>3
  <2>3. Len(history') > 0 /\ history' # <<>> /\ Len(history') \in Nat
    BY <1>3, <1>6, <2>1, <2>2
  <2>4. results[l].role = "Tool"
    BY <1>6, <1>9, <2>1
  <2> QED  BY <2>2, <2>3, <2>4 DEF Last
<1>14. TypeInv' /\ ReplyInv' /\ BareInv'
  BY <1>2, <1>13 DEF ToolInv, TypeInv, ReplyInv, BareInv
<1>15. Waiting' = <<>>
  BY <1>13 DEF Waiting
<1>16. Follows(Declared, f, history)' /\ f[Len(history')] = IdsOf(Waiting)'
  <2>1. IdsOf(<<>>) = <<>>
    BY DEF IdsOf
  <2>2. Declared' = Declared
    BY <1>2 DEF Declared
  <2> QED  BY <1>2, <1>12, <1>15, <2>1, <2>2
<1>17. CarefulInv'
  BY <1>2, <1>15, <1>16 DEF ToolInv, CarefulInv
<1> QED  BY <1>14, <1>17 DEF ToolInv

LEMMA WriteKeeps == ToolInv /\ Write => ToolInv'
<1> SUFFICES ASSUME ToolInv, Write PROVE ToolInv'
  OBVIOUS
<1>1. PICK m \in Written : history' = Append(history, m)
  BY DEF Write
<1>2. /\ phase = "writing" /\ careful' = FALSE
      /\ UNCHANGED <<tools, phase, requests, qwen, template, output, reply>>
  BY DEF Write, WorkerSide
<1>3. history' \in Seq(ChatMessage)
  BY <1>1, ToolAssumption, AppendProperties DEF ToolInv, TypeInv
<1> QED  BY <1>2, <1>3 DEF ToolInv, TypeInv, ReplyInv, BareInv, CarefulInv

LEMMA EchoKeeps == ToolInv /\ Echo => ToolInv'
<1> SUFFICES ASSUME ToolInv, Echo PROVE ToolInv'
  OBVIOUS
<1>1. PICK h, calls, m :
        h = history /\ calls = reply.calls /\ m = [Plain("Assistant") EXCEPT !.calls = calls]
  OBVIOUS
<1>2. /\ phase = "replied" /\ phase' = "writing" /\ history' = Append(h, m)
      /\ reply' = NoReply /\ output' = <<>> /\ template' = NoTemplate
      /\ UNCHANGED <<tools, careful, requests, qwen>>
  BY <1>1 DEF Echo
<1>3. calls \in Seq(ToolCall) /\ GoodCalls(Declared, calls)
  BY <1>1, <1>2 DEF ToolInv, ReplyInv
<1>4. h \in Seq(ChatMessage) /\ Len(h) \in Nat
  BY <1>1, HistoryTyped DEF ToolInv, TypeInv
<1>5. m \in ChatMessage /\ m.role = "Assistant" /\ m.calls = calls /\ m.result = NoId
  BY <1>1, <1>3 DEF Plain, ChatMessage
<1>6. /\ history' \in Seq(ChatMessage) /\ Len(history') = Len(h) + 1 /\ history' # <<>>
      /\ Append(h, m)[Len(h) + 1] = m
  BY <1>2, <1>4, <1>5, AppendProperties
<1>7. TypeInv' /\ ReplyInv' /\ BareInv'
  BY <1>2, <1>6 DEF ToolInv, TypeInv, ReplyInv, BareInv
<1>8. Waiting' = calls
  BY <1>2, <1>5, <1>6 DEF Waiting, Last
<1>9. ASSUME careful
      PROVE  \E f : Follows(Declared, f, history)' /\ f[Len(history')] = IdsOf(Waiting)'
  <2>1. PICK acc : Follows(Declared, acc, h) /\ acc[Len(h)] = <<>>
    <3>1. Waiting = <<>>
      BY <1>2, <1>9 DEF ToolInv, CarefulInv
    <3>2. IdsOf(<<>>) = <<>>
      BY DEF IdsOf
    <3> QED  BY <1>1, <1>9, <3>1, <3>2 DEF ToolInv, CarefulInv
  <2>2. PICK names, w : names = Declared /\ w = IdsOf(calls)
    OBVIOUS
  <2>3. w \in Seq(Id)
    <3>1. \A k \in 1..Len(calls) : calls[k] \in ToolCall /\ Len(calls) \in Nat
      BY <1>3
    <3>2. \A call \in ToolCall : call.id \in Id
      BY DEF ToolCall
    <3>3. Len(calls) \in Nat
      BY <1>3
    <3> QED  BY <2>2, <3>1, <3>2, <3>3 DEF IdsOf
  <2>4. Follows(names, acc, h) /\ FollowsOn(names, acc[Len(h)], m, w)
    BY <1>3, <1>5, <2>1, <2>2 DEF FollowsOn
  <2>5. PICK f : Follows(names, f, Append(h, m)) /\ f[Len(h) + 1] = w
    BY <1>4, <1>5, <2>3, <2>4, FollowsAppend
  <2>6. Declared' = Declared
    BY <1>2 DEF Declared
  <2> QED  BY <1>2, <1>6, <1>8, <2>2, <2>5, <2>6
<1>10. CarefulInv'
  BY <1>2, <1>9 DEF ToolInv, CarefulInv
<1> QED  BY <1>7, <1>10 DEF ToolInv

LEMMA SubmitKeeps == ToolInv /\ Submit => ToolInv'
<1> SUFFICES ASSUME ToolInv, Submit PROVE ToolInv'
  OBVIOUS
<1>1. /\ phase = "writing" /\ requests < MaxRequests /\ requests' = requests + 1
      /\ UNCHANGED <<tools, history, qwen, output, reply>>
      /\ careful' = (careful /\ history # <<>> /\ Waiting = <<>>)
  BY DEF Submit
<1>2. \/ Accepted(history) /\ phase' = "generating" /\ template' \in Requested
      \/ ~Accepted(history) /\ phase' = "refused" /\ template' = template
  BY DEF Submit
<1>3. history \in Seq(ChatMessage)
  BY DEF ToolInv, TypeInv
<1>4. TypeInv' /\ ReplyInv'
  <2>1. requests + 1 \in 0..MaxRequests
    BY <1>1, ToolAssumption DEF ToolInv, TypeInv
  <2> QED  BY <1>1, <1>2, <2>1 DEF ToolInv, TypeInv, ReplyInv
<1>5. BareInv'
  <2>1. ASSUME tools = <<>>, Accepted(history)
        PROVE  \A m \in Range(history) : m.calls = <<>> /\ m.role # "Tool"
    BY <1>3, <2>1, NoToolsNoCalls DEF Accepted
  <2> QED  BY <1>1, <1>2, <2>1 DEF BareInv
<1>6. Waiting' = Waiting
  BY <1>1 DEF Waiting
<1>7. ASSUME careful' PROVE Accepted(history)
  <2>1. careful /\ history # <<>> /\ Waiting = <<>>
    BY <1>1, <1>7
  <2>2. PICK acc : Follows(Declared, acc, history) /\ acc[Len(history)] = IdsOf(Waiting)
    BY <2>1 DEF ToolInv, CarefulInv
  <2>3. Pending(history) = acc[Len(history)] /\ Converted(history)
    BY <1>3, <2>2, FollowedAccepted
  <2>4. IdsOf(<<>>) = <<>>
    BY DEF IdsOf
  <2> QED  BY <2>1, <2>2, <2>3, <2>4 DEF Accepted, ToolInv, CarefulInv
<1>8. CarefulInv'
  <2> SUFFICES ASSUME careful' PROVE CarefulInv'
    BY DEF CarefulInv
  <2>1. careful /\ Waiting = <<>> /\ phase' = "generating"
    BY <1>1, <1>2, <1>7
  <2>2. Declared' = Declared
    BY <1>1 DEF Declared
  <2> QED  BY <1>1, <1>6, <2>1, <2>2 DEF ToolInv, CarefulInv
<1> QED  BY <1>4, <1>5, <1>8 DEF ToolInv

(* GgufModel::generate_chat: what a reply is made of.                      *)
LEMMA ReplyGood ==
  ASSUME requests \in Nat, NEW text \in Outputs, ReplyOf(text) # NoReply
  PROVE  LET r == ReplyOf(text) IN
         /\ r.calls \in Seq(ToolCall) /\ GoodCalls(Declared, r.calls)
         /\ r.finish = "ToolCalls" <=> r.calls # <<>>
         /\ tools = <<>> => r.calls = <<>>
         /\ tools # <<>> => /\ Shows(text, r.text, ShownTo(text, Len(text)))
                            /\ Calls(text, r.calls, BodiesTo(text, Len(text)))
<1>1. PICK r : r = ReplyOf(text)
  OBVIOUS
<1>2. text \in Seq(Piece)
  BY ToolAssumption
<1>3. CASE tools = <<>>
  <2>1. r = [text |-> text, calls |-> <<>>, finish |-> "Stop"]
    BY <1>1, <1>3 DEF ReplyOf
  <2>2. <<>> \in Seq(ToolCall) /\ GoodCalls(Declared, <<>>)
    BY DEF GoodCalls
  <2> QED  BY <1>1, <1>3, <2>1, <2>2
<1>4. CASE tools # <<>>
  <2>1. PICK parsed : parsed = ParseToolCalls(text)
    OBVIOUS
  <2>2. /\ parsed # Failed /\ parsed.block = Outside
        /\ r = [text |-> parsed.visible, calls |-> parsed.calls, finish |-> Finish(parsed.calls)]
    BY <1>1, <1>4, <2>1 DEF ReplyOf
  <2>3. parsed.calls \in Seq(ToolCall) /\ GoodCalls(Declared, parsed.calls)
    BY <1>2, <2>1, <2>2, ParsedGood
  <2>4. /\ Shows(text, parsed.visible, ShownTo(text, Len(text)))
        /\ Calls(text, parsed.calls, BodiesTo(text, Len(text)))
    BY <1>2, <2>1, <2>2, ParsedWithheld
  <2>5. r.finish = "ToolCalls" <=> r.calls # <<>>
    BY <2>2 DEF Finish
  <2> QED  BY <1>1, <1>4, <2>2, <2>3, <2>4, <2>5
<1> QED  BY <1>3, <1>4

LEMMA GenerateKeeps == ToolInv /\ (Generate \/ GenerateFails) => ToolInv'
<1> SUFFICES ASSUME ToolInv, Generate \/ GenerateFails PROVE ToolInv'
  OBVIOUS
<1>1. /\ phase = "generating" /\ UNCHANGED <<tools, history, careful, requests, qwen>>
      /\ requests \in Nat /\ requests' \in 0..MaxRequests
  BY ToolAssumption DEF Generate, GenerateFails, ToolInv, TypeInv
<1>2. Waiting' = Waiting /\ Declared' = Declared
  BY <1>1 DEF Waiting, Declared
<1>3. CASE Generate
  <2>1. PICK text \in Outputs : ReplyOf(text) # NoReply /\ reply' = ReplyOf(text) /\ output' = text
    BY <1>3 DEF Generate
  <2>2. phase' = "replied" /\ RenderedBy(template) # Failed /\ template' = template
    BY <1>3 DEF Generate
  <2>3. RenderedBy(template)' = RenderedBy(template)
    BY <1>1, <2>2 DEF RenderedBy, Select
  <2>4. ReplyInv'
    <3>1. PICK r : r = ReplyOf(text)
      OBVIOUS
    <3>2. /\ r.calls \in Seq(ToolCall) /\ GoodCalls(Declared, r.calls)
          /\ r.finish = "ToolCalls" <=> r.calls # <<>>
          /\ tools = <<>> => r.calls = <<>>
          /\ tools # <<>> => /\ Shows(text, r.text, ShownTo(text, Len(text)))
                             /\ Calls(text, r.calls, BodiesTo(text, Len(text)))
      BY <1>1, <2>1, <3>1, ReplyGood
    <3>3. reply' = r
      BY <2>1, <3>1
    <3> QED  BY <1>1, <1>2, <2>1, <2>2, <2>3, <3>2, <3>3 DEF ReplyInv
  <2>5. TypeInv' /\ BareInv' /\ CarefulInv'
    BY <1>1, <1>2, <2>1, <2>2 DEF ToolInv, TypeInv, BareInv, CarefulInv
  <2> QED  BY <2>4, <2>5 DEF ToolInv
<1>4. CASE GenerateFails
  <2>1. phase' = "writing" /\ template' = NoTemplate /\ UNCHANGED <<output, reply>>
    BY <1>4 DEF GenerateFails
  <2> QED  BY <1>1, <1>2, <2>1 DEF ToolInv, TypeInv, ReplyInv, BareInv, CarefulInv
<1> QED  BY <1>3, <1>4

-----------------------------------------------------------------------------
(* The validator and what README.md says of histories.                     *)

(* A list of lists, flattened one list at a time.                          *)
IsFlat(C, n, seqs) ==
  C[0] = <<>> /\ \A k \in 1..n : C[k] = C[k - 1] \o seqs[k]

LEMMA FlatExists ==
  ASSUME NEW V, NEW seqs, NEW n \in Nat, \A k \in 1..n : seqs[k] \in Seq(V)
  PROVE  \E C \in [0..n -> Seq(V)] : IsFlat(C, n, seqs)
<1> DEFINE S == {k \in Nat : k <= n => \E C \in [0..k -> Seq(V)] : IsFlat(C, k, seqs)}
<1>1. 0 \in S
  <2> DEFINE C == [k \in 0..0 |-> <<>>]
  <2>1. C \in [0..0 -> Seq(V)] /\ C[0] = <<>> /\ 1..0 = {}
    OBVIOUS
  <2> HIDE DEF C
  <2>2. IsFlat(C, 0, seqs)
    BY <2>1 DEF IsFlat
  <2> QED  BY <2>1, <2>2
<1>2. ASSUME NEW k \in S PROVE k + 1 \in S
  <2> SUFFICES ASSUME k + 1 <= n PROVE \E C \in [0..(k + 1) -> Seq(V)] : IsFlat(C, k + 1, seqs)
    OBVIOUS
  <2>1. k \in Nat /\ k + 1 \in 1..n
    OBVIOUS
  <2>2. PICK C \in [0..k -> Seq(V)] : IsFlat(C, k, seqs)
    BY <2>1
  <2> DEFINE D == [j \in 0..(k + 1) |-> IF j = k + 1 THEN C[k] \o seqs[k + 1] ELSE C[j]]
  <2>3. D \in [0..(k + 1) -> Seq(V)]
    <3>1. C[k] \o seqs[k + 1] \in Seq(V)
      BY <2>1, ConcatProperties
    <3> QED  BY <2>1, <3>1
  <2>4. D[0] = <<>> /\ \A j \in 1..(k + 1) : D[j] = D[j - 1] \o seqs[j]
    <3>1. D[0] = C[0] /\ D[k + 1] = C[k] \o seqs[k + 1] /\ D[k] = C[k] /\ (k + 1) - 1 = k
      BY <2>1
    <3>2. \A j \in 1..k : D[j] = C[j] /\ D[j - 1] = C[j - 1]
      BY <2>1
    <3>3. \A j \in 1..(k + 1) : j \in 1..k \/ j = k + 1
      BY <2>1
    <3> HIDE DEF D
    <3> QED  BY <2>2, <3>1, <3>2, <3>3 DEF IsFlat
  <2> HIDE DEF D
  <2> QED  BY <2>3, <2>4 DEF IsFlat
<1> HIDE DEF S
<1>3. S \in SUBSET Nat
  BY DEF S
<1>4. n \in S
  BY <1>1, <1>2, <1>3, NatInductionSet
<1> QED  BY <1>4 DEF S

LEMMA Flattened ==
  ASSUME NEW V, NEW seqs, NEW n \in Nat, seqs \in [1..n -> Seq(V)]
  PROVE  \E C \in [0..n -> Seq(V)] : IsFlat(C, n, seqs) /\ FlattenSeq(seqs) = C[n]
<1>1. PICK C \in [0..n -> Seq(V)] : IsFlat(C, n, seqs)
  BY FlatExists
<1>2. Len(seqs) = n /\ seqs \in Seq(Seq(V))
  OBVIOUS
<1>3. CASE n = 0
  <2>1. FlattenSeq(seqs) = <<>>
    BY <1>2, <1>3 DEF FlattenSeq
  <2> QED  BY <1>1, <1>3, <2>1 DEF IsFlat
<1>4. CASE n # 0
  <2> DEFINE Eq(f) == f = [i \in 1..n |-> IF i = 1 THEN seqs[i] ELSE f[i - 1] \o seqs[i]]
             first == [i \in 1..n |-> C[i]]
             flatten == CHOOSE f : Eq(f)
  <2>1. C[1] = seqs[1]
    <3>1. C[1] = <<>> \o seqs[1] /\ seqs[1] \in Seq(V)
      <4>1. 1 \in 1..n /\ 1 - 1 = 0
        BY <1>4
      <4> QED  BY <1>1, <4>1 DEF IsFlat
    <3> QED  BY <3>1, ConcatEmptySeq
  <2>2. Eq(first)
    <3>1. ASSUME NEW i \in 1..n
          PROVE  C[i] = IF i = 1 THEN seqs[i] ELSE first[i - 1] \o seqs[i]
      <4>1. i # 1 => i - 1 \in 1..n
        OBVIOUS
      <4> QED  BY <1>1, <2>1, <4>1 DEF IsFlat
    <3> QED  BY <3>1
  <2>3. Eq(flatten)
    <3> HIDE DEF Eq
    <3> QED  BY <2>2
  <2>4. FlattenSeq(seqs) = flatten[n]
    BY <1>2, <1>4 DEF FlattenSeq
  <2> HIDE DEF flatten
  <2> DEFINE S == {k \in Nat : k + 1 <= n => flatten[k + 1] = C[k + 1]}
  <2>5. 0 \in S
    BY <1>4, <2>1, <2>3
  <2>6. ASSUME NEW k \in S PROVE k + 1 \in S
    <3> SUFFICES ASSUME (k + 1) + 1 <= n PROVE flatten[(k + 1) + 1] = C[(k + 1) + 1]
      OBVIOUS
    <3>1. PICK j \in Nat : j = (k + 1) + 1
      OBVIOUS
    <3>2. k \in Nat /\ j \in 1..n /\ j # 1 /\ j - 1 = k + 1 /\ flatten[k + 1] = C[k + 1]
      BY <3>1
    <3>3. flatten[j] = flatten[j - 1] \o seqs[j]
      BY <2>3, <3>2
    <3>4. C[j] = C[j - 1] \o seqs[j]
      BY <1>1, <3>2 DEF IsFlat
    <3> QED  BY <3>1, <3>2, <3>3, <3>4
  <2>7. n - 1 \in S
    <3> HIDE DEF S
    <3>1. S \in SUBSET Nat
      BY DEF S
    <3>2. n - 1 \in Nat
      BY <1>4
    <3> QED  BY <2>5, <2>6, <3>1, <3>2, NatInductionSet
  <2>8. flatten[n] = C[n]
    <3>1. (n - 1) + 1 = n
      OBVIOUS
    <3> QED  BY <2>7, <3>1
  <2> QED  BY <1>1, <2>4, <2>8
<1> QED  BY <1>3, <1>4

(* The places of the calls and results of a history, message by message.   *)
Place == Nat \X (Id \cup {NoId})
CallsAt(h, p) == [k \in 1..Len(h[p].calls) |-> <<p, h[p].calls[k].id>>]
ResultsAt(h, p) == IF h[p].role = "Tool" THEN <<<<p, h[p].result>>>> ELSE <<>>

LEMMA PlacesAt ==
  ASSUME NEW h \in Seq(ChatMessage)
  PROVE  /\ CallsIn(h) = FlattenSeq([p \in 1..Len(h) |-> CallsAt(h, p)])
         /\ ResultsIn(h) = FlattenSeq([p \in 1..Len(h) |-> ResultsAt(h, p)])
         /\ \A p \in 1..Len(h) : CallsAt(h, p) \in Seq(Place) /\ ResultsAt(h, p) \in Seq(Place)
<1>1. /\ Len(h) \in Nat /\ DOMAIN h = 1..Len(h)
      /\ \A p \in 1..Len(h) : h[p] \in ChatMessage /\ p \in Nat
  OBVIOUS
<1>2. \A m \in ChatMessage : /\ m.calls \in Seq(ToolCall) /\ DOMAIN m.calls = 1..Len(m.calls)
                             /\ m.result \in Id \cup {NoId} /\ Len(m.calls) \in Nat
                             /\ \A k \in 1..Len(m.calls) : m.calls[k].id \in Id
  <2>1. \A m \in ChatMessage : m.calls \in Seq(ToolCall) /\ m.result \in Id \cup {NoId}
    BY DEF ChatMessage
  <2>2. \A call \in ToolCall : call.id \in Id
    BY DEF ToolCall
  <2> QED  BY <2>1, <2>2
<1>3. ASSUME NEW p \in 1..Len(h)
      PROVE  /\ [k \in DOMAIN [i \in DOMAIN h[p].calls |-> h[p].calls[i].id] |->
                  <<p, [i \in DOMAIN h[p].calls |-> h[p].calls[i].id][k]>>] = CallsAt(h, p)
             /\ CallsAt(h, p) \in Seq(Place)
  <2>1. PICK m \in ChatMessage : m = h[p]
    BY <1>1
  <2>2. \A k \in 1..Len(m.calls) : <<p, m.calls[k].id>> \in Place
    BY <1>1, <1>2 DEF Place
  <2> QED  BY <1>2, <2>1, <2>2 DEF CallsAt
<1>4. ASSUME NEW p \in 1..Len(h)
      PROVE  /\ [k \in DOMAIN (IF h[p].role = "Tool" THEN <<h[p].result>> ELSE <<>>) |->
                  <<p, (IF h[p].role = "Tool" THEN <<h[p].result>> ELSE <<>>)[k]>>] = ResultsAt(h, p)
             /\ ResultsAt(h, p) \in Seq(Place)
  <2>1. PICK m \in ChatMessage : m = h[p]
    BY <1>1
  <2>2. <<p, m.result>> \in Place
    BY <1>1, <1>2 DEF Place
  <2>3. CASE m.role = "Tool"
    <3>1. [k \in DOMAIN <<m.result>> |-> <<p, <<m.result>>[k]>>] = <<<<p, m.result>>>>
      OBVIOUS
    <3> QED  BY <2>1, <2>2, <2>3, <3>1 DEF ResultsAt
  <2>4. CASE m.role # "Tool"
    BY <2>1, <2>4 DEF ResultsAt
  <2> QED  BY <2>3, <2>4
<1>5. CallsIn(h) = FlattenSeq([p \in 1..Len(h) |-> CallsAt(h, p)])
  <2>1. [p \in DOMAIN h |-> [k \in DOMAIN [i \in DOMAIN h[p].calls |-> h[p].calls[i].id] |->
           <<p, [i \in DOMAIN h[p].calls |-> h[p].calls[i].id][k]>>]]
        = [p \in 1..Len(h) |-> CallsAt(h, p)]
    BY <1>1, <1>3
  <2> QED  BY <2>1 DEF CallsIn, IdsIn
<1>6. ResultsIn(h) = FlattenSeq([p \in 1..Len(h) |-> ResultsAt(h, p)])
  <2>1. [p \in DOMAIN h |-> [k \in DOMAIN (IF h[p].role = "Tool" THEN <<h[p].result>> ELSE <<>>) |->
           <<p, (IF h[p].role = "Tool" THEN <<h[p].result>> ELSE <<>>)[k]>>]]
        = [p \in 1..Len(h) |-> ResultsAt(h, p)]
    BY <1>1, <1>4
  <2> QED  BY <2>1 DEF ResultsIn, IdsIn
<1> QED  BY <1>3, <1>4, <1>5, <1>6

UpToPlace(c, k) == c \in Seq(Place) /\ \A i \in 1..Len(c) : c[i][1] \in 1..k

(* d is c and more, at place p.                                            *)
MoreAt(c, d, p) ==
  /\ Len(c) <= Len(d) /\ \A i \in 1..Len(c) : d[i] = c[i]
  /\ \A i \in 1..Len(d) : i > Len(c) => d[i][1] = p

LEMMA PlacesConcat ==
  ASSUME NEW k \in Nat, NEW c, UpToPlace(c, k), NEW a \in Seq(Place),
         \A i \in 1..Len(a) : a[i][1] = k + 1
  PROVE  /\ UpToPlace(c \o a, k + 1) /\ MoreAt(c, c \o a, k + 1)
         /\ Len(c \o a) = Len(c) + Len(a)
         /\ \A i \in 1..Len(a) : (c \o a)[Len(c) + i] = a[i]
<1>1. PICK d, l, n : d = c \o a /\ l = Len(c) /\ n = Len(a)
  OBVIOUS
<1>2. c \in Seq(Place) /\ l \in Nat /\ n \in Nat
  BY <1>1 DEF UpToPlace
<1>3. /\ d \in Seq(Place) /\ Len(d) = l + n
      /\ \A i \in 1..(l + n) : d[i] = IF i <= l THEN c[i] ELSE a[i - l]
  BY <1>1, <1>2, ConcatProperties
<1>4. \A i \in 1..l : d[i] = c[i] /\ c[i][1] \in 1..k
  BY <1>1, <1>2, <1>3 DEF UpToPlace
<1>5. \A i \in 1..n : d[l + i] = a[i]
  <2> SUFFICES ASSUME NEW i \in 1..n PROVE d[l + i] = a[i]
    OBVIOUS
  <2>1. l + i \in 1..(l + n) /\ ~(l + i <= l) /\ (l + i) - l = i
    BY <1>2
  <2> QED  BY <1>3, <2>1
<1>6. \A i \in 1..(l + n) : i > l => d[i][1] = k + 1
  <2> SUFFICES ASSUME NEW i \in 1..(l + n), i > l PROVE d[i][1] = k + 1
    OBVIOUS
  <2>1. i - l \in 1..n /\ ~(i <= l)
    BY <1>2
  <2> QED  BY <1>1, <1>3, <2>1
<1>7. \A i \in 1..(l + n) : d[i][1] \in 1..(k + 1)
  <2> SUFFICES ASSUME NEW i \in 1..(l + n) PROVE d[i][1] \in 1..(k + 1)
    OBVIOUS
  <2>1. CASE i > l
    BY <1>6, <2>1
  <2>2. CASE ~(i > l)
    <3>1. i \in 1..l
      BY <1>2, <2>2
    <3>2. d[i][1] \in 1..k
      BY <1>4, <3>1
    <3> QED  BY <3>2
  <2> QED  BY <2>1, <2>2
<1>8. UpToPlace(d, k + 1)
  BY <1>3, <1>7 DEF UpToPlace
<1>9. MoreAt(c, d, k + 1)
  BY <1>1, <1>2, <1>3, <1>4, <1>6 DEF MoreAt
<1> QED  BY <1>1, <1>3, <1>5, <1>8, <1>9

LEMMA MessagePlaces ==
  ASSUME NEW h \in Seq(ChatMessage), NEW p \in 1..Len(h)
  PROVE  /\ Len(CallsAt(h, p)) = Len(h[p].calls)
         /\ \A i \in 1..Len(CallsAt(h, p)) : CallsAt(h, p)[i] = <<p, h[p].calls[i].id>>
         /\ h[p].role = "Tool" => /\ Len(ResultsAt(h, p)) = 1
                                  /\ ResultsAt(h, p)[1] = <<p, h[p].result>>
         /\ h[p].role # "Tool" => ResultsAt(h, p) = <<>>
         /\ \A i \in 1..Len(ResultsAt(h, p)) : ResultsAt(h, p)[i][1] = p
<1>1. h[p] \in ChatMessage
  OBVIOUS
<1>2. Len(h[p].calls) \in Nat
  <2>1. \A m \in ChatMessage : Len(m.calls) \in Nat
    BY DEF ChatMessage
  <2> QED  BY <1>1, <2>1
<1> QED  BY <1>2 DEF CallsAt, ResultsAt

(* The calls and the results of the first k messages, for every k.         *)
LEMMA HistoryPlaces ==
  ASSUME NEW h \in Seq(ChatMessage)
  PROVE  \E C, R :
           /\ C[0] = <<>> /\ R[0] = <<>>
           /\ CallsIn(h) = C[Len(h)] /\ ResultsIn(h) = R[Len(h)]
           /\ \A k \in 0..Len(h) : UpToPlace(C[k], k) /\ UpToPlace(R[k], k)
           /\ \A k \in 1..Len(h) : /\ C[k] = C[k - 1] \o CallsAt(h, k)
                                   /\ R[k] = R[k - 1] \o ResultsAt(h, k)
<1>1. PICK n \in Nat : n = Len(h)
  OBVIOUS
<1>2. PICK cs, rs : cs = [p \in 1..n |-> CallsAt(h, p)] /\ rs = [p \in 1..n |-> ResultsAt(h, p)]
  OBVIOUS
<1>3. cs \in [1..n -> Seq(Place)] /\ rs \in [1..n -> Seq(Place)]
  BY <1>1, <1>2, PlacesAt
<1>4. PICK C \in [0..n -> Seq(Place)] : IsFlat(C, n, cs) /\ FlattenSeq(cs) = C[n]
  BY <1>3, Flattened
<1>5. PICK R \in [0..n -> Seq(Place)] : IsFlat(R, n, rs) /\ FlattenSeq(rs) = R[n]
  BY <1>3, Flattened
<1>6. C[0] = <<>> /\ R[0] = <<>> /\ CallsIn(h) = C[n] /\ ResultsIn(h) = R[n]
  BY <1>1, <1>2, <1>4, <1>5, PlacesAt DEF IsFlat
<1>7. \A k \in 1..n : C[k] = C[k - 1] \o CallsAt(h, k) /\ R[k] = R[k - 1] \o ResultsAt(h, k)
  BY <1>2, <1>4, <1>5 DEF IsFlat
<1>8. \A k \in 0..n : UpToPlace(C[k], k) /\ UpToPlace(R[k], k)
  <2> DEFINE S == {k \in Nat : k <= n => UpToPlace(C[k], k) /\ UpToPlace(R[k], k)}
  <2>1. 0 \in S
    BY <1>6 DEF UpToPlace
  <2>2. ASSUME NEW k \in S PROVE k + 1 \in S
    <3> SUFFICES ASSUME k + 1 <= n
                 PROVE  UpToPlace(C[k + 1], k + 1) /\ UpToPlace(R[k + 1], k + 1)
      OBVIOUS
    <3>1. /\ k \in Nat /\ k + 1 \in 1..n /\ (k + 1) - 1 = k
          /\ UpToPlace(C[k], k) /\ UpToPlace(R[k], k)
      OBVIOUS
    <3>2. C[k + 1] = C[k] \o CallsAt(h, k + 1) /\ R[k + 1] = R[k] \o ResultsAt(h, k + 1)
      BY <1>7, <3>1
    <3>3. PICK a, b : a = CallsAt(h, k + 1) /\ b = ResultsAt(h, k + 1)
      OBVIOUS
    <3>4. a \in Seq(Place) /\ b \in Seq(Place)
      BY <1>1, <3>1, <3>3, PlacesAt
    <3>5. /\ \A i \in 1..Len(a) : a[i][1] = k + 1
          /\ \A i \in 1..Len(b) : b[i][1] = k + 1
      <4>1. PICK p \in 1..Len(h) : p = k + 1
        BY <1>1, <3>1
      <4>2. \A i \in 1..Len(a) : a[i] = <<p, h[p].calls[i].id>>
        BY <3>3, <4>1, MessagePlaces
      <4>3. \A i \in 1..Len(b) : b[i][1] = p
        BY <3>3, <4>1, MessagePlaces
      <4>4. (\A i \in 1..Len(a) : a[i][1] = p) /\ (\A i \in 1..Len(b) : b[i][1] = p)
        BY <4>2, <4>3
      <4> QED  BY <4>1, <4>4
    <3>6. PICK c, r : c = C[k] /\ r = R[k]
      OBVIOUS
    <3>7. UpToPlace(c \o a, k + 1)
      BY <3>1, <3>4, <3>5, <3>6, PlacesConcat
    <3>8. UpToPlace(r \o b, k + 1)
      BY <3>1, <3>4, <3>5, <3>6, PlacesConcat
    <3> QED  BY <3>2, <3>3, <3>6, <3>7, <3>8
  <2>3. S = Nat
    <3> HIDE DEF S
    <3>1. S \in SUBSET Nat
      BY DEF S
    <3> QED  BY <2>1, <2>2, <3>1, NatInductionSet
  <2> HIDE DEF S
  <2>4. \A k \in 0..n : k \in S /\ k \in Nat /\ k <= n
    BY <2>3
  <2> QED  BY <2>4 DEF S
<1> QED  BY <1>1, <1>6, <1>7, <1>8

(* The calls that may be made while pending waits, one after the other.    *)
FreshAt(pending, calls, j) ==
  /\ calls[j].id # EmptyId /\ calls[j].name \in Declared /\ calls[j].arguments = "object"
  /\ \A i \in 1..Len(pending) : pending[i] # calls[j].id
  /\ \A i \in 1..(j - 1) : calls[i].id # calls[j].id

Joined(q, pending, calls, k) ==
  /\ q \in Seq(Id) /\ Len(q) = Len(pending) + k
  /\ \A i \in 1..Len(pending) : q[i] = pending[i]
  /\ \A j \in 1..k : q[Len(pending) + j] = calls[j].id

(* validate_tool_history on the calls of a message, exactly.               *)
LEMMA CallsExact ==
  ASSUME NEW pending \in Seq(Id), NEW calls \in Seq(ToolCall)
  PROVE  LET f == FoldLeft(CheckCall, pending, calls) IN
         /\ f # Failed <=> \A j \in 1..Len(calls) : FreshAt(pending, calls, j)
         /\ f # Failed => Joined(f, pending, calls, Len(calls))
<1> DEFINE n == Len(calls)
<1>1. /\ n \in Nat /\ pending \in Pendings /\ Failed \notin Seq(Id)
      /\ \A k \in 1..n : calls[k] \in ToolCall /\ calls[k].id \in Id
  <2>1. \A call \in ToolCall : call.id \in Id
    BY DEF ToolCall
  <2> QED  BY <2>1, ToolAssumption DEF Pendings
<1>2. PICK acc : /\ acc[0] = pending
                 /\ \A k \in 0..n : acc[k] \in Pendings
                 /\ \A k \in 1..n : acc[k] = CheckCall(acc[k - 1], calls[k])
                 /\ FoldLeft(CheckCall, pending, calls) = acc[n]
  BY <1>1, CallsFold, Zenon
<1> DEFINE Fresh(k) == \A j \in 1..k : FreshAt(pending, calls, j)
           S == {k \in Nat : k <= n => /\ acc[k] # Failed <=> Fresh(k)
                                       /\ acc[k] # Failed => Joined(acc[k], pending, calls, k)}
<1>3. 0 \in S
  <2>1. acc[0] # Failed /\ Fresh(0)
    BY <1>1, <1>2
  <2>2. Joined(acc[0], pending, calls, 0)
    BY <1>2 DEF Joined
  <2> QED  BY <2>1, <2>2
<1>4. ASSUME NEW k \in S PROVE k + 1 \in S
  <2> SUFFICES ASSUME k + 1 <= n
               PROVE  /\ acc[k + 1] # Failed <=> Fresh(k + 1)
                      /\ acc[k + 1] # Failed => Joined(acc[k + 1], pending, calls, k + 1)
    OBVIOUS
  <2>1. /\ k \in Nat /\ k + 1 \in 1..n /\ (k + 1) - 1 = k
        /\ acc[k] # Failed <=> Fresh(k)
        /\ acc[k] # Failed => Joined(acc[k], pending, calls, k)
    BY <1>1
  <2>2. PICK q, call, l : q = acc[k] /\ call = calls[k + 1] /\ l = Len(pending)
    OBVIOUS
  <2>3. l \in Nat /\ call \in ToolCall /\ call.id \in Id
    BY <1>1, <2>1, <2>2
  <2>4. acc[k + 1] = CheckCall(q, call)
    BY <1>2, <2>1, <2>2
  <2>5. Fresh(k + 1) <=> Fresh(k) /\ FreshAt(pending, calls, k + 1)
    <3>1. \A j : j \in 1..(k + 1) <=> j \in 1..k \/ j = k + 1
      BY <2>1
    <3> HIDE DEF n
    <3> QED  BY <3>1
  <2>6. CASE q = Failed
    <3>1. acc[k + 1] = Failed
      BY <2>4, <2>6 DEF CheckCall
    <3> QED  BY <2>1, <2>2, <2>5, <2>6, <3>1
  <2>7. CASE q # Failed
    <3>1. /\ Fresh(k) /\ q \in Seq(Id) /\ Len(q) = l + k
          /\ \A i \in 1..l : q[i] = pending[i]
          /\ \A j \in 1..k : q[l + j] = calls[j].id
      BY <2>1, <2>2, <2>7 DEF Joined
    <3>2. call.id \in Range(q) <=> \/ \E i \in 1..l : pending[i] = call.id
                                   \/ \E j \in 1..k : calls[j].id = call.id
      <4>1. \A i : i \in 1..(l + k) => i \in 1..l \/ (i - l \in 1..k /\ i = l + (i - l))
        BY <2>1, <2>3
      <4>2. \A i : i \in 1..l => i \in 1..(l + k)
        BY <2>1, <2>3
      <4>3. \A j : j \in 1..k => l + j \in 1..(l + k)
        BY <2>1, <2>3
      <4>4. Range(q) = {q[i] : i \in 1..(l + k)}
        BY <3>1 DEF Range
      <4>5. ASSUME NEW i \in 1..(l + k), q[i] = call.id
            PROVE  \/ \E x \in 1..l : pending[x] = call.id
                   \/ \E j \in 1..k : calls[j].id = call.id
        BY <3>1, <4>1, <4>5
      <4>6. ASSUME NEW i \in 1..l, pending[i] = call.id PROVE call.id \in Range(q)
        BY <3>1, <4>2, <4>4, <4>6
      <4>7. ASSUME NEW j \in 1..k, calls[j].id = call.id PROVE call.id \in Range(q)
        BY <3>1, <4>3, <4>4, <4>7
      <4> QED  BY <4>4, <4>5, <4>6, <4>7
    <3>3. FreshAt(pending, calls, k + 1) <=>
            /\ call.id # EmptyId /\ call.name \in Declared /\ call.arguments = "object"
            /\ call.id \notin Range(q)
      BY <2>1, <2>2, <3>2 DEF FreshAt
    <3>4. CASE FreshAt(pending, calls, k + 1)
      <4>1. acc[k + 1] = Append(q, call.id)
        BY <2>4, <2>7, <3>3, <3>4 DEF CheckCall
      <4>2. PICK r : r = Append(q, call.id)
        OBVIOUS
      <4>3. /\ r \in Seq(Id) /\ Len(r) = (l + k) + 1 /\ r[(l + k) + 1] = call.id
            /\ \A i \in 1..(l + k) : r[i] = q[i]
        BY <2>3, <3>1, <4>2, AppendProperties
      <4>4. \A i \in 1..l : r[i] = pending[i]
        BY <2>1, <2>3, <3>1, <4>3
      <4>5. \A j \in 1..(k + 1) : r[l + j] = calls[j].id
        <5> SUFFICES ASSUME NEW j \in 1..(k + 1) PROVE r[l + j] = calls[j].id
          OBVIOUS
        <5>1. CASE j = k + 1
          <6>1. l + j = (l + k) + 1
            BY <2>1, <2>3, <5>1
          <6> QED  BY <2>2, <4>3, <5>1, <6>1
        <5>2. CASE j # k + 1
          <6>1. j \in 1..k /\ l + j \in 1..(l + k)
            BY <2>1, <2>3, <5>2
          <6> QED  BY <3>1, <4>3, <6>1
        <5> QED  BY <5>1, <5>2
      <4>6. Len(r) = l + (k + 1)
        BY <2>1, <2>3, <4>3
      <4>7. Joined(r, pending, calls, k + 1)
        BY <2>2, <4>3, <4>4, <4>5, <4>6 DEF Joined
      <4>8. r # Failed
        BY <1>1, <4>3
      <4> QED  BY <2>5, <3>1, <3>4, <4>1, <4>2, <4>7, <4>8
    <3>5. CASE ~FreshAt(pending, calls, k + 1)
      <4>1. acc[k + 1] = Failed
        BY <2>4, <3>3, <3>5 DEF CheckCall
      <4> QED  BY <2>5, <3>5, <4>1
    <3> QED  BY <3>4, <3>5
  <2> QED  BY <2>6, <2>7
<1>5. n \in S
  <2> HIDE DEF S
  <2>1. S \in SUBSET Nat
    BY DEF S
  <2> QED  BY <1>1, <1>3, <1>4, <2>1, NatInductionSet
<1> QED  BY <1>1, <1>2, <1>5

(* What WellFormed says of the calls c and the results r of the first k    *)
(* messages, while some calls may still wait.                              *)
Shaped(m) ==
  /\ m.role # "Assistant" => m.calls = <<>>
  /\ (m.role = "Tool") = (m.result # NoId)
  /\ \A call \in Range(m.calls) : call.name \in Declared /\ call.arguments = "object"

Paired(c, r) ==
  /\ Len(r) <= Len(c)
  /\ \A i \in 1..Len(r) : c[i][2] = r[i][2] /\ c[i][1] < r[i][1]
  /\ \A i \in 1..Len(c) : c[i][2] # EmptyId
  /\ \A i, j \in 1..Len(c) :
       i < j /\ c[i][2] = c[j][2] => i <= Len(r) /\ r[i][1] < c[j][1]

Settled(h, k, c, r) ==
  \A p \in 1..k : h[p].role \in {"User", "System"} => Before(p, c) = Before(p, r)

Matched(h, k, c, r) ==
  (\A p \in 1..k : Shaped(h[p])) /\ Paired(c, r) /\ Settled(h, k, c, r)

(* The ids of the calls without a result.                                  *)
WaitsIn(q, c, r) ==
  /\ q \in Seq(Id) /\ Len(q) = Len(c) - Len(r)
  /\ \A i \in 1..Len(q) : q[i] = c[Len(r) + i][2]

LEMMA BeforeSame ==
  ASSUME NEW k \in Nat, NEW c, UpToPlace(c, k), NEW d, UpToPlace(d, k + 1),
         MoreAt(c, d, k + 1), NEW p \in 1..(k + 1)
  PROVE  Before(p, d) = Before(p, c)
<1>1. /\ DOMAIN c = 1..Len(c) /\ DOMAIN d = 1..Len(d) /\ Len(c) \in Nat /\ Len(d) \in Nat
      /\ Len(c) <= Len(d)
  BY DEF UpToPlace, MoreAt
<1>2. ASSUME NEW i \in 1..Len(d), d[i][1] < p PROVE i \in 1..Len(c)
  <2>1. i > Len(c) => d[i][1] = k + 1
    BY DEF MoreAt
  <2> QED  BY <1>1, <1>2, <2>1
<1>3. \A i \in 1..Len(c) : i \in 1..Len(d) /\ d[i] = c[i]
  BY <1>1 DEF MoreAt
<1>4. {i \in 1..Len(d) : d[i][1] < p} = {i \in 1..Len(c) : c[i][1] < p}
  BY <1>2, <1>3
<1> QED  BY <1>1, <1>4 DEF Before

LEMMA BeforeAll ==
  ASSUME NEW k \in Nat, NEW c, UpToPlace(c, k)
  PROVE  Before(k + 1, c) = Len(c)
<1>1. PICK n \in Nat : n = Len(c) /\ DOMAIN c = 1..n
  BY DEF UpToPlace
<1>2. \A i \in 1..n : c[i][1] < k + 1
  BY <1>1 DEF UpToPlace
<1>3. {i \in 1..n : c[i][1] < k + 1} = 1..n
  BY <1>2
<1>4. Cardinality(1..n) = n
  <2>1. 1 \in Int /\ n \in Int
    OBVIOUS
  <2>2. Cardinality(1..n) = IF 1 > n THEN 0 ELSE n - 1 + 1
    BY <2>1, FS_Interval, Zenon
  <2> QED  BY <2>2
<1> QED  BY <1>1, <1>3, <1>4 DEF Before

(* What holds of more messages held of fewer.                              *)
LEMMA PairedBefore ==
  ASSUME NEW k \in Nat, NEW c, UpToPlace(c, k), NEW r, UpToPlace(r, k),
         NEW c2, UpToPlace(c2, k + 1), MoreAt(c, c2, k + 1),
         NEW r2, UpToPlace(r2, k + 1), MoreAt(r, r2, k + 1), Paired(c2, r2)
  PROVE  Paired(c, r)
<1>1. PICK lc, lr, mc, mr \in Nat : lc = Len(c) /\ lr = Len(r) /\ mc = Len(c2) /\ mr = Len(r2)
  <2>1. Len(c) \in Nat /\ Len(r) \in Nat /\ Len(c2) \in Nat /\ Len(r2) \in Nat
    BY DEF UpToPlace
  <2> QED  BY <2>1
<1>2. /\ lc <= mc /\ lr <= mr /\ mr <= mc
      /\ \A i \in 1..lc : c2[i] = c[i] /\ c[i][1] \in 1..k /\ c[i][1] < k + 1
      /\ \A i \in 1..lr : r2[i] = r[i] /\ r[i][1] \in 1..k /\ r[i][1] < k + 1
      /\ \A i \in 1..mc : i > lc => c2[i][1] = k + 1
      /\ \A i \in 1..mr : i > lr => r2[i][1] = k + 1
  <2>1. \A x \in 1..k : x < k + 1
    OBVIOUS
  <2>2. /\ lc <= mc /\ lr <= mr /\ \A i \in 1..lc : c2[i] = c[i]
        /\ \A i \in 1..lr : r2[i] = r[i]
        /\ \A i \in 1..mc : i > lc => c2[i][1] = k + 1
        /\ \A i \in 1..mr : i > lr => r2[i][1] = k + 1
    BY <1>1 DEF MoreAt
  <2>3. \A i \in 1..lc : c[i][1] \in 1..k
    BY <1>1 DEF UpToPlace
  <2>4. \A i \in 1..lr : r[i][1] \in 1..k
    BY <1>1 DEF UpToPlace
  <2>5. mr <= mc
    BY <1>1 DEF Paired
  <2> QED  BY <2>1, <2>2, <2>3, <2>4, <2>5
<1>3. /\ \A i \in 1..mr : c2[i][2] = r2[i][2] /\ c2[i][1] < r2[i][1]
      /\ \A i \in 1..mc : c2[i][2] # EmptyId
      /\ \A i, j \in 1..mc : i < j /\ c2[i][2] = c2[j][2] => i <= mr /\ r2[i][1] < c2[j][1]
  BY <1>1 DEF Paired
<1>4. ASSUME NEW i \in 1..lr PROVE i \in 1..lc /\ c[i][2] = r[i][2] /\ c[i][1] < r[i][1]
  <2>1. i \in 1..mr /\ i \in 1..mc
    BY <1>2
  <2>2. c2[i][2] = r[i][2] /\ c2[i][1] < r[i][1] /\ r[i][1] < k + 1 /\ r[i][1] \in 1..k
    BY <1>2, <1>3, <2>1
  <2>3. i > lc => c2[i][1] = k + 1
    BY <1>2, <2>1
  <2>4. ~(i > lc)
    BY <2>2, <2>3
  <2>5. i \in 1..lc
    BY <2>4
  <2> QED  BY <1>2, <2>2, <2>5
<1>5. lr <= lc
  <2>1. lr \in 1..lr => lr \in 1..lc
    BY <1>4
  <2> QED  BY <2>1
<1>6. \A i \in 1..lc : c[i][2] # EmptyId
  BY <1>2, <1>3
<1>7. ASSUME NEW i \in 1..lc, NEW j \in 1..lc, i < j, c[i][2] = c[j][2]
      PROVE  i <= lr /\ r[i][1] < c[j][1]
  <2>1. i \in 1..mc /\ j \in 1..mc /\ c2[i] = c[i] /\ c2[j] = c[j]
    BY <1>2
  <2>2. i <= mr /\ r2[i][1] < c2[j][1] /\ c[j][1] < k + 1 /\ c[j][1] \in 1..k
    BY <1>2, <1>3, <1>7, <2>1
  <2>3. i \in 1..mr
    BY <2>2
  <2>4. i > lr => r2[i][1] = k + 1
    BY <1>2, <2>3
  <2>5. i <= lr
    BY <2>1, <2>2, <2>4
  <2>6. r2[i] = r[i]
    BY <1>2, <2>5
  <2> QED  BY <2>1, <2>2, <2>5, <2>6
<1> QED  BY <1>1, <1>4, <1>5, <1>6, <1>7 DEF Paired

(* One result more, s: it has to be that of the first call that waits.     *)
ResultDecides(c, r, s, q) ==
  /\ Paired(c, s) <=> (q # <<>> /\ Head(q) = s[Len(r) + 1][2])
  /\ Paired(c, s) => WaitsIn(Tail(q), c, s)

LEMMA PairedResult ==
  ASSUME NEW k \in Nat, NEW c, UpToPlace(c, k), NEW r, UpToPlace(r, k), Paired(c, r),
         NEW s, UpToPlace(s, k + 1), MoreAt(r, s, k + 1), Len(s) = Len(r) + 1,
         NEW q, WaitsIn(q, c, r)
  PROVE  ResultDecides(c, r, s, q)
<1>1. PICK lc, lr \in Nat : lc = Len(c) /\ lr = Len(r)
  <2>1. Len(c) \in Nat /\ Len(r) \in Nat
    BY DEF UpToPlace
  <2> QED  BY <2>1
<1>2. /\ lr <= lc /\ q \in Seq(Id) /\ Len(q) = lc - lr
      /\ \A i \in 1..(lc - lr) : q[i] = c[lr + i][2]
  BY <1>1 DEF WaitsIn, Paired
<1>3. /\ Len(s) = lr + 1 /\ s[lr + 1][1] = k + 1 /\ \A i \in 1..lr : s[i] = r[i]
  <2>1. lr + 1 \in 1..Len(s) /\ lr + 1 > lr
    BY <1>1
  <2> QED  BY <1>1, <2>1 DEF MoreAt
<1>4. \A i \in 1..lc : c[i][1] \in 1..k /\ c[i][1] < k + 1
  <2>1. \A x \in 1..k : x < k + 1
    OBVIOUS
  <2> QED  BY <1>1, <2>1 DEF UpToPlace
<1>5. q # <<>> <=> lr < lc
  <2>1. q # <<>> <=> Len(q) # 0
    BY <1>2
  <2> QED  BY <1>2, <2>1
<1>6. lr < lc => /\ Head(q) = c[lr + 1][2] /\ Tail(q) \in Seq(Id)
                 /\ Len(Tail(q)) = lc - (lr + 1)
                 /\ \A i \in 1..(lc - (lr + 1)) : Tail(q)[i] = c[(lr + 1) + i][2]
  <2> SUFFICES ASSUME lr < lc
               PROVE  /\ Head(q) = c[lr + 1][2] /\ Tail(q) \in Seq(Id)
                      /\ Len(Tail(q)) = lc - (lr + 1)
                      /\ \A i \in 1..(lc - (lr + 1)) : Tail(q)[i] = c[(lr + 1) + i][2]
    OBVIOUS
  <2>1. 1 \in 1..(lc - lr)
    BY <1>2
  <2>2. Head(q) = c[lr + 1][2]
    BY <1>2, <1>5, <2>1
  <2>3. /\ Tail(q) \in Seq(Id) /\ Len(Tail(q)) = (lc - lr) - 1
        /\ \A i \in 1..((lc - lr) - 1) : Tail(q)[i] = q[i + 1]
    BY <1>2, <1>5, HeadTailProperties
  <2>4. (lc - lr) - 1 = lc - (lr + 1)
    OBVIOUS
  <2>5. ASSUME NEW i \in 1..(lc - (lr + 1)) PROVE Tail(q)[i] = c[(lr + 1) + i][2]
    <3>1. i + 1 \in 1..(lc - lr) /\ lr + (i + 1) = (lr + 1) + i
      OBVIOUS
    <3>2. q[i + 1] = c[lr + (i + 1)][2]
      BY <1>2, <3>1
    <3> QED  BY <2>3, <2>4, <3>1, <3>2
  <2> QED  BY <2>2, <2>3, <2>4, <2>5
<1>7. ASSUME Paired(c, s) PROVE lr < lc /\ Head(q) = s[lr + 1][2]
  <2>1. lr + 1 <= lc /\ c[lr + 1][2] = s[lr + 1][2]
    <3>1. lr + 1 \in 1..(lr + 1)
      OBVIOUS
    <3> QED  BY <1>1, <1>3, <1>7, <3>1 DEF Paired
  <2> QED  BY <1>6, <2>1
<1>8. ASSUME lr < lc, Head(q) = s[lr + 1][2] PROVE Paired(c, s)
  <2>1. \A i \in 1..(lr + 1) : i \in 1..lr \/ i = lr + 1
    OBVIOUS
  <2>2. \A i \in 1..lr : c[i][2] = s[i][2] /\ c[i][1] < s[i][1]
    BY <1>1, <1>3 DEF Paired
  <2>3. c[lr + 1][2] = s[lr + 1][2] /\ c[lr + 1][1] < s[lr + 1][1]
    <3>1. lr + 1 \in 1..lc
      BY <1>8
    <3> QED  BY <1>3, <1>4, <1>6, <1>8, <3>1
  <2>4. \A i, j \in 1..lc : i < j /\ c[i][2] = c[j][2] => i <= lr + 1 /\ s[i][1] < c[j][1]
    <3> SUFFICES ASSUME NEW i \in 1..lc, NEW j \in 1..lc, i < j, c[i][2] = c[j][2]
                 PROVE  i <= lr + 1 /\ s[i][1] < c[j][1]
      OBVIOUS
    <3>1. i <= lr /\ r[i][1] < c[j][1]
      BY <1>1 DEF Paired
    <3>2. i \in 1..lr
      BY <3>1
    <3> QED  BY <1>3, <3>1, <3>2
  <2>5. \A i \in 1..lc : c[i][2] # EmptyId
    BY <1>1 DEF Paired
  <2>6. lr + 1 <= lc
    BY <1>8
  <2> QED  BY <1>1, <1>3, <2>1, <2>2, <2>3, <2>4, <2>5, <2>6 DEF Paired
<1>9. ASSUME Paired(c, s) PROVE WaitsIn(Tail(q), c, s)
  <2>1. lr < lc
    BY <1>7, <1>9
  <2> QED  BY <1>1, <1>3, <1>6, <2>1 DEF WaitsIn
<1> QED  BY <1>1, <1>5, <1>7, <1>8, <1>9 DEF ResultDecides

(* More calls, in d: each has to be new among the ones that wait.          *)
AddsCalls(c, d, calls, p) ==
  /\ MoreAt(c, d, p) /\ Len(d) = Len(c) + Len(calls)
  /\ \A i \in 1..Len(calls) : d[Len(c) + i][2] = calls[i].id

CallsDecide(d, r, q, calls) ==
  /\ Paired(d, r) <=>
       \A j \in 1..Len(calls) : /\ calls[j].id # EmptyId
                                /\ \A i \in 1..Len(q) : q[i] # calls[j].id
                                /\ \A i \in 1..(j - 1) : calls[i].id # calls[j].id
  /\ \A f : Joined(f, q, calls, Len(calls)) => WaitsIn(f, d, r)

LEMMA PairedCalls ==
  ASSUME NEW k \in Nat, NEW c, UpToPlace(c, k), NEW r, UpToPlace(r, k), Paired(c, r),
         NEW calls \in Seq(ToolCall), NEW d, UpToPlace(d, k + 1),
         AddsCalls(c, d, calls, k + 1), NEW q, WaitsIn(q, c, r)
  PROVE  CallsDecide(d, r, q, calls)
<1>1. PICK lc, lr, n \in Nat : lc = Len(c) /\ lr = Len(r) /\ n = Len(calls)
  <2>1. Len(c) \in Nat /\ Len(r) \in Nat /\ Len(calls) \in Nat
    BY DEF UpToPlace
  <2> QED  BY <2>1
<1>2. /\ lr <= lc /\ q \in Seq(Id) /\ Len(q) = lc - lr
      /\ \A i \in 1..(lc - lr) : q[i] = c[lr + i][2]
  BY <1>1 DEF WaitsIn, Paired
<1>3. /\ Len(d) = lc + n /\ \A i \in 1..lc : d[i] = c[i]
      /\ \A i \in 1..n : d[lc + i][2] = calls[i].id /\ d[lc + i][1] = k + 1
  <2>1. Len(d) = lc + n /\ \A i \in 1..lc : d[i] = c[i]
    BY <1>1 DEF AddsCalls, MoreAt
  <2>2. ASSUME NEW i \in 1..n PROVE d[lc + i][1] = k + 1
    <3>1. lc + i \in 1..Len(d) /\ lc + i > lc
      BY <2>1
    <3> QED  BY <1>1, <3>1 DEF AddsCalls, MoreAt
  <2> QED  BY <1>1, <2>1, <2>2 DEF AddsCalls
<1>4. \A i \in 1..lr : r[i][1] \in 1..k /\ r[i][1] < k + 1
  <2>1. \A x \in 1..k : x < k + 1
    OBVIOUS
  <2> QED  BY <1>1, <2>1 DEF UpToPlace
<1>5. ASSUME Paired(d, r), NEW j \in 1..n
      PROVE  /\ calls[j].id # EmptyId
             /\ \A i \in 1..(lc - lr) : q[i] # calls[j].id
             /\ \A i \in 1..(j - 1) : calls[i].id # calls[j].id
  <2>1. lc + j \in 1..(lc + n) /\ d[lc + j][2] = calls[j].id
    BY <1>3
  <2>2. \A i \in 1..(lc + n) : i < lc + j /\ d[i][2] = d[lc + j][2] => i <= lr
    BY <1>1, <1>3, <1>5, <2>1 DEF Paired
  <2>3. calls[j].id # EmptyId
    BY <1>3, <1>5, <2>1 DEF Paired
  <2>4. ASSUME NEW i \in 1..(lc - lr) PROVE q[i] # calls[j].id
    <3>1. lr + i \in 1..lc /\ lr + i \in 1..(lc + n) /\ lr + i < lc + j /\ ~(lr + i <= lr)
      OBVIOUS
    <3>2. d[lr + i][2] = q[i]
      BY <1>2, <1>3, <3>1
    <3> QED  BY <2>1, <2>2, <3>1, <3>2
  <2>5. ASSUME NEW i \in 1..(j - 1) PROVE calls[i].id # calls[j].id
    <3>1. i \in 1..n /\ lc + i \in 1..(lc + n) /\ lc + i < lc + j /\ ~(lc + i <= lr)
      BY <1>2
    <3>2. d[lc + i][2] = calls[i].id
      BY <1>3, <3>1
    <3> QED  BY <2>1, <2>2, <3>1, <3>2
  <2> QED  BY <2>3, <2>4, <2>5
<1>6. ASSUME \A j \in 1..n : /\ calls[j].id # EmptyId
                             /\ \A i \in 1..(lc - lr) : q[i] # calls[j].id
                             /\ \A i \in 1..(j - 1) : calls[i].id # calls[j].id
      PROVE  Paired(d, r)
  <2>1. \A i \in 1..(lc + n) : i \in 1..lc \/ (i - lc \in 1..n /\ i = lc + (i - lc))
    OBVIOUS
  <2>2. \A i \in 1..lr : i \in 1..lc /\ d[i][2] = r[i][2] /\ d[i][1] < r[i][1]
    BY <1>1, <1>2, <1>3 DEF Paired
  <2>3. \A i \in 1..(lc + n) : d[i][2] # EmptyId
    <3>1. \A i \in 1..lc : d[i][2] # EmptyId
      BY <1>1, <1>3 DEF Paired
    <3>2. \A i \in 1..n : d[lc + i][2] # EmptyId
      BY <1>3, <1>6
    <3> QED  BY <2>1, <3>1, <3>2
  <2>4. ASSUME NEW i \in 1..(lc + n), NEW j \in 1..(lc + n), i < j, d[i][2] = d[j][2]
        PROVE  i <= lr /\ r[i][1] < d[j][1]
    <3>1. CASE j \in 1..lc
      <4>1. i \in 1..lc /\ d[i] = c[i] /\ d[j] = c[j]
        BY <1>3, <2>4, <3>1
      <4> QED  BY <1>1, <2>4, <3>1, <4>1 DEF Paired
    <3>2. CASE j \notin 1..lc
      <4>1. PICK y \in 1..n : j = lc + y
        BY <2>1, <3>2
      <4>2. d[j][2] = calls[y].id /\ d[j][1] = k + 1
        BY <1>3, <4>1
      <4>3. i \in 1..lc
        <5> SUFFICES ASSUME i \notin 1..lc PROVE FALSE
          OBVIOUS
        <5>1. PICK x \in 1..n : i = lc + x
          BY <2>1
        <5>2. x \in 1..(y - 1)
          BY <2>4, <4>1, <5>1
        <5>3. d[i][2] = calls[x].id
          BY <1>3, <5>1
        <5> QED  BY <1>6, <2>4, <4>2, <5>2, <5>3
      <4>4. i <= lr
        <5> SUFFICES ASSUME ~(i <= lr) PROVE FALSE
          OBVIOUS
        <5>1. i - lr \in 1..(lc - lr) /\ lr + (i - lr) = i
          BY <4>3
        <5>2. q[i - lr] = c[i][2] /\ d[i] = c[i]
          BY <1>2, <1>3, <4>3, <5>1
        <5> QED  BY <1>6, <2>4, <4>2, <5>1, <5>2
      <4>5. i \in 1..lr
        BY <4>4
      <4> QED  BY <1>4, <4>2, <4>4, <4>5
    <3> QED  BY <3>1, <3>2
  <2>5. lr <= lc + n
    BY <1>2
  <2> QED  BY <1>1, <1>3, <2>2, <2>3, <2>4, <2>5 DEF Paired
<1>7. ASSUME NEW f, Joined(f, q, calls, Len(calls)) PROVE WaitsIn(f, d, r)
  <2>1. /\ f \in Seq(Id) /\ Len(f) = (lc - lr) + n
        /\ \A i \in 1..(lc - lr) : f[i] = q[i]
        /\ \A j \in 1..n : f[(lc - lr) + j] = calls[j].id
    BY <1>1, <1>2, <1>7 DEF Joined
  <2>2. (lc - lr) + n = (lc + n) - lr
    OBVIOUS
  <2>3. ASSUME NEW i \in 1..((lc - lr) + n) PROVE f[i] = d[lr + i][2]
    <3>1. CASE i \in 1..(lc - lr)
      <4>1. lr + i \in 1..lc
        BY <3>1
      <4> QED  BY <1>2, <1>3, <2>1, <3>1, <4>1
    <3>2. CASE i \notin 1..(lc - lr)
      <4>1. PICK j \in 1..n : i = (lc - lr) + j
        <5>1. i - (lc - lr) \in 1..n /\ i = (lc - lr) + (i - (lc - lr))
          BY <1>2, <3>2
        <5> QED  BY <5>1
      <4>2. lr + i = lc + j
        BY <4>1
      <4> QED  BY <1>3, <2>1, <4>1, <4>2
    <3> QED  BY <3>1, <3>2
  <2> QED  BY <1>1, <1>3, <2>1, <2>2, <2>3 DEF WaitsIn
<1> QED  BY <1>1, <1>2, <1>5, <1>6, <1>7 DEF CallsDecide

(* A message adds its calls and its result.                                *)
Placed(m, c, r, d, s, p) ==
  /\ UpToPlace(d, p) /\ AddsCalls(c, d, m.calls, p) /\ MoreAt(c, d, p)
  /\ m.calls = <<>> => d = c
  /\ UpToPlace(s, p) /\ MoreAt(r, s, p)
  /\ m.role = "Tool" => Len(s) = Len(r) + 1 /\ s[Len(r) + 1][2] = m.result
  /\ m.role # "Tool" => s = r

LEMMA MessagePlaced ==
  ASSUME NEW h \in Seq(ChatMessage), NEW k \in Nat, NEW p \in 1..Len(h), p = k + 1,
         NEW c, UpToPlace(c, k), NEW r, UpToPlace(r, k)
  PROVE  Placed(h[p], c, r, c \o CallsAt(h, p), r \o ResultsAt(h, p), p)
<1>1. PICK m \in ChatMessage : m = h[p]
  OBVIOUS
<1>2. PICK calls \in Seq(ToolCall) : calls = m.calls
  BY DEF ChatMessage
<1>3. PICK a, b : a = CallsAt(h, p) /\ b = ResultsAt(h, p)
  OBVIOUS
<1>4. /\ a \in Seq(Place) /\ b \in Seq(Place) /\ Len(a) = Len(calls)
      /\ \A i \in 1..Len(a) : a[i] = <<p, calls[i].id>>
      /\ m.role = "Tool" => Len(b) = 1 /\ b[1] = <<p, m.result>>
      /\ m.role # "Tool" => b = <<>>
      /\ \A i \in 1..Len(b) : b[i][1] = p
  <2>1. a \in Seq(Place) /\ b \in Seq(Place)
    BY <1>3, PlacesAt
  <2>2. /\ Len(a) = Len(calls) /\ \A i \in 1..Len(a) : a[i] = <<p, calls[i].id>>
        /\ \A i \in 1..Len(b) : b[i][1] = p
    BY <1>1, <1>2, <1>3, MessagePlaces
  <2>3. /\ m.role = "Tool" => Len(b) = 1 /\ b[1] = <<p, m.result>>
        /\ m.role # "Tool" => b = <<>>
    BY <1>1, <1>3, MessagePlaces
  <2> QED  BY <2>1, <2>2, <2>3
<1>5. PICK d, s : d = c \o a /\ s = r \o b
  OBVIOUS
<1>6. /\ UpToPlace(d, p) /\ AddsCalls(c, d, calls, p) /\ MoreAt(c, d, p)
  <2>1. \A i \in 1..Len(a) : a[i][1] = k + 1 /\ a[i][2] = calls[i].id
    BY <1>4
  <2>2. /\ UpToPlace(d, k + 1) /\ MoreAt(c, d, k + 1) /\ Len(d) = Len(c) + Len(a)
        /\ \A i \in 1..Len(a) : d[Len(c) + i] = a[i]
    BY <1>4, <1>5, <2>1, PlacesConcat
  <2> QED  BY <1>4, <2>1, <2>2 DEF AddsCalls
<1>7. /\ UpToPlace(s, p) /\ MoreAt(r, s, p)
      /\ Len(s) = Len(r) + Len(b) /\ \A i \in 1..Len(b) : s[Len(r) + i] = b[i]
  <2>1. \A i \in 1..Len(b) : b[i][1] = k + 1
    BY <1>4
  <2> QED  BY <1>4, <1>5, <2>1, PlacesConcat
<1>8. m.role = "Tool" => Len(s) = Len(r) + 1 /\ s[Len(r) + 1][2] = m.result
  <2>1. PICK l, e : l = Len(b) /\ e = b[1]
    OBVIOUS
  <2>2. m.role = "Tool" => l = 1 /\ e = <<p, m.result>>
    BY <1>4, <2>1
  <2>3. m.role = "Tool" => 1 \in 1..l /\ e[2] = m.result
    BY <2>2
  <2> QED  BY <1>7, <2>1, <2>2, <2>3
<1>9. c \in Seq(Place) /\ r \in Seq(Place)
  BY DEF UpToPlace
<1>10. m.role # "Tool" => s = r
  BY <1>4, <1>5, <1>9, ConcatEmptySeq
<1>11. calls = <<>> => d = c
  <2>1. calls = <<>> => a = <<>>
    BY <1>4
  <2> QED  BY <1>5, <1>9, <2>1, ConcatEmptySeq
<1> QED  BY <1>1, <1>2, <1>3, <1>5, <1>6, <1>7, <1>8, <1>10, <1>11 DEF Placed

(* The validator agrees, with what waits.                                  *)
Decided(h, k, c, r, q) ==
  /\ q # Failed <=> Matched(h, k, c, r)
  /\ q # Failed => WaitsIn(q, c, r)

(* One message more, whatever it is.                                       *)
LEMMA ValidatorStep ==
  ASSUME NEW h \in Seq(ChatMessage), NEW k \in Nat, k + 1 \in 1..Len(h),
         NEW c, UpToPlace(c, k), NEW r, UpToPlace(r, k), NEW q \in Pendings,
         Decided(h, k, c, r, q), NEW d, d = c \o CallsAt(h, k + 1),
         NEW s, s = r \o ResultsAt(h, k + 1), NEW f, f = CheckMessage(q, h[k + 1])
  PROVE  Decided(h, k + 1, d, s, f)
<1> SUFFICES /\ f # Failed <=> Matched(h, k + 1, d, s)
             /\ f # Failed => WaitsIn(f, d, s)
  BY DEF Decided
<1>0. /\ q # Failed <=> Matched(h, k, c, r)
      /\ q # Failed => WaitsIn(q, c, r)
  BY DEF Decided
<1>1. PICK p \in 1..Len(h) : p = k + 1
  OBVIOUS
<1>2. PICK m \in ChatMessage : m = h[p]
  OBVIOUS
<1>3. PICK calls \in Seq(ToolCall) : calls = m.calls
  BY DEF ChatMessage
<1>4. m.role \in {"System", "User", "Assistant", "Tool"} /\ m.result \in Id \cup {NoId}
  BY DEF ChatMessage
<1>5. Placed(m, c, r, d, s, p)
  BY <1>1, <1>2, MessagePlaced
<1>7. f = CheckMessage(q, m)
  BY <1>1, <1>2
<1>8. UpToPlace(d, k + 1) /\ MoreAt(c, d, k + 1) /\ AddsCalls(c, d, calls, k + 1)
  BY <1>1, <1>3, <1>5 DEF Placed
<1>9. /\ UpToPlace(s, k + 1) /\ MoreAt(r, s, k + 1)
      /\ m.role = "Tool" => Len(s) = Len(r) + 1 /\ s[Len(r) + 1][2] = m.result
      /\ m.role # "Tool" => s = r
  BY <1>1, <1>5 DEF Placed
<1>10. calls = <<>> => d = c
  BY <1>3, <1>5 DEF Placed
<1>11. Matched(h, k + 1, d, s) <=>
         /\ \A x \in 1..k : Shaped(h[x])
         /\ Settled(h, k, c, r) /\ Shaped(m) /\ Paired(d, s)
         /\ m.role \in {"User", "System"} => Len(c) = Len(r)
  <2>1. \A x : x \in 1..(k + 1) <=> x \in 1..k \/ x = k + 1
    OBVIOUS
  <2>2. \A x \in 1..(k + 1) : Before(x, d) = Before(x, c)
    BY <1>8, BeforeSame
  <2>3. \A x \in 1..(k + 1) : Before(x, s) = Before(x, r)
    BY <1>9, BeforeSame
  <2>4. Before(k + 1, c) = Len(c) /\ Before(k + 1, r) = Len(r)
    BY BeforeAll
  <2>5. Settled(h, k + 1, d, s) <=>
          Settled(h, k, c, r) /\ (m.role \in {"User", "System"} => Len(c) = Len(r))
    BY <1>1, <1>2, <2>1, <2>2, <2>3, <2>4 DEF Settled
  <2>6. (\A x \in 1..(k + 1) : Shaped(h[x])) <=> (\A x \in 1..k : Shaped(h[x])) /\ Shaped(m)
    BY <1>1, <1>2, <2>1
  <2> QED  BY <2>5, <2>6 DEF Matched
<1>12. CASE q = Failed
  <2>1. f = Failed /\ ~Matched(h, k, c, r)
    BY <1>0, <1>7, <1>12 DEF CheckMessage
  <2>2. Paired(d, s) => Paired(c, r)
    BY <1>8, <1>9, PairedBefore
  <2> QED  BY <1>11, <2>1, <2>2 DEF Matched
<1>13. CASE q # Failed
  <2>1. /\ WaitsIn(q, c, r) /\ Paired(c, r) /\ Settled(h, k, c, r)
        /\ \A x \in 1..k : Shaped(h[x])
    BY <1>0, <1>13 DEF Matched
  <2>2. q \in Seq(Id) /\ Len(q) = Len(c) - Len(r) /\ Len(c) \in Nat /\ Len(r) \in Nat
    BY <2>1 DEF WaitsIn, UpToPlace
  <2>3. <<>> \in Seq(Id) /\ Failed \notin Seq(Id)
    BY ToolAssumption
  <2>4. CASE m.role = "Assistant"
    <3>1. s = r /\ (Matched(h, k + 1, d, s) <=> Shaped(m) /\ Paired(d, r))
      BY <1>9, <1>11, <2>1, <2>4
    <3>2. Shaped(m) <=> /\ m.result = NoId
                        /\ \A j \in 1..Len(calls) :
                             calls[j].name \in Declared /\ calls[j].arguments = "object"
      <4>1. Range(calls) = {calls[j] : j \in 1..Len(calls)}
        BY ListedIn
      <4> QED  BY <1>3, <2>4, <4>1 DEF Shaped
    <3>3. /\ Paired(d, r) <=>
               \A j \in 1..Len(calls) : /\ calls[j].id # EmptyId
                                        /\ \A i \in 1..Len(q) : q[i] # calls[j].id
                                        /\ \A i \in 1..(j - 1) : calls[i].id # calls[j].id
          /\ \A g : Joined(g, q, calls, Len(calls)) => WaitsIn(g, d, r)
      <4>1. CallsDecide(d, r, q, calls)
        BY <1>8, <2>1, PairedCalls
      <4> QED  BY <4>1 DEF CallsDecide
    <3>4. CASE m.result # NoId
      <4>1. f = Failed
        BY <1>7, <1>13, <2>4, <3>4 DEF CheckMessage
      <4> QED  BY <3>1, <3>2, <3>4, <4>1
    <3>5. CASE m.result = NoId
      <4>1. f = FoldLeft(CheckCall, q, calls)
        BY <1>3, <1>7, <1>13, <2>4, <3>5 DEF CheckMessage
      <4>2. /\ f # Failed <=> \A j \in 1..Len(calls) : FreshAt(q, calls, j)
            /\ f # Failed => Joined(f, q, calls, Len(calls))
        BY <2>2, <4>1, CallsExact
      <4>3. (\A j \in 1..Len(calls) : FreshAt(q, calls, j)) <=> Shaped(m) /\ Paired(d, r)
        BY <3>2, <3>3, <3>5 DEF FreshAt
      <4> QED  BY <3>1, <3>3, <4>2, <4>3
    <3> QED  BY <3>4, <3>5
  <2>5. CASE m.role = "Tool"
    <3>1. Matched(h, k + 1, d, s) <=> Shaped(m) /\ Paired(d, s)
      BY <1>11, <2>1, <2>5
    <3>2. f = CheckResult(q, m)
      BY <1>7, <1>13, <2>5 DEF CheckMessage
    <3>3. CASE calls # <<>>
      <4>1. f = Failed /\ ~Shaped(m)
        BY <1>3, <2>5, <3>2, <3>3 DEF CheckResult, Shaped
      <4> QED  BY <3>1, <4>1
    <3>4. CASE calls = <<>>
      <4>1. d = c /\ (Shaped(m) <=> m.result # NoId)
        <5>1. Range(calls) = {}
          BY <3>4 DEF Range
        <5> QED  BY <1>3, <1>10, <2>5, <3>4, <5>1 DEF Shaped
      <4>2. /\ Paired(c, s) <=> (q # <<>> /\ Head(q) = m.result)
            /\ Paired(c, s) => WaitsIn(Tail(q), c, s)
        <5>1. /\ Paired(c, s) <=> (q # <<>> /\ Head(q) = s[Len(r) + 1][2])
              /\ Paired(c, s) => WaitsIn(Tail(q), c, s)
          <6>1. Len(s) = Len(r) + 1
            BY <1>9, <2>5
          <6>2. ResultDecides(c, r, s, q)
            BY <1>9, <2>1, <6>1, PairedResult
          <6> QED  BY <6>2 DEF ResultDecides
        <5> QED  BY <1>9, <2>5, <5>1
      <4>3. q # <<>> => Head(q) # EmptyId /\ Tail(q) \in Seq(Id)
        <5> SUFFICES ASSUME q # <<>> PROVE Head(q) # EmptyId /\ Tail(q) \in Seq(Id)
          OBVIOUS
        <5>1. Head(q) = q[1] /\ Tail(q) \in Seq(Id) /\ 1 \in 1..Len(q)
          BY <2>2
        <5>2. q[1] = c[Len(r) + 1][2]
          BY <2>1, <5>1 DEF WaitsIn
        <5>3. Len(r) + 1 \in 1..Len(c)
          BY <2>2, <5>1
        <5> QED  BY <2>1, <5>1, <5>2, <5>3 DEF Paired
      <4>4. f # Failed <=> m.result # NoId /\ q # <<>> /\ Head(q) = m.result
        <5>1. f = IF m.result \in {NoId, EmptyId} \/ q = <<>> \/ Head(q) # m.result
                  THEN Failed ELSE Tail(q)
          BY <1>3, <3>2, <3>4 DEF CheckResult
        <5>2. q # <<>> => Tail(q) # Failed
          BY <2>3, <4>3
        <5> QED  BY <4>3, <5>1, <5>2, Zenon
      <4>5. f # Failed => f = Tail(q)
        BY <3>2 DEF CheckResult
      <4> QED  BY <3>1, <4>1, <4>2, <4>4, <4>5
    <3> QED  BY <3>3, <3>4
  <2>6. CASE m.role \in {"User", "System"}
    <3>1. s = r /\ (Matched(h, k + 1, d, s) <=> Shaped(m) /\ Paired(d, r) /\ Len(c) = Len(r))
      BY <1>9, <1>11, <2>1, <2>6
    <3>2. f = IF m.calls # <<>> \/ m.result # NoId \/ q # <<>> THEN Failed ELSE q
      BY <1>7, <1>13, <2>6 DEF CheckMessage
    <3>3. Shaped(m) <=> calls = <<>> /\ m.result = NoId
      <4>1. calls = <<>> => Range(calls) = {}
        BY DEF Range
      <4> QED  BY <1>3, <2>6, <4>1 DEF Shaped
    <3>4. q = <<>> <=> Len(c) = Len(r)
      <4>1. q = <<>> <=> Len(q) = 0
        BY <2>2
      <4> QED  BY <2>2, <4>1
    <3> QED  BY <1>3, <1>10, <1>13, <2>1, <3>1, <3>2, <3>3, <3>4
  <2> QED  BY <1>4, <2>4, <2>5, <2>6
<1> QED  BY <1>12, <1>13

(* validate_tool_history lets through what README.md describes.            *)
LEMMA ValidatorDecides ==
  ASSUME NEW h \in Seq(ChatMessage)
  PROVE  h # <<>> /\ Converted(h) /\ Pending(h) = <<>> <=> WellFormed(h)
<1>0. PICK C, R :
        /\ C[0] = <<>> /\ R[0] = <<>>
        /\ CallsIn(h) = C[Len(h)] /\ ResultsIn(h) = R[Len(h)]
        /\ \A k \in 0..Len(h) : UpToPlace(C[k], k) /\ UpToPlace(R[k], k)
        /\ \A k \in 1..Len(h) : /\ C[k] = C[k - 1] \o CallsAt(h, k)
                                /\ R[k] = R[k - 1] \o ResultsAt(h, k)
  BY HistoryPlaces
<1>1. PICK n \in Nat : n = Len(h) /\ DOMAIN h = 1..n /\ \A k \in 1..n : h[k] \in ChatMessage
  OBVIOUS
<1>2. PICK acc : /\ acc[0] = <<>>
                 /\ \A k \in 0..n : acc[k] \in Pendings
                 /\ \A k \in 1..n : acc[k] = CheckMessage(acc[k - 1], h[k])
                 /\ Pending(h) = acc[n]
  <2>1. \E acc : /\ acc[0] = <<>>
                 /\ \A k \in 0..Len(h) : acc[k] \in Pendings
                 /\ \A k \in 1..Len(h) : acc[k] = CheckMessage(acc[k - 1], h[k])
                 /\ Pending(h) = acc[Len(h)]
    BY PendingFold
  <2> QED  BY <1>1, <2>1, Zenon
<1>3. /\ C[0] = <<>> /\ R[0] = <<>>
      /\ CallsIn(h) = C[n] /\ ResultsIn(h) = R[n]
      /\ \A k \in 0..n : UpToPlace(C[k], k) /\ UpToPlace(R[k], k)
      /\ \A k \in 1..n : /\ C[k] = C[k - 1] \o CallsAt(h, k)
                         /\ R[k] = R[k - 1] \o ResultsAt(h, k)
  BY <1>0, <1>1
<1>4. <<>> \in Seq(Id) /\ Failed \notin Seq(Id)
  BY ToolAssumption
<1> DEFINE S == {k \in Nat : k <= n => Decided(h, k, C[k], R[k], acc[k])}
<1>5. 0 \in S
  <2>1. Matched(h, 0, <<>>, <<>>) /\ WaitsIn(<<>>, <<>>, <<>>)
    BY <1>4 DEF Matched, Paired, Settled, WaitsIn
  <2> QED  BY <1>2, <1>3, <1>4, <2>1 DEF Decided
<1>6. ASSUME NEW k \in S PROVE k + 1 \in S
  <2> SUFFICES ASSUME k + 1 <= n PROVE Decided(h, k + 1, C[k + 1], R[k + 1], acc[k + 1])
    OBVIOUS
  <2>1. /\ k \in Nat /\ k \in 0..n /\ k + 1 \in 1..n /\ (k + 1) - 1 = k
        /\ Decided(h, k, C[k], R[k], acc[k])
    BY <1>1
  <2>2. PICK c, r, q, d, s, f : /\ c = C[k] /\ r = R[k] /\ q = acc[k]
                                /\ d = C[k + 1] /\ s = R[k + 1] /\ f = acc[k + 1]
    OBVIOUS
  <2>3. UpToPlace(c, k) /\ UpToPlace(r, k) /\ q \in Pendings /\ Decided(h, k, c, r, q)
    BY <1>2, <1>3, <2>1, <2>2
  <2>4. /\ d = c \o CallsAt(h, k + 1) /\ s = r \o ResultsAt(h, k + 1)
        /\ f = CheckMessage(q, h[k + 1])
    BY <1>2, <1>3, <2>1, <2>2
  <2>5. k + 1 \in 1..Len(h)
    BY <1>1, <2>1
  <2>6. Decided(h, k + 1, d, s, f)
    BY <2>1, <2>3, <2>4, <2>5, ValidatorStep
  <2> QED  BY <2>2, <2>6
<1>7. /\ acc[n] # Failed <=> Matched(h, n, C[n], R[n])
      /\ acc[n] # Failed => WaitsIn(acc[n], C[n], R[n])
  <2>1. n \in S
    <3> HIDE DEF S
    <3>1. S \in SUBSET Nat
      BY DEF S
    <3> QED  BY <1>5, <1>6, <3>1, NatInductionSet
  <2> QED  BY <2>1 DEF Decided
<1>8. PICK c, r : c = CallsIn(h) /\ r = ResultsIn(h)
  OBVIOUS
<1>9. /\ Len(c) \in Nat /\ Len(r) \in Nat /\ DOMAIN c = 1..Len(c)
  BY <1>3, <1>8 DEF UpToPlace
<1>10. Pending(h) = <<>> <=> Matched(h, n, c, r) /\ Len(c) = Len(r)
  <2>1. PICK q : q = Pending(h)
    OBVIOUS
  <2>2. /\ q # Failed <=> Matched(h, n, c, r)
        /\ q # Failed => WaitsIn(q, c, r)
    BY <1>2, <1>3, <1>7, <1>8, <2>1
  <2>3. WaitsIn(q, c, r) => (q = <<>> <=> Len(c) = Len(r))
    <3> SUFFICES ASSUME WaitsIn(q, c, r) PROVE q = <<>> <=> Len(c) = Len(r)
      OBVIOUS
    <3>1. q \in Seq(Id) /\ Len(q) = Len(c) - Len(r)
      BY DEF WaitsIn
    <3>2. q = <<>> <=> Len(q) = 0
      BY <3>1
    <3> QED  BY <1>9, <3>1, <3>2
  <2>4. q = <<>> => q # Failed
    BY <1>4
  <2> QED  BY <2>1, <2>2, <2>3, <2>4
<1>11. (\A m \in Range(h) : Shaped(m)) <=> \A p \in 1..n : Shaped(h[p])
  <2>1. Range(h) = {h[p] : p \in 1..n}
    BY <1>1 DEF Range
  <2> QED  BY <2>1
<1>12. Matched(h, n, c, r) => Converted(h)
  BY <1>11 DEF Matched, Shaped, Converted
<1>13. WellFormed(h) <=> h # <<>> /\ Matched(h, n, c, r) /\ Len(c) = Len(r)
  <2>1. WellFormed(h) <=>
          /\ h # <<>>
          /\ \A m \in Range(h) : Shaped(m)
          /\ Len(c) = Len(r)
          /\ \A i \in 1..Len(c) : /\ c[i][2] = r[i][2] /\ c[i][2] # EmptyId
                                  /\ c[i][1] < r[i][1]
          /\ \A i, j \in 1..Len(c) : i < j /\ c[i][2] = c[j][2] => r[i][1] < c[j][1]
          /\ Settled(h, n, c, r)
    BY <1>1, <1>8, <1>9 DEF WellFormed, Shaped, Settled
  <2>2. ASSUME Len(c) = Len(r)
        PROVE  Paired(c, r) <=>
                 /\ \A i \in 1..Len(c) : /\ c[i][2] = r[i][2] /\ c[i][2] # EmptyId
                                         /\ c[i][1] < r[i][1]
                 /\ \A i, j \in 1..Len(c) : i < j /\ c[i][2] = c[j][2] => r[i][1] < c[j][1]
    BY <1>9, <2>2 DEF Paired
  <2> QED  BY <1>11, <2>1, <2>2 DEF Matched
<1> QED  BY <1>10, <1>12, <1>13

-----------------------------------------------------------------------------
(* The theorems.                                                           *)

LEMMA ToolNext == ToolInv /\ [Next]_vars => ToolInv'
<1> SUFFICES ASSUME ToolInv, [Next]_vars PROVE ToolInv'
  OBVIOUS
<1>1. CASE Ask
  BY <1>1, AskKeeps
<1>2. CASE AnswerCalls
  BY <1>2, AnswerKeeps
<1>3. CASE Write
  BY <1>3, WriteKeeps
<1>4. CASE Echo
  BY <1>4, EchoKeeps
<1>5. CASE Submit
  BY <1>5, SubmitKeeps
<1>6. CASE Generate \/ GenerateFails
  BY <1>6, GenerateKeeps
<1>7. CASE UNCHANGED vars
  <2>1. UNCHANGED <<tools, history, careful, phase, requests, qwen, template, output, reply>>
    BY <1>7 DEF vars
  <2>2. /\ Waiting' = Waiting /\ Declared' = Declared /\ ToolsValid(tools)' = ToolsValid(tools)
        /\ RenderedBy(template)' = RenderedBy(template)
    BY <2>1 DEF Waiting, Declared, RenderedBy, Select, ToolsValid
  <2> QED  BY <2>1, <2>2 DEF ToolInv, TypeInv, ReplyInv, BareInv, CarefulInv
<1> QED  BY <1>1, <1>2, <1>3, <1>4, <1>5, <1>6, <1>7 DEF Next

LEMMA ToolInvariance == Spec => []ToolInv
<1>1. Init => ToolInv
  BY ToolInit
<1>2. ToolInv /\ [Next]_vars => ToolInv'
  BY ToolNext
<1> QED  BY <1>1, <1>2, PTL DEF Spec

(* A conversation with calls or results is answered from a rendering that  *)
(* has them, or from a template file of the model's directory that leaves  *)
(* them out: without tools the validator of the coordinator lets no call   *)
(* through, and with tools the worker takes no embedded template           *)
(* (decompute-llama/src/templates.rs:57-75).                               *)
THEOREM OnlyOverridesEverDropCalls == Spec => []OnlyOverridesDropCalls
<1>1. ToolInv => OnlyOverridesDropCalls
  <2> SUFFICES ASSUME ToolInv, phase = "replied", NEW m \in Range(history),
                      m.calls # <<>> \/ m.role = "Tool"
               PROVE  \/ RendersCalls(RenderedBy(template))
                      \/ RenderedBy(template) \in Overrides \ ToolAware
    BY DEF OnlyOverridesDropCalls
  <2>1. tools # <<>>
    BY DEF ToolInv, BareInv
  <2>2. RenderedBy(template) # Failed
    BY DEF ToolInv, ReplyInv
  <2>3. RenderedBy(template) \in Overrides \cup {"qwen-tools"}
    BY <2>1, <2>2 DEF RenderedBy, Select
  <2> QED  BY <2>3 DEF RendersCalls
<1> QED  BY <1>1, ToolInvariance, PTL

(* A client that echoes every reply and answers its calls in order is never*)
(* refused: the ids parse_tool_calls gives out are fresh, its calls are    *)
(* declared, and the validator's pending queue empties with the results.   *)
THEOREM RepliesAlwaysAccepted == Spec => []RepliesAccepted
<1>1. ToolInv => RepliesAccepted
  BY DEF ToolInv, CarefulInv, RepliesAccepted
<1> QED  BY <1>1, ToolInvariance, PTL

(* Whatever the model wrote, the text of a reply is exactly the pieces that*)
(* stand outside of the blocks and its calls are exactly those inside, both*)
(* in order: no marker and no body reaches the client as text.             *)
THEOREM MarkupAlwaysWithheld == Spec => []MarkupWithheld
<1>1. ToolInv => MarkupWithheld
  <2> SUFFICES ASSUME ToolInv PROVE MarkupWithheld
    OBVIOUS
  <2>1. TypeOK
    <3>1. reply # NoReply => /\ reply.calls # <<>> => reply.finish = "ToolCalls"
                             /\ reply.finish = "ToolCalls" => tools # <<>>
      BY DEF ToolInv, ReplyInv
    <3> QED  BY <3>1 DEF ToolInv, TypeInv, TypeOK
  <2>2. ASSUME phase = "replied", tools # <<>>
        PROVE  LET shown == {i \in DOMAIN output : ~InBlock(i)}
                   bodies == {i \in DOMAIN output : InBlock(i) /\ output[i] \notin {Open, Close}}
               IN /\ Len(reply.text) = Cardinality(shown) /\ Len(reply.calls) = Cardinality(bodies)
                  /\ \A i \in shown : reply.text[UpTo(shown, i)] = output[i]
                  /\ \A i \in bodies : reply.calls[UpTo(bodies, i)].name = output[i].name
                  /\ (reply.finish = "ToolCalls") = (bodies # {})
    <3>1. PICK shown, bodies :
            /\ shown = {i \in DOMAIN output : ~InBlock(i)}
            /\ bodies = {i \in DOMAIN output : InBlock(i) /\ output[i] \notin {Open, Close}}
      OBVIOUS
    <3>2. Len(output) \in Nat /\ DOMAIN output = 1..Len(output)
      BY <2>2, ToolAssumption DEF ToolInv, ReplyInv
    <3>3. \A i : InBlock(i) <=> InAt(output, i)
      BY DEF InBlock, InAt
    <3>4. shown = ShownTo(output, Len(output)) /\ bodies = BodiesTo(output, Len(output))
      BY <3>1, <3>2, <3>3 DEF ShownTo, BodiesTo
    <3>5. /\ reply.calls \in Seq(ToolCall) /\ (reply.finish = "ToolCalls" <=> reply.calls # <<>>)
          /\ Shows(output, reply.text, shown) /\ Calls(output, reply.calls, bodies)
      BY <2>2, <3>4 DEF ToolInv, ReplyInv
    <3>6. Cardinality(bodies) = 0 <=> bodies = {}
      <4>1. IsFiniteSet(1..Len(output))
        <5>1. 1 \in Int /\ Len(output) \in Int
          BY <3>2
        <5> QED  BY <5>1, FS_Interval, Zenon
      <4>2. bodies \subseteq 1..Len(output)
        BY <3>1, <3>2
      <4>3. IsFiniteSet(bodies)
        BY <4>1, <4>2, FS_Subset
      <4> QED  BY <4>3, FS_EmptySet
    <3>7. reply.calls = <<>> <=> Len(reply.calls) = 0
      BY <3>5
    <3>8. (reply.finish = "ToolCalls") = (bodies # {})
      BY <3>5, <3>6, <3>7 DEF Calls
    <3> QED  BY <3>1, <3>5, <3>8 DEF Shows, Calls
  <2> QED  BY <2>1, <2>2 DEF MarkupWithheld
<1> QED  BY <1>1, ToolInvariance, PTL

(* The validator's one pass decides exactly what README.md says of tool    *)
(* histories, for histories of any length: results match the calls in      *)
(* their order, and no question comes between.                             *)
THEOREM ValidatorAlwaysExact == Spec => []ValidatorExact
<1>1. ToolInv => ValidatorExact
  <2> SUFFICES ASSUME ToolInv PROVE ValidatorExact
    OBVIOUS
  <2>1. history \in Seq(ChatMessage)
    BY DEF ToolInv, TypeInv
  <2>2. history # <<>> /\ Converted(history) /\ Pending(history) = <<>> <=> WellFormed(history)
    BY <2>1, ValidatorDecides
  <2> QED  BY <2>2 DEF ValidatorExact, Accepted
<1> QED  BY <1>1, ToolInvariance, PTL

=============================================================================
