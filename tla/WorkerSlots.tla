---------------------------- MODULE WorkerSlots -----------------------------
(* What a worker's admission control promises: at most MaxRequests         *)
(* handlers hold a slot at any time, and a handler holds a slot once, for  *)
(* one stretch of time.  WorkerRuntime implements this with an atomic      *)
(* counter and a compare-and-swap loop.                                    *)
EXTENDS Integers, FiniteSets

CONSTANTS Handler, MaxRequests

VARIABLES holding,  \* handlers that hold a slot
          spent     \* handlers that held one and gave it back

Init == holding = {} /\ spent = {}

Admit(h) ==
  /\ h \notin holding \cup spent
  /\ Cardinality(holding) < MaxRequests
  /\ holding' = holding \cup {h}
  /\ UNCHANGED spent

Free(h) ==
  /\ h \in holding
  /\ holding' = holding \ {h}
  /\ spent' = spent \cup {h}

Next == \E h \in Handler : Admit(h) \/ Free(h)

Spec == Init /\ [][Next]_<<holding, spent>>

=============================================================================
