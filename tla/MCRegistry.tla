----------------------------- MODULE MCRegistry -----------------------------
(* Two workers of one and of two slots.  Equal ranks leave the choice to   *)
(* the load and the id.                                                    *)
EXTENDS Registry

MCWorker == {1, 2}
EqualRank == [w \in MCWorker |-> 0]
OneAndTwo == [w \in MCWorker |-> w]

=============================================================================
