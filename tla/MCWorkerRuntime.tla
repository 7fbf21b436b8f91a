-------------------------- MODULE MCWorkerRuntime ---------------------------
(* Three handlers, two of them with the same request id and one of those   *)
(* two streaming, contend for the slots of one worker.                     *)
EXTENDS WorkerRuntime

CONSTANTS h1, h2, h3, r1, r2

MCHandler == {h1, h2, h3}
MCStreaming == {h2}
MCIdOf == [h \in MCHandler |-> IF h = h3 THEN r2 ELSE r1]

(* One handler of each route, with the same request id.                    *)
PairHandler == {h1, h2}
PairIdOf == [h \in PairHandler |-> r1]

=============================================================================
