--------------------------- MODULE MCWorkerStartup --------------------------
(* A worker on the shared cache and one with a file of its own, and a      *)
(* caller of the resolver that may cancel.                                 *)
EXTENDS WorkerStartup

CONSTANTS w1, w2, caller

=============================================================================
