-------------------------- MODULE MCSessionLeases ---------------------------
(* Three requests contend for one session, two of them unary and one       *)
(* streamed; those that give up fill the thread and its channel of one job. *)
EXTENDS SessionLeases

CONSTANTS r1, r2, r3, s1

MCSessionOf == [r \in Request |-> s1]

=============================================================================
