------------------------------- MODULE MCFleet ------------------------------
(* One worker and two requests, one of each kind.  Addresses are alike     *)
(* until the first crash, so the first life of a worker listens on a1;     *)
(* a later one comes back there or at another address.  A behaviour has    *)
(* one process that stops and one report that is lost, or else one call    *)
(* that breaks (MaxFaults is 3); and while a binding exists none of them:  *)
(* with one worker the affinity decides nothing.                           *)
EXTENDS Fleet

CONSTANTS unary, streamed, m1, a1, MaxFaults

MCWorker == {1}
MCRank == [w \in MCWorker |-> 0]
MCSlots == [w \in MCWorker |-> 1]
MCServes == [w \in MCWorker |-> m1]

FirstLifeAt(a) == budget.crashes = MaxCrashes => addr' = [w \in MCWorker |-> a]

Faults ==
  2 * (MaxCrashes - budget.crashes) + 2 * (MaxRestarts - budget.restarts)
    + (MaxLost - budget.losses) + 3 * (MaxBreaks - budget.breaks)

FewFaults == Faults <= IF DOMAIN affinity = {} /\ Unlocked THEN MaxFaults ELSE 0

MCFleetInit == FleetInit /\ addr = [w \in MCWorker |-> a1]
MCFleetNext == FleetNext /\ FirstLifeAt(a1) /\ FewFaults'
MCFleetSpec == MCFleetInit /\ [][MCFleetNext]_fleetVars /\ FleetFairness

=============================================================================
