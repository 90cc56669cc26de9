---------------------------- MODULE EventLifecycle ----------------------------
(***************************************************************************)
(* What the durable callback inbox promises about one event, without       *)
(* workers, leases or retries: an event that was accepted stays open until *)
(* exactly one verdict is recorded, a completed event is never reopened,   *)
(* and only an operator can reopen a dead one.  Every open event gets a    *)
(* verdict.  The items of the Redis queues have no operator: with          *)
(* VerdictSpec a dead one is final too.                                    *)
(***************************************************************************)
CONSTANT Events

VARIABLE stage

Stages == {"absent", "open", "completed", "dead"}

LifecycleInit == stage = [e \in Events |-> "absent"]

Accept(e) ==
    /\ stage[e] = "absent"
    /\ stage' = [stage EXCEPT ![e] = "open"]

Finish(e) ==
    /\ stage[e] = "open"
    /\ stage' = [stage EXCEPT ![e] = "completed"]

\* One claim transaction may bury several exhausted events at once.
Bury(S) ==
    /\ \A e \in S : stage[e] = "open"
    /\ stage' = [e \in Events |-> IF e \in S THEN "dead" ELSE stage[e]]

Reopen(e) ==
    /\ stage[e] = "dead"
    /\ stage' = [stage EXCEPT ![e] = "open"]

VerdictNext ==
    \/ \E e \in Events : Accept(e) \/ Finish(e)
    \/ \E S \in SUBSET Events : Bury(S)

VerdictSpec == LifecycleInit /\ [][VerdictNext]_stage

LifecycleNext == VerdictNext \/ \E e \in Events : Reopen(e)

LifecycleSpec == LifecycleInit /\ [][LifecycleNext]_stage

===============================================================================
