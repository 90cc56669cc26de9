--------------------------- MODULE MCEmployeeSync ---------------------------
(* Model values for TLC. *)
EXTENDS EmployeeSync, TLC

CONSTANTS k1, none, w1, w2, r1, r2

MCKeys == {k1}
MCWorkers == {w1, w2}
MCRequests == {r1, r2}
MCEvents == {"event"}

\* Neither the workers nor the requests are told apart.
ActorSymmetry == Permutations(MCWorkers) \cup Permutations(MCRequests)
=============================================================================
