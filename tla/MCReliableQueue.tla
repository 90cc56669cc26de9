--------------------------- MODULE MCReliableQueue ---------------------------
(* Model values for TLC. *)
EXTENDS ReliableQueue, TLC


CONSTANTS k1, none, w1, w2

MCKeys == {k1}
MCWorkers == {w1, w2}
MCAllKinds == {"event", "mistyped", "garbage"}
=============================================================================
