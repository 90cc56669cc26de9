--------------------------- MODULE MCArchiveSync ---------------------------
(* Instances of ArchiveSync for TLC.                                       *)
EXTENDS ArchiveSync, TLC

CONSTANTS w1, w2

WorkerSymmetry == Permutations({w1, w2})
=============================================================================
