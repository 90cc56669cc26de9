--------------------------- MODULE MCArchiveMedia ---------------------------
(* Instances of ArchiveMedia for TLC.                                      *)
EXTENDS ArchiveMedia, TLC

CONSTANTS w1, w2

WorkerSymmetry == Permutations({w1, w2})
=============================================================================
