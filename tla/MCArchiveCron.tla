--------------------------- MODULE MCArchiveCron ---------------------------
(* Instances of ArchiveCron for TLC.                                       *)
EXTENDS ArchiveCron, TLC

CONSTANTS p1, p2

ProcessSymmetry == Permutations({p1, p2})
=============================================================================
