-------------------------- MODULE MCBatchReminder --------------------------
(* Instances of BatchReminder for TLC.                                     *)
EXTENDS BatchReminder, TLC

CONSTANTS k1, k2, r1, r2, r3

TwoKeys == r1 :> k1 @@ r2 :> k1 @@ r3 :> k2
=============================================================================
