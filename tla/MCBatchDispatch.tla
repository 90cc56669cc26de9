-------------------------- MODULE MCBatchDispatch --------------------------
(* Instances of BatchDispatch for TLC: a batch of one or of two chunks.    *)
EXTENDS BatchDispatch, TLC

CONSTANTS w1, w2, batch1

OneBatch == {batch1}
OneChunk == 1 :> batch1
TwoChunks == 1 :> batch1 @@ 2 :> batch1
=============================================================================
