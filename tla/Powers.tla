-------------------------------- MODULE Powers --------------------------------
(***************************************************************************)
(* Powers of two: the retry delay of the producer's script doubles, so does *)
(* the indexer's backoff, and the block reward is halved.                  *)
(***************************************************************************)
EXTENDS Integers

Pow2[n \in Nat] == IF n = 0 THEN 1 ELSE 2 * Pow2[n - 1]
===============================================================================
