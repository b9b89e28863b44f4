-------------------------- MODULE MCAudioHandlePool --------------------------
(* Three generations and three slots, of the second of two kinds. *)
EXTENDS AudioHandlePool, TLC

MCValues == Permutations(Values)
=============================================================================
