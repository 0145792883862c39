---------------------------- MODULE MC_HttRxHash ----------------------------
(* Model of the hash table for TLC: three addresses, two of which collide  *)
(* in bucket 1 of RX_HASH_FUNCTION (0x10 and 0x4000) while 0x20 goes to    *)
(* bucket 2; one pre-allocated entry per bucket, so the second entry of    *)
(* bucket 1 is malloc'd.                                                   *)
EXTENDS HttRxHash, TLC

CONSTANTS b1, b2, b3, null

MC_Addrs == {16, 16384, 32}
MC_Bufs == {b1, b2, b3}

Symmetry == Permutations(MC_Bufs)
====
