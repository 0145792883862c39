--------------------------- MODULE MC_HttRxRefill ---------------------------
(* Model-checking instance of HttRxRefill: two rx contexts, a ring of four *)
(* slots filled to three (fill_level = size - 1, as htt_rx_ring_fill_level *)
(* gives when both latency bounds are equal), and five buffers.            *)
EXTENDS HttRxRefill, TLC

CONSTANTS c1, c2, tmr, none, b1, b2, b3, b4, b5

MC_RxCtx == {c1, c2}
MC_RxCtx1 == {c1}
MC_Bufs == {b1, b2, b3, b4, b5}
MC_Bufs4 == {b1, b2, b3, b4}

(* Buffers and rx contexts are interchangeable for the safety properties. *)
Symmetry == Permutations(MC_Bufs) \cup Permutations(MC_RxCtx)
=============================================================================
