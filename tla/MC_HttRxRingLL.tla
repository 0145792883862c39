---------------------------- MODULE MC_HttRxRingLL ----------------------------
EXTENDS HttRxRingLL, TLC

CONSTANTS c1, c2, tmr

MC_RxCtx == {c1, c2}

Symmetry == Permutations(MC_RxCtx)

====
