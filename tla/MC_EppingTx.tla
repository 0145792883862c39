---------------------------- MODULE MC_EppingTx ----------------------------
EXTENDS EppingTx, TLC

CONSTANTS p1, p2, p3, d1

MC_Pkts == {p1, p2, p3}
MC_Pkts2 == {p1, p2}
MC_Dups == {d1}

Symmetry == Permutations(MC_Pkts)

====
