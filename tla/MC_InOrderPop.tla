---------------------------- MODULE MC_InOrderPop ----------------------------
EXTENDS InOrderPop, TLC
====
