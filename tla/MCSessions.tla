----------------------------- MODULE MCSessions -----------------------------
EXTENDS Sessions, TLC
TabSymmetry == Permutations(Tabs)
=============================================================================
