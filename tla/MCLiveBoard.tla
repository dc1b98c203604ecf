---------------------------- MODULE MCLiveBoard ----------------------------
EXTENDS LiveBoard, TLC
Processes == Permutations(Instances)
=============================================================================
