-------------------------- MODULE MCPositionCache ---------------------------
(* A small instance of the position cache for TLC. *)
EXTENDS PositionCache, TLC

MCSymmetry == Permutations(Pings) \cup Permutations(Readers)
=============================================================================
