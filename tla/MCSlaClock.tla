----------------------------- MODULE MCSlaClock -----------------------------
(* Small instances of the SLA clock for TLC. *)
EXTENDS SlaClockRefinement, TLC

MCSymmetry == Permutations(Hooks) \cup Permutations(Workers)
=============================================================================
