--------------------------- MODULE MCIdempotency ----------------------------
(* Small instances of the idempotency keys for TLC. *)
EXTENDS Idempotency, TLC

MCSymmetry == Permutations(Bodies) \cup Permutations(Requests)
=============================================================================
