--------------------------- MODULE MCIdempotency ---------------------------
(* Instance of Idempotency for TLC.                                        *)
EXTENDS Idempotency, TLC

Symmetry == Permutations(Attempt)
=============================================================================
