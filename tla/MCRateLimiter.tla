--------------------------- MODULE MCRateLimiter ---------------------------
(* Interchangeable downloads. *)
EXTENDS RateLimiter, TLC

Symmetry == Permutations(Tasks)
=============================================================================
