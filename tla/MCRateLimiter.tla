---------------------------- MODULE MCRateLimiter ----------------------------
(* An instance of RateLimiter for TLC. *)
EXTENDS RateLimiter, TLC

CONSTANTS r1, r2, r3, r4, r5

Symmetry == Permutations(Requests)
=============================================================================
