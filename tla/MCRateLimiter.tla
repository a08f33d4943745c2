--------------------------- MODULE MCRateLimiter ---------------------------
(* Small instances of RateLimiter for TLC.                                 *)
EXTENDS RateLimiter, TLC

MCSymmetry == Permutations(Reqs)
=============================================================================
