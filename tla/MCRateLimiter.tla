--------------------------- MODULE MCRateLimiter ----------------------------
(* RateLimiter with a few seconds, requests and failures. *)
EXTENDS RateLimiter, TLC

WorkerSymmetry == Permutations(Workers)
=============================================================================
