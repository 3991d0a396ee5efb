---------------------------- MODULE MCRateLimiter ----------------------------
(* Requests are interchangeable, and so are processes. *)
EXTENDS RateLimiter, TLC

RateSymmetry == Permutations(Requests) \cup Permutations(Processes)
=============================================================================
