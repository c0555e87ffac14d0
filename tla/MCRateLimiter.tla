---------------------------- MODULE MCRateLimiter ----------------------------
(* Small instances of RateLimiter for TLC. *)
EXTENDS RateLimiter, TLC

CONSTANTS key1, task1, task2

Symmetry == Permutations(Tasks)
=============================================================================
