---------------------------- MODULE MCRateLimiter ----------------------------
(* A small instance of RateLimiter: interchangeable requests. *)
EXTENDS RateLimiter, TLC

CONSTANTS q1, q2

TwoRequests == {q1, q2}

AnyOrder == Permutations(TwoRequests)
=============================================================================
