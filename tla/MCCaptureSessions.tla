-------------------------- MODULE MCCaptureSessions --------------------------
(* Small instances of CaptureSessions. *)
EXTENDS CaptureSessions, TLC

CONSTANTS c1, c2, s1, s2, w1, w2, r1, r2

TwoCaptures == {c1, c2}
TwoSessions == {s1, s2}
TwoSavers == {w1, w2}
TwoRequests == {r1, r2}

AnyOrder ==
  Permutations(Captures) \union Permutations(Sessions) \union Permutations(Savers)
    \union Permutations(Requests)
=============================================================================
