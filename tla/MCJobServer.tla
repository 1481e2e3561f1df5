----------------------------- MODULE MCJobServer -----------------------------
(* Small instances of JobServer. *)
EXTENDS JobServer, TLC

CONSTANTS j1, w1, w2, d1, d2

TwoWorkers == {w1, w2}
TwoDeletes == {d1, d2}

AnyOrder == Permutations(TwoWorkers) \union Permutations(TwoDeletes)
=============================================================================
