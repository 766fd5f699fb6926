----------------------------- MODULE MCRowLocks -----------------------------
(* RowLocks for TLC: interchangeable sessions, one question for each Run,  *)
(* or two questions of one Run.                                            *)
EXTENDS RowLocks

CONSTANTS r1, r2, q1, q2

EachItsOwn == q1 :> r1 @@ q2 :> r2
BothOne    == q1 :> r1 @@ q2 :> r1
Symmetry   == Permutations(Sessions)
=============================================================================
