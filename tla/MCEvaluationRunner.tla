------------------------- MODULE MCEvaluationRunner -------------------------
(* EvaluationRunner for TLC: two interchangeable workers.                  *)
EXTENDS EvaluationRunner, TLC

Symmetry == Permutations(Workers)
=============================================================================
