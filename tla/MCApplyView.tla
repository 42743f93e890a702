---------------------------- MODULE MCApplyView ----------------------------
(* ApplyView on small instances: three versions of the input.               *)
EXTENDS ApplyView, TLC

CONSTANTS r1, r2, good, weak, bad

MCRows == [v \in {good, weak, bad} |-> IF v = good THEN 2 ELSE 1]

\* The runs are interchangeable.
Symmetry == Permutations(Run)
=============================================================================
