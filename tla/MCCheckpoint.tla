---------------------------- MODULE MCCheckpoint ----------------------------
(* Checkpoint on a small instance: the savers are interchangeable. *)
EXTENDS Checkpoint, TLC

Symmetry == Permutations(Saver)
=============================================================================
