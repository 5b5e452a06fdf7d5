------------------------- MODULE MCEntityLifecycle -------------------------
(* Instances of EntityLifecycle for TLC. *)
EXTENDS EntityLifecycle, TLC

Symmetry == Permutations(Task)
=============================================================================
