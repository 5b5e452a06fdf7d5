--------------------------- MODULE MCEntityState ---------------------------
(* Instances of EntityState for TLC. *)
EXTENDS EntityState, TLC

\* Calls, and the states other than the empty one, are interchangeable.
Symmetry == Permutations(Call) \cup Permutations(State \ {EmptyState})
=============================================================================
