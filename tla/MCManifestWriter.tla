-------------------------- MODULE MCManifestWriter --------------------------
(* Instances of ManifestWriter for TLC. *)
EXTENDS ManifestWriter, TLC

\* Entities and tasks are interchangeable.
Symmetry == Permutations(Entity) \cup Permutations(Task)
=============================================================================
