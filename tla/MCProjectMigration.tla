------------------------ MODULE MCProjectMigration ------------------------
(* Small instances of ProjectMigration for TLC. *)
EXTENDS ProjectMigration, TLC

Symmetry == Permutations(Sessions) \cup Permutations(Migrations)
            \cup Permutations(Updates)
===========================================================================
