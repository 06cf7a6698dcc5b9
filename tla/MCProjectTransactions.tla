----------------------- MODULE MCProjectTransactions -----------------------
(* Instances of ProjectTransactions for TLC. *)
EXTENDS ProjectTransactions, TLC

\* Contents, transaction ids and paths are only compared for equality.
Symmetry == Permutations(Hashes) \cup Permutations(Tx) \cup Permutations(Paths)
=============================================================================
