---------------------------- MODULE MCArtifactGates ----------------------------
(* Symmetry of ArtifactGates (evidence ids, claim ids and texts), and bounds. *)
EXTENDS ArtifactGates, FiniteSets, TLC

Symmetry == Permutations(Cards) \cup Permutations(Claims) \cup Permutations(Texts)

\* No exploratory artifacts: their gate checks nothing of the claims.
Gated == \A o \in Generations : call[o].pc \notin {"start", "done"} => call[o].target # "exploratory"

\* The document is named alone or with one claim or card.
FewNamed == \A o \in Generations : Doc \in call[o].request => Cardinality(call[o].request) <= 2

=============================================================================
