--------------------------- MODULE MCEvidenceLedger ---------------------------
(* Symmetry of EvidenceLedger (tool calls, evidence ids and texts), and bounds. *)
EXTENDS EvidenceLedger, FiniteSets, TLC

CONSTANT MaxRecords   \* bound: cards and claims in the project

Symmetry == Permutations(Ops) \cup Permutations(Cards) \cup Permutations(Texts)

\* Three cards without a claim, or two with one.
FewRecords == Cardinality(R!Stored) + Cardinality(R!Existing) <= MaxRecords

\* With two cards and a claim no further card is drafted from the abstract.
Quotes(o) == call[o].draft # None /\ call[o].pc # "link" => call[o].draft.text # None
FewDrafts == Cardinality(R!Stored) = 2 /\ R!Existing # {} => \A o \in Ops : Quotes(o)

=============================================================================
