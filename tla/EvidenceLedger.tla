---------------------------- MODULE EvidenceLedger ----------------------------
(***************************************************************************)
(* The tools that write evidence cards, claims and documents               *)
(* (research-agent/src/tools/evidence.ts, evidence/commit.ts,              *)
(* tools/documents.ts and commitEvidence of extension/tools.ts).           *)
(*                                                                         *)
(* Every tool call runs as an operation; calls of several sessions         *)
(* interleave between any two reads and commits.  A commit is atomic and   *)
(* succeeds only with the project's current revision (AtomicStore); where  *)
(* the code opens the project right before it commits, opening and         *)
(* committing are one step and a conflict is a step of its own.  A call    *)
(* that stops for good has crashed.  Any commit may also conflict with one *)
(* of a record that is not modelled.  Drafts that name records which do    *)
(* not exist are left out: they are refused.  No code confirms a claim or  *)
(* reviews a card, so the paths for reviewed records are left out too.     *)
(***************************************************************************)
EXTENDS Naturals

CONSTANTS Ops,         \* tool calls
          Cards, Claims, Texts, Relations, MaxRevision, None

ASSUME LedgerConstants ==
    /\ Relations \subseteq {"supports", "qualifies", "refutes", "context_only"}
    /\ MaxRevision \in Nat
    /\ None \notin Ops \cup Cards \cup Claims \cup Texts

VARIABLES
    doc, cards, claims, \* the records, as in EvidenceRecords
    origin,    \* card -> the operation it was extracted by
    inputs,    \* operation -> the document states that its record names as inputs
    fresh,     \* operations that opened the project at its current revision
    call,      \* operation -> its next step and its variables
    swept      \* the last document revision for which stale cards were removed

vars == <<doc, cards, claims, origin, inputs, fresh, call, swept>>

R == INSTANCE EvidenceRecords

----------------------------------------------------------------------------
PCs == {"start", "claims", "cards", "checkClaim", "commitClaim", "addInputs", "openCard",
        "checkCard", "commitCard", "link", "update", "readDocument", "sweep", "invalidate", "done"}

Unparsed == [rev |-> 0, text |-> None]

CallRecords ==
    [pc : PCs, links : SUBSET R!Links, draft : R!CardDrafts \cup {None}, card : Cards \cup {None},
     ref : R!Documents, todo : SUBSET Cards]

\* A call between two drafts, or one that has ended.
At(step) == [pc |-> step, links |-> {}, draft |-> None, card |-> None, ref |-> Unparsed, todo |-> {}]

TypeOK ==
    /\ R!TypeOK
    /\ origin \in [Cards -> Ops \cup {None}]
    /\ inputs \in [Ops -> SUBSET R!Documents]
    /\ fresh \subseteq Ops
    /\ call \in [Ops -> CallRecords]
    /\ swept \in Nat

Init ==
    /\ R!Init
    /\ origin = [e \in Cards |-> None]
    /\ inputs = [o \in Ops |-> {}]
    /\ fresh = {}
    /\ call = [o \in Ops |-> At("start")]
    /\ swept = 0

\* The operation opens the project, and is done with what it opened; a commit
\* makes every opened revision stale.
Open(o) == fresh' = fresh \cup {o}
Close(o) == fresh' = fresh \ {o}
Committed == fresh' = {}

Becomes(o, from, record) == call[o].pc = from /\ call' = [call EXCEPT ![o] = record]
Moves(o, from, to) == Becomes(o, from, [call[o] EXCEPT !.pc = to])
Returns(o, from, to) == Becomes(o, from, At(to))

----------------------------------------------------------------------------
(***************************************************************************)
(* commit_evidence: first the claims, then the cards.                      *)
(***************************************************************************)
StartEvidence(o) ==
    /\ Moves(o, "start", "claims")
    /\ UNCHANGED <<doc, cards, claims, origin, inputs, fresh, swept>>

\* A claim draft; every evidence id is linked at most once.
OpenClaim(o, links) ==
    /\ Becomes(o, "claims", [At("checkClaim") EXCEPT !.links = links])
    /\ \A k, l \in links : k.card \in R!Stored /\ (k.card = l.card => k = l)
    /\ Open(o)
    /\ UNCHANGED <<doc, cards, claims, origin, inputs, swept>>

\* commitClaim, up to its commit: a claim with the same fingerprint is returned.
\* The fingerprint covers the wording, which is left out, and the links.
CheckClaim(o) ==
    LET links == call[o].links
        active == {l.card : l \in links} \subseteq R!Active IN
    /\ \/ /\ active
          /\ Moves(o, "checkClaim", "commitClaim")
          /\ UNCHANGED fresh
       \/ /\ ~active \/ \E c \in R!Existing : claims[c].links = links
          /\ Returns(o, "checkClaim", "claims")
          /\ Close(o)
    /\ UNCHANGED <<doc, cards, claims, origin, inputs, swept>>

\* Mutant: the revision is opened anew for the commit.
CommitClaimLate(o, c) ==
    /\ Returns(o, "commitClaim", "claims")
    /\ c \notin R!Existing
    /\ claims' = [claims EXCEPT ![c] = [exists |-> "yes", rev |-> 0, links |-> call[o].links]]
    /\ Committed
    /\ UNCHANGED <<doc, cards, origin, inputs, swept>>

CommitClaim(o, c) ==
    /\ Returns(o, "commitClaim", "claims")
    /\ o \in fresh
    /\ c \notin R!Existing
    /\ claims' = [claims EXCEPT ![c] = [exists |-> "yes", rev |-> 0, links |-> call[o].links]]
    /\ Committed
    /\ UNCHANGED <<doc, cards, origin, inputs, swept>>

ClaimConflict(o) ==
    /\ Returns(o, "commitClaim", "claims")
    /\ Close(o)
    /\ UNCHANGED <<doc, cards, claims, origin, inputs, swept>>

\* A card draft: the document is read ...
ReadForCard(o, d) ==
    /\ d.link # None => d.link.claim \in R!Existing
    /\ d.supersedes # None => d.supersedes \in R!Stored
    /\ \E from \in {"claims", "cards"} :
         Becomes(o, from, [At("addInputs") EXCEPT !.draft = d, !.ref = doc])
    /\ UNCHANGED <<doc, cards, claims, origin, inputs, fresh, swept>>

\* ... and becomes an input of the operation (addOperationInputs).
AddInputs(o) ==
    /\ Becomes(o, "addInputs", [call[o] EXCEPT !.pc = "openCard", !.ref = Unparsed])
    /\ IF call[o].draft.text = None \/ call[o].ref \in inputs[o]
         THEN UNCHANGED <<inputs, fresh>>
         ELSE inputs' = [inputs EXCEPT ![o] = @ \cup {call[o].ref}] /\ Committed
    /\ UNCHANGED <<doc, cards, claims, origin, swept>>

AddInputsConflict(o) ==
    /\ Returns(o, "addInputs", "done")
    /\ UNCHANGED <<doc, cards, claims, origin, inputs, fresh, swept>>

OpenCard(o) ==
    /\ Moves(o, "openCard", "checkCard")
    /\ Open(o)
    /\ UNCHANGED <<doc, cards, claims, origin, inputs, swept>>

\* Mutant: the operation need not name the document as it is now.
ValidAgainstText(o, d) ==
    /\ d.text # None => doc.text = d.text
    /\ d.link # None => d.link.claim \in R!Existing
    /\ d.supersedes # None => d.supersedes \in R!Active

\* validateEvidenceCardDraft: the operation names the document as it is, the
\* excerpt is in its text, the claim exists, the card superseded is active.
ValidDraft(o, d) ==
    /\ d.text # None => doc \in inputs[o] /\ doc.text = d.text
    /\ d.link # None => d.link.claim \in R!Existing
    /\ d.supersedes # None => d.supersedes \in R!Active

\* commitEvidenceCard, up to its commit: the active card with this fingerprint
\* is taken if there is one.
CheckCard(o) ==
    LET d == call[o].draft
        same == {e \in R!Active : cards[e].draft = d} IN
    /\ call[o].pc = "checkCard"
    /\ \/ /\ ~ValidDraft(o, d)
          /\ Returns(o, "checkCard", "cards")
          /\ Close(o)
       \/ /\ ValidDraft(o, d)
          /\ same = {}
          /\ Moves(o, "checkCard", "commitCard")
          /\ UNCHANGED fresh
       \/ /\ ValidDraft(o, d)
          /\ \E e \in same : Becomes(o, "checkCard", [call[o] EXCEPT !.pc = "link", !.card = e])
          /\ Close(o)
    /\ UNCHANGED <<doc, cards, claims, origin, inputs, swept>>

\* Mutant: the revision is opened anew for the commit.
CommitCardLate(o, e) ==
    /\ Becomes(o, "commitCard", [call[o] EXCEPT !.pc = "link", !.card = e])
    /\ e \notin R!Stored
    /\ R!Store(e, call[o].draft)
    /\ origin' = [origin EXCEPT ![e] = o]
    /\ Committed
    /\ UNCHANGED <<doc, claims, inputs, swept>>

\* createRecord, or createRecordWithUpdate when a card is superseded.
CommitCard(o, e) ==
    /\ Becomes(o, "commitCard", [call[o] EXCEPT !.pc = "link", !.card = e])
    /\ o \in fresh
    /\ e \notin R!Stored
    /\ R!Store(e, call[o].draft)
    /\ origin' = [origin EXCEPT ![e] = o]
    /\ Committed
    /\ UNCHANGED <<doc, claims, inputs, swept>>

CardConflict(o) ==
    /\ Returns(o, "commitCard", "cards")
    /\ Close(o)
    /\ UNCHANGED <<doc, cards, claims, origin, inputs, swept>>

\* linkEvidenceToClaim: the link is added unless the claim has one to the card.
LinkClaim(o) ==
    LET l == call[o].draft.link
        new == [card |-> call[o].card, relation |-> l.relation] IN
    /\ Returns(o, "link", "cards")
    /\ IF l = None \/ \E k \in claims[l.claim].links : k.card = call[o].card
         THEN UNCHANGED <<claims, fresh>>
         ELSE /\ claims' = [claims EXCEPT ![l.claim].links = @ \cup {new}, ![l.claim].rev = @ + 1]
              /\ Committed
    /\ UNCHANGED <<doc, cards, origin, inputs, swept>>

\* The card stays, without its link.
LinkConflict(o) ==
    /\ Returns(o, "link", "cards")
    /\ UNCHANGED <<doc, cards, claims, origin, inputs, fresh, swept>>

EndEvidence(o) ==
    /\ \E from \in {"claims", "cards"} : Returns(o, from, "done")
    /\ UNCHANGED <<doc, cards, claims, origin, inputs, fresh, swept>>

----------------------------------------------------------------------------
(***************************************************************************)
(* acquireDocument and parseDocument: the document record is updated, then *)
(* cards whose operation does not name its text are invalidated one by     *)
(* one.                                                                    *)
(***************************************************************************)
StartDocument(o) ==
    /\ Becomes(o, "start", [At("update") EXCEPT !.ref = doc])
    /\ UNCHANGED <<doc, cards, claims, origin, inputs, fresh, swept>>

\* The update succeeds if nobody updated the document in the meantime.
UpdateDocument(o, text) ==
    /\ Moves(o, "update", "readDocument")
    /\ call[o].ref.rev = doc.rev
    /\ doc.rev < MaxRevision
    /\ doc' = [rev |-> doc.rev + 1, text |-> text]
    /\ Committed
    /\ UNCHANGED <<cards, claims, origin, inputs, swept>>

UpdateConflict(o) ==
    /\ Returns(o, "update", "done")
    /\ UNCHANGED <<doc, cards, claims, origin, inputs, fresh, swept>>

\* The document is read back and the cards are listed.
ReadDocument(o) ==
    /\ Becomes(o, "readDocument", [At("sweep") EXCEPT !.ref = doc, !.todo = R!Stored])
    /\ UNCHANGED <<doc, cards, claims, origin, inputs, fresh, swept>>

\* hasInputFile: the operation names this text among its input files.
HasText(o, text) == text # None /\ \E d \in inputs[o] : d.text = text

\* The active located cards that do not come from this text.
Stale(e, text) ==
    /\ e \in R!Active
    /\ cards[e].draft.text # None
    /\ ~HasText(origin[e], text)

\* One round of the loop of invalidateStaleEvidenceForDocument.
SweepCard(o, e) ==
    /\ e \in call[o].todo
    /\ Becomes(o, "sweep", [call[o] EXCEPT !.todo = @ \ {e}])
    /\ IF Stale(e, call[o].ref.text)
         THEN cards' = [cards EXCEPT ![e].validity = "invalidated", ![e].rev = @ + 1] /\ Committed
         ELSE UNCHANGED <<cards, fresh>>
    /\ UNCHANGED <<doc, claims, origin, inputs, swept>>

\* A conflict ends the loop; the tool reports partial success.
SweepConflict(o) ==
    /\ Returns(o, "sweep", "done")
    /\ call[o].todo # {}
    /\ UNCHANGED <<doc, cards, claims, origin, inputs, fresh, swept>>

SweepDone(o) ==
    /\ Returns(o, "sweep", "done")
    /\ call[o].todo = {}
    /\ swept' = IF call[o].ref.rev > swept THEN call[o].ref.rev ELSE swept
    /\ UNCHANGED <<doc, cards, claims, origin, inputs, fresh>>

----------------------------------------------------------------------------
(***************************************************************************)
(* invalidateEvidenceCard                                                  *)
(***************************************************************************)
StartInvalidate(o, e) ==
    /\ e \in R!Stored
    /\ Becomes(o, "start", [At("invalidate") EXCEPT !.card = e])
    /\ Open(o)
    /\ UNCHANGED <<doc, cards, claims, origin, inputs, swept>>

Invalidate(o) ==
    LET e == call[o].card IN
    /\ Returns(o, "invalidate", "done")
    /\ o \in fresh
    /\ e \in R!Active
    /\ cards' = [cards EXCEPT ![e].validity = "invalidated", ![e].rev = @ + 1]
    /\ Committed
    /\ UNCHANGED <<doc, claims, origin, inputs, swept>>

\* A conflict, or the card is not active any more.
InvalidateRefused(o) ==
    /\ Returns(o, "invalidate", "done")
    /\ Close(o)
    /\ UNCHANGED <<doc, cards, claims, origin, inputs, swept>>

----------------------------------------------------------------------------
CommitEvidence(o) ==
    \/ StartEvidence(o) \/ CheckClaim(o) \/ ClaimConflict(o) \/ AddInputs(o) \/ AddInputsConflict(o)
    \/ OpenCard(o) \/ CheckCard(o) \/ CardConflict(o) \/ LinkClaim(o) \/ LinkConflict(o) \/ EndEvidence(o)
    \/ \E links \in SUBSET R!Links : OpenClaim(o, links)
    \/ \E c \in Claims : CommitClaim(o, c)
    \/ \E d \in R!CardDrafts : ReadForCard(o, d)
    \/ \E e \in Cards : CommitCard(o, e)

Document(o) ==
    \/ StartDocument(o) \/ UpdateConflict(o) \/ ReadDocument(o) \/ SweepConflict(o) \/ SweepDone(o)
    \/ \E text \in Texts \cup {None} : UpdateDocument(o, text)
    \/ \E e \in Cards : SweepCard(o, e)

Invalidation(o) == Invalidate(o) \/ InvalidateRefused(o) \/ \E e \in Cards : StartInvalidate(o, e)

Next == \E o \in Ops : CommitEvidence(o) \/ Document(o) \/ Invalidation(o)

Spec == Init /\ [][Next]_vars

----------------------------------------------------------------------------
(***************************************************************************)
(* Properties.                                                             *)
(***************************************************************************)
\* However calls overlap, the records change only as EvidenceRecords says: what a
\* call has checked still holds when its commit succeeds.
RecordsHold == R!Spec

\* No two active cards say the same, although two calls may look for an existing
\* card before either commits.
OneActivePerFingerprint == R!OneActivePerFingerprint

\* A card is superseded by exactly one card, even if two calls replace it at once.
SupersededByOne == R!SupersededByOne

\* Once the cards were examined for the document as it is, every active located
\* card comes from an operation that had the current text.  Cards may be created
\* and operations gain inputs meanwhile.
SweptIsCurrent == swept = doc.rev => \A e \in Cards : ~Stale(e, doc.text)

=============================================================================
