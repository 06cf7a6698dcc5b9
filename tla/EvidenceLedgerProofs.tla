------------------------- MODULE EvidenceLedgerProofs -------------------------
(***************************************************************************)
(* Proofs about EvidenceLedger.                                            *)
(*                                                                         *)
(* The properties follow from an invariant of two parts: what each call    *)
(* knows at its step (CallInv: as long as the revision that it opened is   *)
(* current, what it has checked holds; a sweep for the document as it is   *)
(* has left no stale card behind) and how the records hang together.       *)
(***************************************************************************)
EXTENDS EvidenceLedger, TLAPS

----------------------------------------------------------------------------
LinkedOnce(links) == \A k, l \in links : k.card = l.card => k = l
AllActive(links) == {l.card : l \in links} \subseteq R!Active
Unseen(d) == \A f \in R!Active : cards[f].draft # d
WithDraft == {"addInputs", "openCard", "checkCard", "commitCard", "link"}

\* What a call knows at its step.
CallInv(o) ==
    /\ call[o].pc \in {"checkClaim", "commitClaim"} => LinkedOnce(call[o].links)
    /\ call[o].pc = "commitClaim" /\ o \in fresh => AllActive(call[o].links)
    /\ call[o].pc \in WithDraft => call[o].draft \in R!CardDrafts
    /\ call[o].pc = "commitCard" /\ o \in fresh =>
         ValidDraft(o, call[o].draft) /\ Unseen(call[o].draft)
    /\ call[o].pc = "link" =>
         /\ call[o].card \in R!Stored
         /\ call[o].draft.link # None => call[o].draft.link.claim \in R!Existing
    /\ call[o].pc = "sweep" =>
         /\ call[o].ref.rev <= doc.rev
         /\ call[o].ref.rev = doc.rev =>
              /\ call[o].ref.text = doc.text
              /\ \A e \in Cards \ call[o].todo : ~Stale(e, doc.text)

\* How the records hang together: SupersededByOne without counting, and where
\* cards come from.
Succession ==
    /\ \A f \in R!Stored : cards[f].draft.supersedes # None =>
         cards[cards[f].draft.supersedes].validity = "superseded"
    /\ \A f, g \in R!Stored :
         cards[f].draft.supersedes # None /\ cards[f].draft.supersedes = cards[g].draft.supersedes => f = g
    /\ \A e \in Cards : cards[e].validity = "superseded" =>
         \E f \in R!Stored : cards[f].draft.supersedes = e
Origins == \A e \in R!Stored : cards[e].draft \in R!CardDrafts /\ origin[e] \in Ops
SweptInv == swept <= doc.rev /\ SweptIsCurrent

LedgerInv ==
    /\ TypeOK
    /\ \A o \in Ops : CallInv(o)
    /\ Succession
    /\ Origins
    /\ SweptInv
    /\ OneActivePerFingerprint

----------------------------------------------------------------------------
(***************************************************************************)
(* Types.                                                                  *)
(***************************************************************************)
\* A call between two drafts is a call.
LEMMA AtType == ASSUME NEW step \in PCs PROVE At(step) \in CallRecords
  BY DEF At, CallRecords, Unparsed, R!Documents

\* One field of a call is set.
LEMMA CallUpdates ==
    ASSUME NEW r \in CallRecords
    PROVE  /\ \A x \in PCs : [r EXCEPT !.pc = x] \in CallRecords
           /\ \A x \in SUBSET R!Links : [r EXCEPT !.links = x] \in CallRecords
           /\ \A x \in R!CardDrafts : [r EXCEPT !.draft = x] \in CallRecords
           /\ \A x \in Cards : [r EXCEPT !.card = x] \in CallRecords
           /\ \A x \in R!Documents : [r EXCEPT !.ref = x] \in CallRecords
           /\ \A x \in SUBSET Cards : [r EXCEPT !.todo = x] \in CallRecords
  BY DEF CallRecords

\* The records a call leaves alone keep their types.
LEMMA TypeStep ==
    ASSUME TypeOK, NEW o \in Ops, NEW record \in CallRecords,
           call' = [call EXCEPT ![o] = record],
           R!TypeOK',
           origin' \in [Cards -> Ops \cup {None}],
           inputs' \in [Ops -> SUBSET R!Documents],
           fresh' \subseteq Ops,
           swept' \in Nat
    PROVE  TypeOK'
  BY DEF TypeOK

----------------------------------------------------------------------------
(***************************************************************************)
(* What a step of one call leaves to the others.                           *)
(***************************************************************************)
\* The knowledge of a call survives the steps of the others: a commit takes away
\* its revision, records stay, and no card becomes stale for a document that stays.
LEMMA OthersKnow ==
    ASSUME NEW p \in Ops, CallInv(p), TypeOK, TypeOK',
           call'[p] = call[p],
           p \in fresh' => p \in fresh /\ UNCHANGED <<doc, cards, claims, inputs>>,
           R!Stored \subseteq R!Stored',
           R!Existing \subseteq R!Existing',
           \/ doc' = doc /\ \A e \in Cards : ~Stale(e, doc.text) => ~Stale(e, doc.text)'
           \/ doc'.rev > doc.rev
    PROVE  CallInv(p)'
<1>1. p \in fresh' => /\ AllActive(call[p].links) => AllActive(call[p].links)'
                      /\ ValidDraft(p, call[p].draft) => ValidDraft(p, call[p].draft)'
                      /\ Unseen(call[p].draft) => Unseen(call[p].draft)'
  BY DEF AllActive, ValidDraft, Unseen, R!Active, R!Existing
<1>2. call[p].ref.rev \in Nat /\ doc.rev \in Nat /\ doc'.rev \in Nat
  BY DEF TypeOK, R!TypeOK, CallRecords, R!Documents
<1>3. call[p].pc = "sweep" =>
        /\ call[p].ref.rev <= doc'.rev
        /\ call[p].ref.rev = doc'.rev =>
              /\ call[p].ref.text = doc'.text
              /\ \A e \in Cards \ call[p].todo : ~Stale(e, doc.text)'
  <2>1. CASE doc'.rev > doc.rev
    BY <1>2, <2>1 DEF CallInv
  <2>2. CASE doc' = doc /\ \A e \in Cards : ~Stale(e, doc.text) => ~Stale(e, doc.text)'
    BY <1>2, <2>2 DEF CallInv
  <2>3. QED BY <2>1, <2>2
<1>4. QED BY <1>1, <1>3 DEF CallInv, LinkedOnce

\* Steps that change no record: what counts is what the call itself knows next.
LEMMA CallStep ==
    ASSUME LedgerInv, NEW o \in Ops, NEW record \in CallRecords,
           call' = [call EXCEPT ![o] = record],
           UNCHANGED <<doc, cards, claims, origin, inputs, swept>>,
           fresh' \subseteq fresh \cup {o},
           CallInv(o)'
    PROVE  LedgerInv'
<1>1. TypeOK'
  <2>1. R!TypeOK'
    BY DEF LedgerInv, TypeOK, R!TypeOK
  <2>2. QED BY <2>1, TypeStep DEF LedgerInv, TypeOK
<1>2. ASSUME NEW e \in Cards PROVE Stale(e, doc.text)' <=> Stale(e, doc.text)
  BY DEF Stale, HasText, R!Active
<1>3. ASSUME NEW p \in Ops PROVE CallInv(p)'
  <2>1. CASE p = o
    BY <2>1
  <2>2. CASE p # o
    <3>1. call'[p] = call[p]
      BY <2>2 DEF LedgerInv, TypeOK
    <3>2. R!Stored = R!Stored' /\ R!Existing = R!Existing'
      BY DEF R!Stored, R!Existing
    <3>3. p \in fresh' => p \in fresh
      BY <2>2
    <3>4. QED BY <1>1, <1>2, <3>1, <3>2, <3>3, OthersKnow DEF LedgerInv
  <2>3. QED BY <2>1, <2>2
<1>4. Succession' /\ Origins' /\ OneActivePerFingerprint'
  BY DEF LedgerInv, Succession, Origins, OneActivePerFingerprint, R!OneActivePerFingerprint, R!Stored, R!Active
<1>5. SweptInv'
  BY <1>2 DEF LedgerInv, SweptInv, SweptIsCurrent
<1>6. QED BY <1>1, <1>3, <1>4, <1>5 DEF LedgerInv

\* A call that returns to its loop or ends knows nothing.
LEMMA ReturnStep ==
    ASSUME LedgerInv, NEW o \in Ops, NEW from, NEW to \in {"start", "claims", "cards", "done"},
           Returns(o, from, to),
           UNCHANGED <<doc, cards, claims, origin, inputs, swept>>,
           fresh' \subseteq fresh \cup {o}
    PROVE  LedgerInv'
<1>1. At(to) \in CallRecords /\ At(to).pc = to
  BY AtType DEF PCs, At
<1>2. call'[o] = At(to) /\ call' = [call EXCEPT ![o] = At(to)]
  BY DEF Returns, Becomes, LedgerInv, TypeOK
<1>3. CallInv(o)'
  BY <1>1, <1>2 DEF CallInv, WithDraft
<1>4. QED BY <1>1, <1>2, <1>3, CallStep

\* commitEvidenceCard, up to its commit.
LEMMA CardChecked ==
    ASSUME LedgerInv, NEW o \in Ops, CheckCard(o)
    PROVE  LedgerInv'
<1>0. call \in [Ops -> CallRecords] /\ call[o] \in CallRecords /\ CallInv(o) /\ "link" \in PCs /\ "commitCard" \in PCs
  BY DEF LedgerInv, TypeOK, PCs
<1>1. call[o].pc = "checkCard" /\ call[o].draft \in R!CardDrafts
  BY <1>0 DEF CheckCard, CallInv, WithDraft
<1>2. /\ UNCHANGED <<doc, cards, claims, origin, inputs, swept>>
      /\ R!Active' = R!Active /\ R!Stored' = R!Stored /\ R!Existing' = R!Existing
  BY DEF CheckCard, R!Active, R!Stored, R!Existing
<1>3. CASE Returns(o, "checkCard", "cards") /\ Close(o)
  BY <1>2, <1>3, ReturnStep DEF Close
<1>4. CASE /\ ValidDraft(o, call[o].draft) /\ Unseen(call[o].draft)
           /\ Moves(o, "checkCard", "commitCard") /\ UNCHANGED fresh
  <2>1. call' = [call EXCEPT ![o] = [call[o] EXCEPT !.pc = "commitCard"]]
    BY <1>4 DEF Moves, Becomes
  <2>2. [call[o] EXCEPT !.pc = "commitCard"] \in CallRecords
    BY <1>0, CallUpdates
  <2>3. call'[o].pc = "commitCard" /\ call'[o].draft = call[o].draft
    BY <1>0, <2>1 DEF CallRecords
  <2>4. ValidDraft(o, call[o].draft)' /\ Unseen(call[o].draft)'
    BY <1>2, <1>4, <2>3 DEF ValidDraft, Unseen
  <2>5. CallInv(o)'
    BY <1>1, <2>3, <2>4 DEF CallInv
  <2>6. QED BY <1>2, <1>4, <2>1, <2>2, <2>5, CallStep
<1>5. CASE /\ ValidDraft(o, call[o].draft) /\ Close(o)
           /\ \E e \in {f \in R!Active : cards[f].draft = call[o].draft} :
                Becomes(o, "checkCard", [call[o] EXCEPT !.pc = "link", !.card = e])
  <2>1. PICK e \in R!Active : Becomes(o, "checkCard", [call[o] EXCEPT !.pc = "link", !.card = e])
    BY <1>5
  <2>2. e \in Cards /\ e \in R!Stored
    BY <2>1 DEF R!Active, R!Stored
  <2>3. call' = [call EXCEPT ![o] = [call[o] EXCEPT !.pc = "link", !.card = e]]
    BY <2>1 DEF Becomes
  <2>4. [call[o] EXCEPT !.pc = "link"] \in CallRecords
    BY <1>0, CallUpdates
  <2>5. [call[o] EXCEPT !.pc = "link", !.card = e] \in CallRecords
    BY <2>2, <2>4, CallUpdates
  <2>6. call'[o].pc = "link" /\ call'[o].draft = call[o].draft /\ call'[o].card = e
    BY <1>0, <2>3 DEF CallRecords
  <2>7. CallInv(o)'
    BY <1>1, <1>2, <1>5, <2>2, <2>6 DEF CallInv, ValidDraft
  <2>8. QED BY <1>2, <1>5, <2>3, <2>5, <2>7, CallStep DEF Close
<1>6. QED BY <1>3, <1>4, <1>5 DEF CheckCard, Unseen

\* Steps of commit_evidence that change no record.
LEMMA EvidenceReads ==
    ASSUME LedgerInv, NEW o \in Ops,
           \/ StartEvidence(o) \/ CheckClaim(o) \/ ClaimConflict(o) \/ AddInputsConflict(o)
           \/ OpenCard(o) \/ CheckCard(o) \/ CardConflict(o) \/ LinkConflict(o) \/ EndEvidence(o)
           \/ \E links \in SUBSET R!Links : OpenClaim(o, links)
           \/ \E d \in R!CardDrafts : ReadForCard(o, d)
    PROVE  LedgerInv'
<1> USE DEF PCs
<1>0. call \in [Ops -> CallRecords] /\ fresh \subseteq Ops /\ call[o] \in CallRecords /\ CallInv(o)
  BY DEF LedgerInv, TypeOK
<1>1. CASE StartEvidence(o)
  <2>1. call' = [call EXCEPT ![o] = [call[o] EXCEPT !.pc = "claims"]]
    BY <1>1 DEF StartEvidence, Moves, Becomes
  <2>2. [call[o] EXCEPT !.pc = "claims"] \in CallRecords
    BY <1>0, CallUpdates
  <2>3. call'[o].pc = "claims"
    BY <1>0, <2>1 DEF CallRecords
  <2>4. CallInv(o)'
    BY <2>3 DEF CallInv, WithDraft
  <2>5. QED BY <1>1, <2>1, <2>2, <2>4, CallStep DEF StartEvidence
<1>2. CASE ClaimConflict(o) \/ CardConflict(o)
  BY <1>2, ReturnStep DEF ClaimConflict, CardConflict, Close
<1>3. CASE AddInputsConflict(o) \/ LinkConflict(o) \/ EndEvidence(o)
  BY <1>3, ReturnStep DEF AddInputsConflict, LinkConflict, EndEvidence
<1>4. CASE \E links \in SUBSET R!Links : OpenClaim(o, links)
  <2>1. PICK links \in SUBSET R!Links : OpenClaim(o, links)
    BY <1>4
  <2>2. [At("checkClaim") EXCEPT !.links = links] \in CallRecords
    BY AtType, CallUpdates
  <2>3. call' = [call EXCEPT ![o] = [At("checkClaim") EXCEPT !.links = links]]
    BY <2>1 DEF OpenClaim, Becomes
  <2>4. call'[o].pc = "checkClaim" /\ call'[o].links = links
    BY <1>0, <2>3 DEF At
  <2>5. CallInv(o)'
    BY <2>1, <2>4 DEF OpenClaim, CallInv, WithDraft, LinkedOnce
  <2>6. QED BY <2>1, <2>2, <2>3, <2>5, CallStep DEF OpenClaim, Open
<1>5. CASE CheckClaim(o)
  <2>1. CASE Returns(o, "checkClaim", "claims") /\ Close(o)
    BY <1>5, <2>1, ReturnStep DEF CheckClaim, Close
  <2>2. CASE /\ Moves(o, "checkClaim", "commitClaim") /\ UNCHANGED fresh
             /\ {l.card : l \in call[o].links} \subseteq R!Active
    <3>1. call' = [call EXCEPT ![o] = [call[o] EXCEPT !.pc = "commitClaim"]] /\ call[o].pc = "checkClaim"
      BY <2>2 DEF Moves, Becomes
    <3>2. [call[o] EXCEPT !.pc = "commitClaim"] \in CallRecords
      BY <1>0, CallUpdates
    <3>3. call'[o].pc = "commitClaim" /\ call'[o].links = call[o].links
      BY <1>0, <3>1 DEF CallRecords
    <3>4. R!Active' = R!Active
      BY <1>5 DEF CheckClaim, R!Active
    <3>5. CallInv(o)'
      BY <1>0, <2>2, <3>1, <3>3, <3>4 DEF CallInv, WithDraft, LinkedOnce, AllActive
    <3>6. QED BY <1>5, <2>2, <3>1, <3>2, <3>5, CallStep DEF CheckClaim
  <2>3. QED BY <1>5, <2>1, <2>2 DEF CheckClaim
<1>6. CASE \E d \in R!CardDrafts : ReadForCard(o, d)
  <2>1. PICK d \in R!CardDrafts : ReadForCard(o, d)
    BY <1>6
  <2>2. [At("addInputs") EXCEPT !.draft = d] \in CallRecords /\ doc \in R!Documents
    BY AtType, CallUpdates DEF LedgerInv, TypeOK, R!TypeOK
  <2>3. [At("addInputs") EXCEPT !.draft = d, !.ref = doc] \in CallRecords
    BY <2>2, CallUpdates
  <2>4. call' = [call EXCEPT ![o] = [At("addInputs") EXCEPT !.draft = d, !.ref = doc]]
    BY <2>1 DEF ReadForCard, Becomes
  <2>5. call'[o].pc = "addInputs" /\ call'[o].draft = d
    BY <1>0, <2>4 DEF At
  <2>6. CallInv(o)'
    BY <2>5 DEF CallInv
  <2>7. QED BY <2>1, <2>3, <2>4, <2>6, CallStep DEF ReadForCard
<1>7. CASE OpenCard(o)
  <2>1. call' = [call EXCEPT ![o] = [call[o] EXCEPT !.pc = "checkCard"]] /\ call[o].pc = "openCard"
    BY <1>7 DEF OpenCard, Moves, Becomes
  <2>2. [call[o] EXCEPT !.pc = "checkCard"] \in CallRecords
    BY <1>0, CallUpdates
  <2>3. call'[o].pc = "checkCard" /\ call'[o].draft = call[o].draft
    BY <1>0, <2>1 DEF CallRecords
  <2>4. CallInv(o)'
    BY <1>0, <2>1, <2>3 DEF CallInv, WithDraft
  <2>5. QED BY <1>7, <2>1, <2>2, <2>4, CallStep DEF OpenCard, Open
<1>8. CASE CheckCard(o)
  BY <1>8, CardChecked
<1>9. QED BY <1>1, <1>2, <1>3, <1>4, <1>5, <1>6, <1>7, <1>8

\* Steps of the other tools that change no record.
LEMMA OtherReads ==
    ASSUME LedgerInv, NEW o \in Ops,
           \/ StartDocument(o) \/ UpdateConflict(o) \/ ReadDocument(o) \/ SweepConflict(o)
           \/ InvalidateRefused(o) \/ \E e \in Cards : StartInvalidate(o, e)
    PROVE  LedgerInv'
<1> USE DEF PCs
<1>0. call \in [Ops -> CallRecords] /\ call[o] \in CallRecords /\ doc \in R!Documents
  BY DEF LedgerInv, TypeOK, R!TypeOK
<1>1. CASE UpdateConflict(o) \/ SweepConflict(o) \/ InvalidateRefused(o)
  BY <1>1, ReturnStep DEF UpdateConflict, SweepConflict, InvalidateRefused, Close
<1>2. CASE StartDocument(o)
  <2>1. call' = [call EXCEPT ![o] = [At("update") EXCEPT !.ref = doc]]
    BY <1>2 DEF StartDocument, Becomes
  <2>2. [At("update") EXCEPT !.ref = doc] \in CallRecords
    BY <1>0, AtType, CallUpdates
  <2>3. call'[o].pc = "update"
    BY <1>0, <2>1 DEF At
  <2>4. CallInv(o)'
    BY <2>3 DEF CallInv, WithDraft
  <2>5. QED BY <1>2, <2>1, <2>2, <2>4, CallStep DEF StartDocument
<1>3. CASE ReadDocument(o)
  <2>1. call' = [call EXCEPT ![o] = [At("sweep") EXCEPT !.ref = doc, !.todo = R!Stored]]
    BY <1>3 DEF ReadDocument, Becomes
  <2>2. [At("sweep") EXCEPT !.ref = doc] \in CallRecords /\ R!Stored \in SUBSET Cards
    BY <1>0, AtType, CallUpdates DEF R!Stored
  <2>3. [At("sweep") EXCEPT !.ref = doc, !.todo = R!Stored] \in CallRecords
    BY <2>2, CallUpdates
  <2>4. call'[o].pc = "sweep" /\ call'[o].ref = doc /\ call'[o].todo = R!Stored
    BY <1>0, <2>1 DEF At
  <2>5. \A e \in Cards \ R!Stored : ~Stale(e, doc.text)'
    BY <1>3 DEF ReadDocument, Stale, R!Active, R!Stored
  <2>6. doc' = doc /\ doc.rev \in Nat
    BY <1>0, <1>3 DEF ReadDocument, R!Documents
  <2>7. CallInv(o)'
    BY <2>4, <2>5, <2>6 DEF CallInv, WithDraft
  <2>8. QED BY <1>3, <2>1, <2>3, <2>7, CallStep DEF ReadDocument
<1>4. CASE \E e \in Cards : StartInvalidate(o, e)
  <2>1. PICK e \in Cards : StartInvalidate(o, e)
    BY <1>4
  <2>2. call' = [call EXCEPT ![o] = [At("invalidate") EXCEPT !.card = e]]
    BY <2>1 DEF StartInvalidate, Becomes
  <2>3. [At("invalidate") EXCEPT !.card = e] \in CallRecords
    BY AtType, CallUpdates
  <2>4. call'[o].pc = "invalidate"
    BY <1>0, <2>2 DEF At
  <2>5. CallInv(o)'
    BY <2>4 DEF CallInv, WithDraft
  <2>6. QED BY <2>1, <2>2, <2>3, <2>5, CallStep DEF StartInvalidate, Open
<1>5. QED BY <1>1, <1>2, <1>3, <1>4

----------------------------------------------------------------------------
(***************************************************************************)
(* Commits.                                                                *)
(***************************************************************************)
\* A commit preserves the invariant if the records do, for the call that made it
\* and in how they change.
LEMMA CommitStep ==
    ASSUME LedgerInv, NEW o \in Ops, NEW record \in CallRecords,
           call' = [call EXCEPT ![o] = record],
           fresh' = {},
           TypeOK',
           R!Stored \subseteq R!Stored',
           R!Existing \subseteq R!Existing',
           \/ doc' = doc /\ \A e \in Cards : ~Stale(e, doc.text) => ~Stale(e, doc.text)'
           \/ doc'.rev > doc.rev,
           CallInv(o)',
           Succession', Origins', OneActivePerFingerprint',
           swept' = swept
    PROVE  LedgerInv'
<1>1. ASSUME NEW p \in Ops PROVE CallInv(p)'
  <2>1. CASE p = o
    BY <2>1
  <2>2. CASE p # o
    <3>1. call'[p] = call[p]
      BY <2>2 DEF LedgerInv, TypeOK
    <3>2. QED BY <3>1, OthersKnow DEF LedgerInv
  <2>3. QED BY <2>1, <2>2
<1>2. SweptInv'
  <2>1. doc.rev \in Nat /\ doc'.rev \in Nat /\ swept \in Nat
    BY DEF LedgerInv, TypeOK, R!TypeOK, R!Documents
  <2>2. CASE doc'.rev > doc.rev
    BY <2>1, <2>2 DEF LedgerInv, SweptInv, SweptIsCurrent
  <2>3. CASE doc' = doc /\ \A e \in Cards : ~Stale(e, doc.text) => ~Stale(e, doc.text)'
    BY <2>1, <2>3 DEF LedgerInv, SweptInv, SweptIsCurrent
  <2>4. QED BY <2>2, <2>3
<1>3. QED BY <1>1, <1>2 DEF LedgerInv

\* The call that committed and returned knows nothing.
LEMMA ReturnedKnows ==
    ASSUME LedgerInv, NEW o \in Ops, NEW from, NEW to \in {"claims", "cards", "done"}, Returns(o, from, to)
    PROVE  /\ At(to) \in CallRecords
           /\ call' = [call EXCEPT ![o] = At(to)]
           /\ CallInv(o)'
<1>1. At(to) \in CallRecords /\ At(to).pc = to
  BY AtType DEF PCs, At
<1>2. call'[o] = At(to) /\ call' = [call EXCEPT ![o] = At(to)]
  BY DEF Returns, Becomes, LedgerInv, TypeOK
<1>3. QED BY <1>1, <1>2 DEF CallInv, WithDraft

\* commitClaim creates a claim.
LEMMA ClaimCommitted ==
    ASSUME LedgerInv, NEW o \in Ops, NEW c \in Claims, CommitClaim(o, c)
    PROVE  LedgerInv' /\ R!Next
<1> DEFINE new == [exists |-> "yes", rev |-> 0, links |-> call[o].links]
<1>0. call[o] \in CallRecords /\ CallInv(o) /\ claims \in [Claims -> R!ClaimRecords]
  BY DEF LedgerInv, TypeOK, R!TypeOK
<1>1. claims' = [claims EXCEPT ![c] = new] /\ c \notin R!Existing /\ o \in fresh /\ call[o].pc = "commitClaim"
  BY DEF CommitClaim, Returns, Becomes
<1>2. new \in R!ClaimRecords /\ new.exists = "yes" /\ call[o].links \in SUBSET R!Links
  BY <1>0 DEF R!ClaimRecords, CallRecords
<1> HIDE DEF new
<1>3. LedgerInv'
  <2>1. /\ At("claims") \in CallRecords
        /\ call' = [call EXCEPT ![o] = At("claims")]
        /\ CallInv(o)'
    BY ReturnedKnows DEF CommitClaim
  <2>2. UNCHANGED <<doc, cards, origin, inputs, swept>> /\ fresh' = {}
    BY DEF CommitClaim, Committed
  <2>3. TypeOK'
    <3>1. R!TypeOK'
      BY <1>0, <1>1, <1>2, <2>2 DEF LedgerInv, TypeOK, R!TypeOK
    <3>2. QED BY <2>1, <2>2, <3>1, TypeStep DEF LedgerInv, TypeOK
  <2>4. R!Stored = R!Stored' /\ R!Existing \subseteq R!Existing'
    BY <1>0, <1>1, <1>2, <2>2 DEF R!Stored, R!Existing
  <2>5. \A e \in Cards : ~Stale(e, doc.text) => ~Stale(e, doc.text)'
    BY <2>2 DEF Stale, HasText, R!Active
  <2>6. Succession' /\ Origins' /\ OneActivePerFingerprint'
    BY <2>2 DEF LedgerInv, Succession, Origins, OneActivePerFingerprint, R!OneActivePerFingerprint, R!Stored, R!Active
  <2>7. QED BY <2>1, <2>2, <2>3, <2>4, <2>5, <2>6, CommitStep
<1>4. R!CreateClaim(c, call[o].links)
  BY <1>0, <1>1 DEF CommitClaim, R!CreateClaim, CallInv, AllActive, LinkedOnce
<1>5. QED BY <1>2, <1>3, <1>4 DEF R!Next

\* addOperationInputs: the operation gains an input or has it already.
LEMMA InputsAdded ==
    ASSUME LedgerInv, NEW o \in Ops, AddInputs(o)
    PROVE  LedgerInv' /\ UNCHANGED R!vars
<1> DEFINE record == [call[o] EXCEPT !.pc = "openCard", !.ref = Unparsed]
<1>0. /\ call \in [Ops -> CallRecords] /\ call[o] \in CallRecords /\ CallInv(o)
      /\ inputs \in [Ops -> SUBSET R!Documents] /\ Unparsed \in R!Documents /\ "openCard" \in PCs
  BY DEF LedgerInv, TypeOK, Unparsed, R!Documents, PCs
<1>1. call' = [call EXCEPT ![o] = record] /\ call[o].pc = "addInputs" /\ UNCHANGED <<doc, cards, claims, origin, swept>>
  BY DEF AddInputs, Becomes
<1>2. [call[o] EXCEPT !.pc = "openCard"] \in CallRecords
  BY <1>0, CallUpdates
<1>3. record \in CallRecords
  BY <1>0, <1>2, CallUpdates
<1>4. call'[o].pc = "openCard" /\ call'[o].draft = call[o].draft
  BY <1>0, <1>1 DEF CallRecords
<1> HIDE DEF record
<1>5. CallInv(o)'
  BY <1>0, <1>1, <1>4 DEF CallInv, WithDraft
<1>6. UNCHANGED R!vars
  BY <1>1 DEF R!vars
<1>7. CASE UNCHANGED <<inputs, fresh>>
  BY <1>1, <1>3, <1>5, <1>6, <1>7, CallStep
<1>8. CASE inputs' = [inputs EXCEPT ![o] = @ \cup {call[o].ref}] /\ Committed
  <2>1. fresh' = {}
    BY <1>8 DEF Committed
  <2>2. call[o].ref \in R!Documents
    BY <1>0 DEF CallRecords
  <2>3. inputs' \in [Ops -> SUBSET R!Documents] /\ \A p \in Ops : inputs[p] \subseteq inputs'[p]
    BY <1>0, <1>8, <2>2
  <2>4. TypeOK'
    <3>1. R!TypeOK'
      BY <1>1 DEF LedgerInv, TypeOK, R!TypeOK
    <3>2. QED BY <1>1, <1>3, <2>1, <2>3, <3>1, TypeStep DEF LedgerInv, TypeOK
  <2>5. R!Stored = R!Stored' /\ R!Existing = R!Existing'
    BY <1>1 DEF R!Stored, R!Existing
  <2>6. ASSUME NEW e \in Cards, ~Stale(e, doc.text) PROVE ~Stale(e, doc.text)'
    <3>1. cards[e].validity = "active" => origin[e] \in Ops
      BY DEF LedgerInv, Origins, R!Stored
    <3>2. ~Stale(e, doc.text)'
      BY <1>1, <2>3, <2>6, <3>1 DEF Stale, HasText, R!Active
    <3>3. QED BY <3>2
  <2>7. Succession' /\ Origins' /\ OneActivePerFingerprint'
    BY <1>1 DEF LedgerInv, Succession, Origins, OneActivePerFingerprint, R!OneActivePerFingerprint, R!Stored, R!Active
  <2>8. QED BY <1>1, <1>3, <1>5, <1>6, <2>1, <2>4, <2>5, <2>6, <2>7, CommitStep
<1>9. QED BY <1>7, <1>8 DEF AddInputs

\* A link is added to a claim record.
LEMMA LinkType ==
    ASSUME NEW r \in R!ClaimRecords, NEW x \in R!Links
    PROVE  /\ [r EXCEPT !.links = @ \cup {x}, !.rev = @ + 1] \in R!ClaimRecords
           /\ [r EXCEPT !.links = @ \cup {x}, !.rev = @ + 1].exists = r.exists
<1>1. r.links \cup {x} \in SUBSET R!Links /\ r.rev + 1 \in Nat
  BY DEF R!ClaimRecords
<1>2. ASSUME NEW y \in SUBSET R!Links, NEW n \in Nat
      PROVE  [r EXCEPT !.links = y, !.rev = n] \in R!ClaimRecords
  BY DEF R!ClaimRecords
<1>3. [r EXCEPT !.links = r.links \cup {x}, !.rev = r.rev + 1] \in R!ClaimRecords
  BY <1>1, <1>2
<1>4. QED BY <1>3 DEF R!ClaimRecords

\* linkEvidenceToClaim adds a link or finds that there is one.
LEMMA ClaimLinked ==
    ASSUME LedgerInv, NEW o \in Ops, LinkClaim(o)
    PROVE  LedgerInv' /\ (R!Next \/ UNCHANGED R!vars)
<1> DEFINE l == call[o].draft.link
           new == [card |-> call[o].card, relation |-> l.relation]
           record == [claims[l.claim] EXCEPT !.links = @ \cup {new}, !.rev = @ + 1]
<1>0. call[o] \in CallRecords /\ CallInv(o) /\ claims \in [Claims -> R!ClaimRecords]
  BY DEF LedgerInv, TypeOK, R!TypeOK
<1>1. /\ Returns(o, "link", "cards") /\ call[o].pc = "link"
      /\ UNCHANGED <<doc, cards, origin, inputs, swept>>
  BY DEF LinkClaim, Returns, Becomes
<1>2. call[o].card \in R!Stored /\ call[o].card \in Cards /\ call[o].draft \in R!CardDrafts
  BY <1>0, <1>1 DEF CallInv, WithDraft, R!Stored
<1>3. CASE UNCHANGED <<claims, fresh>>
  BY <1>1, <1>3, ReturnStep DEF R!vars
<1>4. CASE /\ l # None
           /\ \A k \in claims[l.claim].links : k.card # call[o].card
           /\ claims' = [claims EXCEPT ![l.claim].links = @ \cup {new}, ![l.claim].rev = @ + 1]
           /\ Committed
  <2>1. l.claim \in R!Existing /\ l.claim \in Claims /\ l.relation \in Relations
    BY <1>0, <1>1, <1>2, <1>4 DEF CallInv, R!CardDrafts, R!LinkRequests, R!Existing
  <2>2. new \in R!Links /\ claims[l.claim] \in R!ClaimRecords
    BY <1>0, <1>2, <2>1 DEF R!Links
  <2>3. claims' = [claims EXCEPT ![l.claim] = record]
    BY <1>0, <1>4, <2>1 DEF R!ClaimRecords
  <2>4. record \in R!ClaimRecords /\ record.exists = claims[l.claim].exists
    BY <2>2, LinkType
  <2>5. /\ At("cards") \in CallRecords
        /\ call' = [call EXCEPT ![o] = At("cards")]
        /\ CallInv(o)'
    BY <1>1, ReturnedKnows
  <2>6. R!AddLink(l.claim, call[o].card, l.relation)
    BY <1>1, <1>2, <1>4, <2>1 DEF R!AddLink
  <2>7. R!Next
    BY <1>2, <2>1, <2>6 DEF R!Next
  <2> HIDE DEF record, new
  <2>8. R!TypeOK'
    BY <1>0, <1>1, <2>1, <2>3, <2>4 DEF LedgerInv, TypeOK, R!TypeOK
  <2>9. fresh' = {}
    BY <1>4 DEF Committed
  <2>10. TypeOK'
    BY <1>1, <2>5, <2>8, <2>9, TypeStep DEF LedgerInv, TypeOK
  <2>11. R!Stored = R!Stored' /\ R!Existing \subseteq R!Existing'
    BY <1>0, <1>1, <2>1, <2>3, <2>4 DEF R!Stored, R!Existing
  <2>12. \A e \in Cards : ~Stale(e, doc.text) => ~Stale(e, doc.text)'
    BY <1>1 DEF Stale, HasText, R!Active
  <2>13. Succession' /\ Origins' /\ OneActivePerFingerprint'
    BY <1>1 DEF LedgerInv, Succession, Origins, OneActivePerFingerprint, R!OneActivePerFingerprint, R!Stored, R!Active
  <2>14. LedgerInv'
    BY <1>1, <2>5, <2>9, <2>10, <2>11, <2>12, <2>13, CommitStep
  <2>15. QED BY <2>7, <2>14
<1>5. QED BY <1>3, <1>4 DEF LinkClaim

\* A document update makes every sweep so far a matter of the past.
LEMMA DocumentUpdated ==
    ASSUME LedgerInv, NEW o \in Ops, NEW text \in Texts \cup {None}, UpdateDocument(o, text)
    PROVE  LedgerInv' /\ R!Next
<1>0. call \in [Ops -> CallRecords] /\ call[o] \in CallRecords /\ doc \in R!Documents /\ "readDocument" \in PCs
  BY DEF LedgerInv, TypeOK, R!TypeOK, PCs
<1>1. /\ call' = [call EXCEPT ![o] = [call[o] EXCEPT !.pc = "readDocument"]]
      /\ doc' = [rev |-> doc.rev + 1, text |-> text] /\ fresh' = {} /\ doc.rev < MaxRevision
      /\ UNCHANGED <<cards, claims, origin, inputs, swept>>
  BY DEF UpdateDocument, Moves, Becomes, Committed
<1>2. [call[o] EXCEPT !.pc = "readDocument"] \in CallRecords
  BY <1>0, CallUpdates
<1>3. call'[o].pc = "readDocument"
  BY <1>0, <1>1 DEF CallRecords
<1>4. CallInv(o)'
  BY <1>3 DEF CallInv, WithDraft
<1>5. doc' \in R!Documents /\ doc'.rev > doc.rev
  BY <1>0, <1>1 DEF R!Documents
<1>6. R!TypeOK'
  BY <1>1, <1>5 DEF LedgerInv, TypeOK, R!TypeOK
<1>7. TypeOK'
  BY <1>1, <1>2, <1>6, TypeStep DEF LedgerInv, TypeOK
<1>8. R!Stored = R!Stored' /\ R!Existing = R!Existing'
  BY <1>1 DEF R!Stored, R!Existing
<1>9. Succession' /\ Origins' /\ OneActivePerFingerprint'
  BY <1>1 DEF LedgerInv, Succession, Origins, OneActivePerFingerprint, R!OneActivePerFingerprint, R!Stored, R!Active
<1>10. LedgerInv'
  BY <1>1, <1>2, <1>4, <1>5, <1>7, <1>8, <1>9, CommitStep
<1>11. R!UpdateDocument(text)
  BY <1>1 DEF R!UpdateDocument
<1>12. QED BY <1>10, <1>11 DEF R!Next

----------------------------------------------------------------------------
(***************************************************************************)
(* Commits that change cards.                                              *)
(***************************************************************************)
\* A card record gets another validity.
LEMMA CardType ==
    ASSUME NEW r \in R!CardRecords, NEW v \in {"none", "active", "superseded", "invalidated"}
    PROVE  /\ [r EXCEPT !.validity = v, !.rev = @ + 1] \in R!CardRecords
           /\ [r EXCEPT !.validity = v, !.rev = @ + 1].validity = v
           /\ [r EXCEPT !.validity = v, !.rev = @ + 1].draft = r.draft
<1>1. r.rev + 1 \in Nat
  BY DEF R!CardRecords
<1>2. ASSUME NEW n \in Nat PROVE [r EXCEPT !.validity = v, !.rev = n] \in R!CardRecords
  BY DEF R!CardRecords
<1>3. [r EXCEPT !.validity = v, !.rev = r.rev + 1] \in R!CardRecords
  BY <1>1, <1>2
<1>4. QED BY <1>3 DEF R!CardRecords

\* An active card is invalidated, by the tool or by a sweep.
LEMMA CardInvalidated ==
    ASSUME LedgerInv, NEW o \in Ops, NEW record \in CallRecords, NEW e \in R!Active,
           call' = [call EXCEPT ![o] = record],
           cards' = [cards EXCEPT ![e].validity = "invalidated", ![e].rev = @ + 1],
           UNCHANGED <<doc, claims, origin, inputs, swept>>,
           fresh' = {},
           (\A f \in Cards : ~Stale(f, doc.text) => ~Stale(f, doc.text)') /\ ~Stale(e, doc.text)' => CallInv(o)'
    PROVE  LedgerInv' /\ R!Next
<1> DEFINE card == [cards[e] EXCEPT !.validity = "invalidated", !.rev = @ + 1]
<1>0. e \in Cards /\ cards \in [Cards -> R!CardRecords] /\ cards[e].validity = "active"
  BY DEF LedgerInv, TypeOK, R!TypeOK, R!Active
<1>1. cards' = [cards EXCEPT ![e] = card]
  BY <1>0
<1>2. card \in R!CardRecords /\ card.validity = "invalidated" /\ card.draft = cards[e].draft
  BY <1>0, CardType
<1>3. R!InvalidateCard(e)
  BY DEF R!InvalidateCard
<1> HIDE DEF card
<1>4. /\ cards' \in [Cards -> R!CardRecords]
      /\ cards'[e].validity = "invalidated" /\ \A f \in Cards : cards'[f].draft = cards[f].draft
      /\ \A f \in Cards \ {e} : cards'[f] = cards[f]
  BY <1>0, <1>1, <1>2
<1>5. R!Stored' = R!Stored /\ R!Active' \subseteq R!Active /\ R!Existing' = R!Existing
  BY <1>0, <1>4 DEF R!Stored, R!Active, R!Existing
<1>6. ASSUME NEW f \in Cards, ~Stale(f, doc.text) PROVE ~Stale(f, doc.text)'
  BY <1>4, <1>5, <1>6 DEF Stale, HasText
<1>7. ~Stale(e, doc.text)'
  BY <1>4 DEF Stale, R!Active
<1>8. CallInv(o)'
  BY <1>6, <1>7
<1>9. R!TypeOK'
  BY <1>4 DEF LedgerInv, TypeOK, R!TypeOK
<1>10. TypeOK'
  BY <1>9, TypeStep DEF LedgerInv, TypeOK
<1>11. Succession'
  <2>1. \A f \in R!Stored' : f \in R!Stored /\ cards'[f].draft.supersedes = cards[f].draft.supersedes
    BY <1>4, <1>5 DEF R!Stored
  <2>2. \A f \in Cards : cards'[f].validity = "superseded" <=> cards[f].validity = "superseded"
    BY <1>0, <1>4
  <2>3. ASSUME NEW f \in R!Stored', cards'[f].draft.supersedes # None
        PROVE  cards'[cards'[f].draft.supersedes].validity = "superseded"
    <3>1. cards[cards[f].draft.supersedes].validity = "superseded" /\ cards[f].draft \in R!CardDrafts
      BY <2>1, <2>3 DEF LedgerInv, Succession, Origins
    <3>2. cards[f].draft.supersedes \in Cards
      BY <2>1, <2>3, <3>1 DEF R!CardDrafts
    <3>3. QED BY <2>1, <2>2, <3>1, <3>2
  <2>4. \A f, g \in R!Stored' :
           cards'[f].draft.supersedes # None /\ cards'[f].draft.supersedes = cards'[g].draft.supersedes => f = g
    BY <2>1 DEF LedgerInv, Succession
  <2>5. ASSUME NEW f \in Cards, cards'[f].validity = "superseded"
        PROVE  \E g \in R!Stored' : cards'[g].draft.supersedes = f
    <3>1. PICK g \in R!Stored : cards[g].draft.supersedes = f
      BY <2>2, <2>5 DEF LedgerInv, Succession
    <3>2. QED BY <1>5, <2>1, <3>1
  <2>6. QED BY <2>3, <2>4, <2>5 DEF Succession
<1>12. Origins' /\ OneActivePerFingerprint'
  BY <1>4, <1>5 DEF LedgerInv, Origins, OneActivePerFingerprint, R!OneActivePerFingerprint, R!Stored, R!Active
<1>13. LedgerInv'
  BY <1>5, <1>6, <1>8, <1>10, <1>11, <1>12, CommitStep
<1>14. QED BY <1>0, <1>3, <1>13 DEF R!Next

\* invalidateEvidenceCard commits.
LEMMA Invalidated ==
    ASSUME LedgerInv, NEW o \in Ops, Invalidate(o)
    PROVE  LedgerInv' /\ R!Next
<1>1. /\ At("done") \in CallRecords
      /\ call' = [call EXCEPT ![o] = At("done")]
      /\ CallInv(o)'
  BY ReturnedKnows DEF Invalidate
<1>2. QED BY <1>1, CardInvalidated DEF Invalidate, Committed

\* One card of the sweep: it was not stale, or is not any more.
LEMMA CardSwept ==
    ASSUME LedgerInv, NEW o \in Ops, NEW e \in Cards, SweepCard(o, e)
    PROVE  LedgerInv' /\ (R!Next \/ UNCHANGED R!vars)
<1> DEFINE record == [call[o] EXCEPT !.todo = @ \ {e}]
<1>0. call \in [Ops -> CallRecords] /\ call[o] \in CallRecords /\ CallInv(o) /\ call[o].todo \ {e} \in SUBSET Cards
  BY DEF LedgerInv, TypeOK, CallRecords
<1>1. /\ call' = [call EXCEPT ![o] = record] /\ call[o].pc = "sweep"
      /\ UNCHANGED <<doc, claims, origin, inputs, swept>>
  BY DEF SweepCard, Becomes
<1>2. record \in CallRecords
  BY <1>0, CallUpdates
<1>3. /\ call'[o].pc = "sweep" /\ call'[o].ref = call[o].ref
      /\ call'[o].todo = call[o].todo \ {e}
  BY <1>0, <1>1 DEF CallRecords
<1> HIDE DEF record
<1>4. /\ call[o].ref.rev <= doc.rev
      /\ call[o].ref.rev = doc.rev =>
           call[o].ref.text = doc.text /\ \A f \in Cards \ call[o].todo : ~Stale(f, doc.text)
  BY <1>0, <1>1 DEF CallInv
<1>5. ASSUME \A f \in Cards : ~Stale(f, doc.text) => ~Stale(f, doc.text)',
             call[o].ref.rev = doc.rev => ~Stale(e, doc.text)'
      PROVE  CallInv(o)'
  BY <1>1, <1>3, <1>4, <1>5 DEF CallInv, WithDraft
<1>6. CASE Stale(e, call[o].ref.text)
  <2>1. /\ e \in R!Active /\ fresh' = {}
        /\ cards' = [cards EXCEPT ![e].validity = "invalidated", ![e].rev = @ + 1]
    BY <1>6 DEF SweepCard, Stale, Committed
  <2>2. QED BY <1>1, <1>2, <1>5, <2>1, CardInvalidated
<1>7. CASE ~Stale(e, call[o].ref.text)
  <2>1. UNCHANGED <<cards, fresh>>
    BY <1>7 DEF SweepCard
  <2>2. \A f \in Cards : Stale(f, doc.text)' <=> Stale(f, doc.text)
    BY <1>1, <2>1 DEF Stale, HasText, R!Active
  <2>3. CallInv(o)'
    BY <1>4, <1>5, <1>7, <2>2
  <2>4. QED BY <1>1, <1>2, <2>1, <2>3, CallStep DEF R!vars
<1>8. QED BY <1>6, <1>7

\* The sweep ends: if the document is still the one it was for, no card is stale.
LEMMA SweptDone ==
    ASSUME LedgerInv, NEW o \in Ops, SweepDone(o)
    PROVE  LedgerInv' /\ UNCHANGED R!vars
<1>0. /\ UNCHANGED <<doc, cards, claims, origin, inputs, fresh>> /\ CallInv(o)
      /\ call[o].pc = "sweep" /\ call[o].todo = {} /\ call[o] \in CallRecords
      /\ doc.rev \in Nat /\ swept \in Nat
  BY DEF SweepDone, Returns, Becomes, LedgerInv, TypeOK, R!TypeOK, R!Documents
<1>1. /\ At("done") \in CallRecords
      /\ call' = [call EXCEPT ![o] = At("done")]
      /\ CallInv(o)'
  BY ReturnedKnows DEF SweepDone
<1>2. /\ call[o].ref.rev \in Nat /\ call[o].ref.rev <= doc.rev
      /\ call[o].ref.rev = doc.rev => \A f \in Cards : ~Stale(f, doc.text)
  BY <1>0 DEF CallInv, CallRecords, R!Documents
<1>3. swept' \in Nat /\ swept' \in {swept, call[o].ref.rev}
  BY <1>0, <1>2 DEF SweepDone
<1>4. TypeOK'
  <2>1. R!TypeOK'
    BY <1>0 DEF LedgerInv, TypeOK, R!TypeOK
  <2>2. QED BY <1>0, <1>1, <1>3, <2>1, TypeStep DEF LedgerInv, TypeOK
<1>5. \A f \in Cards : Stale(f, doc.text)' <=> Stale(f, doc.text)
  BY <1>0 DEF Stale, HasText, R!Active
<1>6. R!Stored = R!Stored' /\ R!Existing = R!Existing'
  BY <1>0 DEF R!Stored, R!Existing
<1>7. ASSUME NEW p \in Ops PROVE CallInv(p)'
  <2>1. CASE p = o
    BY <1>1, <2>1
  <2>2. CASE p # o
    <3>1. call'[p] = call[p]
      BY <1>1, <2>2 DEF LedgerInv, TypeOK
    <3>2. QED BY <1>0, <1>4, <1>5, <1>6, <3>1, OthersKnow DEF LedgerInv
  <2>3. QED BY <2>1, <2>2
<1>8. SweptInv'
  BY <1>0, <1>2, <1>3, <1>5 DEF LedgerInv, SweptInv, SweptIsCurrent
<1>9. Succession' /\ Origins' /\ OneActivePerFingerprint'
  BY <1>0 DEF LedgerInv, Succession, Origins, OneActivePerFingerprint, R!OneActivePerFingerprint, R!Stored, R!Active
<1>10. QED BY <1>0, <1>4, <1>7, <1>8, <1>9 DEF LedgerInv, R!vars

\* A card is created; the one it supersedes was active.
LEMMA CardCommitted ==
    ASSUME LedgerInv, NEW o \in Ops, NEW e \in Cards, CommitCard(o, e)
    PROVE  LedgerInv' /\ R!Next
<1> DEFINE record == [call[o] EXCEPT !.pc = "link", !.card = e]
<1>0. /\ call \in [Ops -> CallRecords] /\ call[o] \in CallRecords /\ CallInv(o) /\ "link" \in PCs
      /\ cards \in [Cards -> R!CardRecords]
  BY DEF LedgerInv, TypeOK, R!TypeOK, PCs
<1>1. /\ call' = [call EXCEPT ![o] = record] /\ call[o].pc = "commitCard" /\ o \in fresh
      /\ e \notin R!Stored /\ R!Store(e, call[o].draft) /\ origin' = [origin EXCEPT ![e] = o] /\ fresh' = {}
      /\ UNCHANGED <<doc, claims, inputs, swept>>
  BY DEF CommitCard, Becomes, Committed
<1>2. PICK d \in R!CardDrafts : d = call[o].draft
  BY <1>0, <1>1 DEF CallInv, WithDraft
<1>3. ValidDraft(o, d) /\ Unseen(d)
  BY <1>0, <1>1, <1>2 DEF CallInv
<1>4. R!CreateCard(e, d)
  <2>1. R!Agrees(d)
    BY <1>3 DEF R!Agrees, ValidDraft, Unseen
  <2>2. QED BY <1>1, <1>2, <2>1 DEF R!CreateCard
<1>5. R!Next
  BY <1>4 DEF R!Next
<1>6. PICK old : old = d.supersedes
  OBVIOUS
<1>7. old \in Cards \cup {None} /\ (old # None => old \in R!Active /\ old # e)
  BY <1>1, <1>3, <1>6 DEF R!CardDrafts, ValidDraft, R!Active, R!Stored
<1> DEFINE new == [validity |-> "active", rev |-> 0, draft |-> d]
           replaced == [cards[old] EXCEPT !.validity = "superseded", !.rev = @ + 1]
<1>8. new \in R!CardRecords /\ new.validity = "active" /\ new.draft = d
  BY DEF R!CardRecords
<1>9. old # None =>
        replaced \in R!CardRecords /\ replaced.validity = "superseded" /\ replaced.draft = cards[old].draft
  BY <1>0, <1>7, CardType
<1>10. cards' = IF old = None THEN [cards EXCEPT ![e] = new] ELSE [[cards EXCEPT ![e] = new] EXCEPT ![old] = replaced]
  BY <1>0, <1>1, <1>2, <1>6, <1>7 DEF R!Store
<1> HIDE DEF new, replaced
<1>11. /\ cards' \in [Cards -> R!CardRecords]
       /\ cards'[e].validity = "active" /\ cards'[e].draft = d
       /\ old # None => cards'[old].validity = "superseded" /\ cards'[old].draft = cards[old].draft
       /\ \A f \in Cards \ {e, old} : cards'[f] = cards[f]
  <2>1. CASE old = None
    BY <1>0, <1>8, <1>10, <2>1, LedgerConstants
  <2>2. CASE old # None
    BY <1>0, <1>7, <1>8, <1>9, <1>10, <2>2 DEF R!Active
  <2>3. QED BY <2>1, <2>2
<1>12. /\ R!Stored' = R!Stored \cup {e}
       /\ R!Active' = (R!Active \ {old}) \cup {e}
       /\ R!Existing' = R!Existing
  BY <1>0, <1>1, <1>7, <1>11, LedgerConstants DEF R!Stored, R!Active, R!Existing
<1>13. \A f \in R!Stored : cards'[f].draft = cards[f].draft /\ origin'[f] = origin[f]
  <2> SUFFICES ASSUME NEW f \in R!Stored PROVE cards'[f].draft = cards[f].draft /\ origin'[f] = origin[f]
    OBVIOUS
  <2>1. f \in Cards /\ f # e
    BY <1>1 DEF R!Stored
  <2>2. origin'[f] = origin[f]
    BY <1>1, <2>1 DEF LedgerInv, TypeOK
  <2>3. cards'[f].draft = cards[f].draft
    <3>1. CASE f = old
      BY <1>11, <2>1, <3>1, LedgerConstants
    <3>2. CASE f # old
      BY <1>11, <2>1, <3>2
    <3>3. QED BY <3>1, <3>2
  <2>4. QED BY <2>2, <2>3
<1>14. origin'[e] = o /\ origin' \in [Cards -> Ops \cup {None}]
  BY <1>1 DEF LedgerInv, TypeOK
<1>15. record \in CallRecords
  <2>1. [call[o] EXCEPT !.pc = "link"] \in CallRecords
    BY <1>0, CallUpdates
  <2>2. QED BY <2>1, CallUpdates
<1>16. call'[o].pc = "link" /\ call'[o].card = e /\ call'[o].draft = d
  BY <1>0, <1>1, <1>2 DEF CallRecords
<1> HIDE DEF record
<1>17. CallInv(o)'
  BY <1>3, <1>12, <1>16 DEF CallInv, ValidDraft
<1>18. TypeOK'
  <2>1. R!TypeOK'
    BY <1>1, <1>11 DEF LedgerInv, TypeOK, R!TypeOK
  <2>2. QED BY <1>1, <1>14, <1>15, <2>1, TypeStep DEF LedgerInv, TypeOK
<1>19. ASSUME NEW f \in Cards, ~Stale(f, doc.text) PROVE ~Stale(f, doc.text)'
  <2>1. CASE f = e
    BY <1>1, <1>3, <1>11, <1>14, <2>1 DEF Stale, HasText, ValidDraft
  <2>2. CASE f # e /\ f \in R!Active
    <3>1. f \in R!Stored
      BY <2>2 DEF R!Active, R!Stored
    <3>2. QED BY <1>1, <1>12, <1>13, <1>19, <2>2, <3>1 DEF Stale, HasText
  <2>3. CASE f # e /\ f \notin R!Active
    BY <1>12, <2>3 DEF Stale
  <2>4. QED BY <2>1, <2>2, <2>3
<1>20. Succession'
  <2>1. \A f \in R!Stored : cards[f].draft.supersedes # old \/ old = None
    BY <1>7 DEF LedgerInv, Succession, R!Active
  <2>2. ASSUME NEW f \in R!Stored', cards'[f].draft.supersedes # None
        PROVE  cards'[cards'[f].draft.supersedes].validity = "superseded"
    <3>1. CASE f = e
      BY <1>6, <1>11, <2>2, <3>1
    <3>2. CASE f # e
      <4>1. f \in R!Stored /\ cards'[f].draft = cards[f].draft
        BY <1>12, <1>13, <3>2
      <4>2. cards[cards[f].draft.supersedes].validity = "superseded" /\ cards[f].draft \in R!CardDrafts
        BY <2>2, <4>1 DEF LedgerInv, Succession, Origins
      <4>3. cards[f].draft.supersedes \in R!Stored
        BY <2>2, <4>1, <4>2 DEF R!CardDrafts, R!Stored
      <4>4. cards[f].draft.supersedes \notin {e, old}
        BY <1>1, <1>7, <2>1, <2>2, <4>1, <4>3
      <4>5. QED BY <1>11, <4>1, <4>2, <4>3, <4>4 DEF R!Stored
    <3>3. QED BY <3>1, <3>2
  <2>3. ASSUME NEW f \in R!Stored', NEW g \in R!Stored',
               cards'[f].draft.supersedes # None, cards'[f].draft.supersedes = cards'[g].draft.supersedes
        PROVE  f = g
    <3>1. \A h \in R!Stored' : h # e => h \in R!Stored /\ cards'[h].draft = cards[h].draft
      BY <1>12, <1>13
    <3>2. CASE f # e /\ g # e
      BY <2>3, <3>1, <3>2 DEF LedgerInv, Succession
    <3>3. CASE f = e \/ g = e
      BY <1>6, <1>11, <2>1, <2>3, <3>1, <3>3
    <3>4. QED BY <3>2, <3>3
  <2>4. ASSUME NEW f \in Cards, cards'[f].validity = "superseded"
        PROVE  \E g \in R!Stored' : cards'[g].draft.supersedes = f
    <3>1. CASE f = old
      BY <1>6, <1>11, <1>12, <3>1
    <3>2. CASE f # old
      <4>1. cards[f].validity = "superseded"
        BY <1>11, <2>4, <3>2
      <4>2. PICK g \in R!Stored : cards[g].draft.supersedes = f
        BY <4>1 DEF LedgerInv, Succession
      <4>3. QED BY <1>12, <1>13, <4>2
    <3>3. QED BY <3>1, <3>2
  <2>5. QED BY <2>2, <2>3, <2>4 DEF Succession
<1>21. Origins'
  BY <1>11, <1>12, <1>13, <1>14 DEF LedgerInv, Origins
<1>22. OneActivePerFingerprint'
  <2>1. ASSUME NEW f \in R!Active', NEW g \in R!Active', cards'[f].draft = cards'[g].draft
        PROVE  f = g
    <3>1. \A h \in R!Active' : h # e => h \in R!Active /\ cards'[h].draft = cards[h].draft
      BY <1>12, <1>13 DEF R!Active, R!Stored
    <3>2. QED BY <1>3, <1>11, <2>1, <3>1 DEF LedgerInv, OneActivePerFingerprint, R!OneActivePerFingerprint, Unseen
  <2>2. QED BY <2>1 DEF OneActivePerFingerprint, R!OneActivePerFingerprint
<1>23. LedgerInv'
  BY <1>1, <1>12, <1>15, <1>17, <1>18, <1>19, <1>20, <1>21, <1>22, CommitStep
<1>24. QED BY <1>5, <1>23

----------------------------------------------------------------------------
(***************************************************************************)
(* The theorems.                                                           *)
(***************************************************************************)
\* The invariant holds initially.
LEMMA InitInv == Init => LedgerInv
<1> SUFFICES ASSUME Init PROVE LedgerInv
  OBVIOUS
<1>1. At("start") \in CallRecords /\ At("start").pc = "start"
  BY AtType DEF PCs, At
<1>2. R!TypeOK
  BY DEF Init, R!Init, R!TypeOK, R!Documents, R!CardRecords, R!ClaimRecords
<1>3. TypeOK
  BY <1>1, <1>2 DEF Init, TypeOK
<1>4. R!Stored = {} /\ R!Active = {}
  BY DEF Init, R!Init, R!Stored, R!Active
<1>5. \A o \in Ops : CallInv(o)
  BY <1>1 DEF Init, CallInv, WithDraft
<1>6. Succession
  <2>1. \A e \in Cards : cards[e].validity # "superseded"
    BY DEF Init, R!Init
  <2>2. QED BY <1>4, <2>1 DEF Succession
<1>7. Origins /\ OneActivePerFingerprint
  BY <1>4 DEF Origins, OneActivePerFingerprint, R!OneActivePerFingerprint
<1>8. SweptInv
  <2>1. swept = 0 /\ doc.rev = 0
    BY DEF Init, R!Init
  <2>2. QED BY <1>4, <2>1 DEF SweptInv, SweptIsCurrent, Stale
<1>9. QED BY <1>3, <1>5, <1>6, <1>7, <1>8 DEF LedgerInv

\* Every step preserves the invariant and is one of EvidenceRecords.
LEMMA NextStep == LedgerInv /\ [Next]_vars => LedgerInv' /\ [R!Next]_(R!vars)
<1> SUFFICES ASSUME LedgerInv, [Next]_vars PROVE LedgerInv' /\ [R!Next]_(R!vars)
  OBVIOUS
<1>1. CASE UNCHANGED vars
  <2>1. UNCHANGED R!vars
    BY <1>1 DEF vars, R!vars
  <2>2. LedgerInv'
    <3>1. UNCHANGED <<doc, cards, claims, origin, inputs, fresh, call, swept>>
      BY <1>1 DEF vars
    <3>2. TypeOK'
      BY <3>1 DEF LedgerInv, TypeOK, R!TypeOK
    <3>3. \A o \in Ops : CallInv(o)'
      BY <3>1 DEF LedgerInv, CallInv, LinkedOnce, AllActive, Unseen, ValidDraft, Stale, HasText, R!Active, R!Stored, R!Existing
    <3>4. Succession' /\ Origins' /\ SweptInv' /\ OneActivePerFingerprint'
      BY <3>1 DEF LedgerInv, Succession, Origins, SweptInv, SweptIsCurrent, OneActivePerFingerprint,
                  R!OneActivePerFingerprint, Stale, HasText, R!Active, R!Stored
    <3>5. QED BY <3>2, <3>3, <3>4 DEF LedgerInv
  <2>3. QED BY <2>1, <2>2
<1>2. ASSUME NEW o \in Ops, CommitEvidence(o) PROVE LedgerInv' /\ [R!Next]_(R!vars)
  <2>1. CASE \/ StartEvidence(o) \/ CheckClaim(o) \/ ClaimConflict(o) \/ AddInputsConflict(o)
             \/ OpenCard(o) \/ CheckCard(o) \/ CardConflict(o) \/ LinkConflict(o) \/ EndEvidence(o)
             \/ \E links \in SUBSET R!Links : OpenClaim(o, links)
             \/ \E d \in R!CardDrafts : ReadForCard(o, d)
    <3>1. LedgerInv'
      BY <2>1, EvidenceReads
    <3>2. UNCHANGED R!vars
      BY <2>1 DEF R!vars, StartEvidence, CheckClaim, ClaimConflict, AddInputsConflict, OpenCard, CheckCard,
                  CardConflict, LinkConflict, EndEvidence, OpenClaim, ReadForCard
    <3>3. QED BY <3>1, <3>2
  <2>2. CASE AddInputs(o)
    BY <2>2, InputsAdded
  <2>3. CASE LinkClaim(o)
    BY <2>3, ClaimLinked
  <2>4. CASE \E c \in Claims : CommitClaim(o, c)
    BY <2>4, ClaimCommitted
  <2>5. CASE \E e \in Cards : CommitCard(o, e)
    BY <2>5, CardCommitted
  <2>6. QED BY <1>2, <2>1, <2>2, <2>3, <2>4, <2>5 DEF CommitEvidence
<1>3. ASSUME NEW o \in Ops, Document(o) \/ Invalidation(o) PROVE LedgerInv' /\ [R!Next]_(R!vars)
  <2>1. CASE \/ StartDocument(o) \/ UpdateConflict(o) \/ ReadDocument(o) \/ SweepConflict(o)
             \/ InvalidateRefused(o) \/ \E e \in Cards : StartInvalidate(o, e)
    <3>1. LedgerInv'
      BY <2>1, OtherReads
    <3>2. UNCHANGED R!vars
      BY <2>1 DEF R!vars, StartDocument, UpdateConflict, ReadDocument, SweepConflict, InvalidateRefused, StartInvalidate
    <3>3. QED BY <3>1, <3>2
  <2>2. CASE SweepDone(o)
    BY <2>2, SweptDone
  <2>3. CASE \E text \in Texts \cup {None} : UpdateDocument(o, text)
    BY <2>3, DocumentUpdated
  <2>4. CASE \E e \in Cards : SweepCard(o, e)
    BY <2>4, CardSwept
  <2>5. CASE Invalidate(o)
    BY <2>5, Invalidated
  <2>6. QED BY <1>3, <2>1, <2>2, <2>3, <2>4, <2>5 DEF Document, Invalidation
<1>4. QED BY <1>1, <1>2, <1>3 DEF Next

\* The invariant the theorems below rest on.
THEOREM LedgerInvariant == Spec => []LedgerInv
  BY InitInv, NextStep, PTL DEF Spec

\* Records, operations and calls have their types throughout.
THEOREM LedgerTypes == Spec => []TypeOK
<1>1. LedgerInv => TypeOK
  BY DEF LedgerInv
<1>2. QED BY <1>1, LedgerInvariant, PTL

\* The tools implement the records: whatever a call has read before, every commit
\* that succeeds is one that EvidenceRecords allows in the project as it then is.
THEOREM ToolsImplementRecords == Spec => RecordsHold
<1>1. Init => R!Init
  BY DEF Init
<1>2. QED BY <1>1, LedgerInvariant, NextStep, PTL DEF Spec, RecordsHold, R!Spec

\* Two calls that commit the same card at once store it once.
THEOREM NoDuplicateEvidence == Spec => []OneActivePerFingerprint
<1>1. LedgerInv => OneActivePerFingerprint
  BY DEF LedgerInv
<1>2. QED BY <1>1, LedgerInvariant, PTL

\* A superseded card has one successor, no other card has any.
THEOREM OneSuccessor == Spec => []SupersededByOne
<1>1. LedgerInv => SupersededByOne
  <2> SUFFICES ASSUME LedgerInv, NEW e \in Cards
               PROVE  IF cards[e].validity = "superseded" THEN \E f \in Cards : R!Successors(e) = {f}
                      ELSE R!Successors(e) = {}
    BY DEF SupersededByOne, R!SupersededByOne
  <2>1. e # None
    BY LedgerConstants
  <2>2. CASE cards[e].validity = "superseded"
    <3>1. PICK f \in R!Stored : cards[f].draft.supersedes = e
      BY <2>2 DEF LedgerInv, Succession
    <3>2. R!Successors(e) = {f} /\ f \in Cards
      BY <2>1, <3>1 DEF LedgerInv, Succession, R!Successors, R!Stored
    <3>3. QED BY <2>2, <3>2
  <2>3. CASE cards[e].validity # "superseded"
    BY <2>1, <2>3 DEF LedgerInv, Succession, R!Successors
  <2>4. QED BY <2>2, <2>3
<1>2. QED BY <1>1, LedgerInvariant, PTL

\* After a sweep for the document as it is, no active located card comes from an
\* operation without the current text.
THEOREM NoStaleEvidenceAfterSweep == Spec => []SweptIsCurrent
<1>1. LedgerInv => SweptIsCurrent
  BY DEF LedgerInv, SweptInv
<1>2. QED BY <1>1, LedgerInvariant, PTL

=============================================================================
