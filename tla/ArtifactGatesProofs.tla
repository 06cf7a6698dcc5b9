-------------------------- MODULE ArtifactGatesProofs --------------------------
(***************************************************************************)
(* Proofs about ArtifactGates.                                             *)
(*                                                                         *)
(* A call sees each claim as it read it, or as it is if it has not read it *)
(* yet, and likewise which cards are active.  A claim that did not stand   *)
(* when the call read it (when the validation began) never passes in this  *)
(* view, unless the view of its cards was outdated then: cards only cease  *)
(* to be active, a card is there before a claim links to it, and a claim   *)
(* that gains a link is not at its pinned revision any more.               *)
(***************************************************************************)
EXTENDS ArtifactGates, TLAPS

----------------------------------------------------------------------------
Stands(records, links, active) ==
    /\ \E l \in links : /\ l.relation \in {"supports", "qualifies"}
                        /\ l.card \in active
                        /\ records[l.card].draft.text # None
    /\ (\E l \in links : l.relation = "refutes") => (\E l \in links : l.relation = "supports")

ViewLinks(o, c) == IF call[o].seen.revs[c] = None THEN claims[c].links ELSE call[o].seen.links[c]
ViewActive(o) == {e \in R!Active : call[o].seen.revs[e] = None} \cup call[o].seen.active

\* The call cannot pass with this claim.
Fails(o, c) ==
    \/ ~Stands(cards, ViewLinks(o, c), ViewActive(o))
    \/ call[o].seen.revs[c] = None /\ claims[c].rev > call[o].pins[c]

\* Claims that stood, or were read when what the call had seen of their cards was outdated.
Excused(o) == IF o \in Generations THEN stood[o] \cup outdated[o] ELSE stood[o]

Verdicts(o) ==
    \A c \in Claims : c \notin Excused(o) /\ (call[o].seen.revs[c] # None \/ call[o].pins[c] # None) => Fails(o, c)

\* Revisions of claims that were read.
Past(revs) == \A c \in Claims : revs[c] # None => c \in R!Existing /\ revs[c] <= claims[c].rev

CardsStored(links) == \A l \in links : l.card \in R!Stored

\* What has been read, and what has still to be read.
Reading(o) ==
    /\ Past(call[o].seen.revs)
    /\ Past(call[o].pins)
    /\ \A c \in Claims : call[o].seen.revs[c] # None => CardsStored(call[o].seen.links[c])
    /\ \A e \in call[o].seen.active : call[o].seen.revs[e] # None
    /\ \A c \in Claims : c \in call[o].todo => c \in R!Existing
    /\ \A x \in Records : x \in call[o].todo => call[o].seen.revs[x] = None
    /\ \A c \in Claims : c \in call[o].todo => c \in call[o].request
    /\ \A x \in Records : x \in call[o].request /\ call[o].seen.revs[x] = None => x \in call[o].todo
    /\ (\E x \in Records : x \in call[o].todo /\ x \in call[o].request)
          => \A x \in Records : call[o].seen.revs[x] # None => x \in call[o].request
    /\ \A c \in Claims : call[o].pins[c] # None /\ call[o].seen.revs[c] = None => c \in call[o].todo
    /\ call[o].pc = "loadPinned" => \A c \in Claims : c \in call[o].todo => call[o].pins[c] # None

GenerationSteps == {"start", "load", "evaluate", "ask", "create", "done"}
ValidationSteps == {"start", "loadPinned", "validate", "valid", "done"}

CallInv(o) ==
    /\ o \in Generations => call[o].pc \in GenerationSteps /\ call[o].pins = NoRevisions
    /\ o \in Validations => call[o].pc \in ValidationSteps
    /\ call[o].pc \notin {"valid", "done"} => Reading(o) /\ Verdicts(o)
    /\ call[o].pc \in {"evaluate", "ask", "create", "validate"} => call[o].todo = {}
    /\ o \in Generations /\ call[o].pc = "start" => outdated[o] = {}
    /\ o \in Generations /\ call[o].pc # "done" /\ outdated[o] # {} => \E e \in Cards : e \in call[o].request
    /\ call[o].listed \subseteq R!Existing
    /\ call[o].pc = "validate" => call[o].listed \subseteq call[o].seen.all
    /\ call[o].pc \in {"loadPinned", "validate"} =>
         /\ call[o].artifact \in Generations
         /\ artifacts[call[o].artifact].status # "none"
         /\ artifacts[call[o].artifact].revs = call[o].pins

ArtifactInv(o) ==
    /\ artifacts[o].status # "none" => call[o].pc = "done"
    /\ Past(artifacts[o].revs)

GateInv ==
    /\ TypeOK
    /\ \A c \in Claims : CardsStored(claims[c].links)
    /\ \A o \in Ops : CallInv(o)
    /\ \A o \in Generations : ArtifactInv(o)
    /\ CreatedStood
    /\ ValidatedStood

----------------------------------------------------------------------------
(***************************************************************************)
(* The gate of a claim.                                                    *)
(***************************************************************************)
\* The checks of a claim pass exactly if it stands.
LEMMA PassingStands ==
    ASSUME NEW links, NEW active
    PROVE  ClaimPasses(links, active) <=> Stands(cards, links, active)
<1> DEFINE relations == {l.relation : l \in links}
<1>1. /\ "refutes" \in relations <=> \E l \in links : l.relation = "refutes"
      /\ "supports" \in relations <=> \E l \in links : l.relation = "supports"
      /\ "qualifies" \in relations <=> \E l \in links : l.relation = "qualifies"
  OBVIOUS
<1>2. SupportStatus(links) \in {"supported", "partially_supported", "mixed"} <=>
        /\ "supports" \in relations \/ "qualifies" \in relations
        /\ "refutes" \in relations => "supports" \in relations
  <2> DEFINE status ==
        CASE relations = {} -> "unsupported"
          [] {"supports", "refutes"} \subseteq relations -> "mixed"
          [] "refutes" \in relations /\ "supports" \notin relations -> "contradicted"
          [] "refutes" \notin relations /\ "qualifies" \in relations -> "partially_supported"
          [] "refutes" \notin relations /\ "qualifies" \notin relations /\ "supports" \in relations -> "supported"
          [] OTHER -> "unassessed"
  <2>1. SupportStatus(links) = status
    BY DEF SupportStatus
  <2>2. status \in {"supported", "partially_supported", "mixed"} <=>
          /\ "supports" \in relations \/ "qualifies" \in relations
          /\ "refutes" \in relations => "supports" \in relations
    <3> HIDE DEF relations
    <3> QED OBVIOUS
  <2>3. QED BY <2>1, <2>2
<1>3. ClaimPasses(links, active) <=>
        /\ SupportStatus(links) \in {"supported", "partially_supported", "mixed"}
        /\ \E l \in links : /\ l.relation \in {"supports", "qualifies"}
                            /\ l.card \in active
                            /\ cards[l.card].draft.text # None
  BY DEF ClaimPasses, Locates
<1> HIDE DEF relations
<1>4. QED BY <1>1, <1>2, <1>3 DEF Stands

\* A claim stands in the project as it is.
LEMMA StandingStands ==
    ASSUME NEW c \in Claims
    PROVE  c \in Standing <=> c \in R!Existing /\ Stands(cards, claims[c].links, R!Active)
<1> DEFINE relations == {l.relation : l \in claims[c].links}
<1>1. /\ "refutes" \in relations <=> \E l \in claims[c].links : l.relation = "refutes"
      /\ "supports" \in relations <=> \E l \in claims[c].links : l.relation = "supports"
  OBVIOUS
<1>2. c \in Standing <=>
        /\ c \in R!Existing
        /\ \E l \in claims[c].links : /\ l.relation \in {"supports", "qualifies"}
                                     /\ l.card \in R!Active
                                     /\ cards[l.card].draft.text # None
        /\ "refutes" \in relations => "supports" \in relations
  BY DEF Standing
<1> HIDE DEF relations
<1>3. QED BY <1>1, <1>2 DEF Stands

----------------------------------------------------------------------------
(***************************************************************************)
(* What the other tools do to the records.                                 *)
(***************************************************************************)
\* What never changes about records: they stay, a card keeps its draft and does not
\* become active again, and a claim that changes has another revision.
RecordsGrow ==
    /\ R!TypeOK'
    /\ R!Stored \subseteq R!Stored'
    /\ \A e \in R!Stored : /\ e \in R!Active' => e \in R!Active
                           /\ cards'[e].draft = cards[e].draft
    /\ R!Existing \subseteq R!Existing'
    /\ \A c \in R!Existing : claims'[c] = claims[c] \/ claims'[c].rev > claims[c].rev
    /\ \A c \in Claims : CardsStored(claims[c].links)'

\* Records with another field are records.
LEMMA RecordTypes ==
    /\ \A r \in R!CardRecords, v \in {"none", "active", "superseded", "invalidated"}, n \in Nat :
          [r EXCEPT !.validity = v, !.rev = n] \in R!CardRecords
    /\ \A r \in R!ClaimRecords, x \in SUBSET R!Links, n \in Nat :
          [r EXCEPT !.links = x, !.rev = n] \in R!ClaimRecords
    /\ \A r \in R!CardRecords : r.rev \in Nat /\ r.rev + 1 \in Nat
    /\ \A r \in R!ClaimRecords : r.rev \in Nat /\ r.rev + 1 \in Nat /\ r.links \in SUBSET R!Links
<1>1. \A r \in R!CardRecords, v \in {"none", "active", "superseded", "invalidated"}, n \in Nat :
          [r EXCEPT !.validity = v, !.rev = n] \in R!CardRecords
  BY DEF R!CardRecords
<1>2. \A r \in R!ClaimRecords, x \in SUBSET R!Links, n \in Nat :
          [r EXCEPT !.links = x, !.rev = n] \in R!ClaimRecords
  BY DEF R!ClaimRecords
<1>3. \A r \in R!CardRecords : r.rev \in Nat /\ r.rev + 1 \in Nat
  BY DEF R!CardRecords
<1>4. \A r \in R!ClaimRecords : r.rev \in Nat /\ r.rev + 1 \in Nat /\ r.links \in SUBSET R!Links
  BY DEF R!ClaimRecords
<1>5. QED BY <1>1, <1>2, <1>3, <1>4

\* A card is invalidated or superseded.
LEMMA CardEnds ==
    ASSUME NEW r \in R!CardRecords, NEW v \in {"superseded", "invalidated"}
    PROVE  /\ [r EXCEPT !.validity = v, !.rev = @ + 1] \in R!CardRecords
           /\ [r EXCEPT !.validity = v, !.rev = @ + 1].draft = r.draft
           /\ [r EXCEPT !.validity = v, !.rev = @ + 1].validity = v
<1>1. [r EXCEPT !.validity = v, !.rev = r.rev + 1] \in R!CardRecords
  BY RecordTypes
<1>2. QED BY <1>1 DEF R!CardRecords

\* Every step of EvidenceRecords lets the records grow.
LEMMA OthersGrow ==
    ASSUME R!TypeOK, \A c \in Claims : CardsStored(claims[c].links), R!Next
    PROVE  RecordsGrow
<1>0. doc \in R!Documents /\ cards \in [Cards -> R!CardRecords] /\ claims \in [Claims -> R!ClaimRecords]
  BY DEF R!TypeOK
<1>1. CASE \E e \in Cards, d \in R!CardDrafts : R!CreateCard(e, d)
  <2>1. PICK e \in Cards, d \in R!CardDrafts : R!CreateCard(e, d)
    BY <1>1
  <2>2. e \notin R!Stored /\ (d.supersedes # None => d.supersedes \in R!Active) /\ R!Store(e, d) /\ UNCHANGED <<doc, claims>>
    BY <2>1 DEF R!CreateCard, R!Agrees
  <2> DEFINE new == [validity |-> "active", rev |-> 0, draft |-> d]
             created == [cards EXCEPT ![e] = new]
  <2>3. new \in R!CardRecords /\ new.validity = "active" /\ new.draft = d
    BY DEF R!CardRecords
  <2>4. cards' = IF d.supersedes = None THEN created
                 ELSE [created EXCEPT ![d.supersedes].validity = "superseded", ![d.supersedes].rev = @ + 1]
    BY <2>2 DEF R!Store
  <2> HIDE DEF new
  <2>5. /\ created \in [Cards -> R!CardRecords] /\ created[e].validity = "active"
        /\ \A x \in Cards \ {e} : created[x] = cards[x]
    BY <1>0, <2>3
  <2> HIDE DEF created
  <2>6. /\ cards' \in [Cards -> R!CardRecords]
        /\ \A x \in Cards \ {e} : cards'[x].draft = cards[x].draft
        /\ \A x \in Cards \ {e} : cards'[x] = cards[x] \/ (cards'[x].validity = "superseded" /\ x \in R!Active)
        /\ cards'[e].validity = "active"
    <3>1. CASE d.supersedes = None
      BY <2>4, <2>5, <3>1
    <3>2. CASE d.supersedes # None
      <4>1. d.supersedes \in R!Active /\ d.supersedes \in Cards /\ d.supersedes # e
        BY <2>2, <3>2 DEF R!Active, R!Stored
      <4> DEFINE old == [created[d.supersedes] EXCEPT !.validity = "superseded", !.rev = @ + 1]
      <4>2. /\ cards' = [created EXCEPT ![d.supersedes] = old]
            /\ old \in R!CardRecords /\ old.draft = created[d.supersedes].draft /\ old.validity = "superseded"
        BY <2>4, <2>5, <3>2, <4>1, CardEnds
      <4> HIDE DEF old
      <4>3. /\ cards' \in [Cards -> R!CardRecords]
            /\ \A x \in Cards : cards'[x].draft = created[x].draft
            /\ cards'[d.supersedes].validity = "superseded"
            /\ \A x \in Cards \ {d.supersedes} : cards'[x] = created[x]
        BY <2>5, <4>1, <4>2
      <4>4. QED BY <2>5, <4>1, <4>3
    <3>3. QED BY <3>1, <3>2
  <2>7. R!Stored \subseteq R!Stored' /\ R!Existing' = R!Existing
    BY <2>2, <2>6 DEF R!Stored, R!Active, R!Existing
  <2>8. \A x \in R!Stored : (x \in R!Active' => x \in R!Active) /\ cards'[x].draft = cards[x].draft
    BY <2>2, <2>6 DEF R!Stored, R!Active
  <2>9. R!TypeOK'
    BY <1>0, <2>2, <2>6 DEF R!TypeOK
  <2>10. \A c \in Claims : CardsStored(claims[c].links)'
    BY <2>2, <2>7 DEF CardsStored
  <2>11. QED BY <2>2, <2>7, <2>8, <2>9, <2>10 DEF RecordsGrow
<1>2. CASE \E e \in Cards : R!InvalidateCard(e)
  <2>1. PICK e \in Cards : R!InvalidateCard(e)
    BY <1>2
  <2>2. /\ e \in R!Active /\ UNCHANGED <<doc, claims>>
        /\ cards' = [cards EXCEPT ![e].validity = "invalidated", ![e].rev = @ + 1]
    BY <2>1 DEF R!InvalidateCard
  <2>3. /\ cards' \in [Cards -> R!CardRecords]
        /\ \A x \in Cards : cards'[x].draft = cards[x].draft
        /\ cards'[e].validity = "invalidated"
        /\ \A x \in Cards \ {e} : cards'[x] = cards[x]
    <3> DEFINE old == [cards[e] EXCEPT !.validity = "invalidated", !.rev = @ + 1]
    <3>1. /\ cards' = [cards EXCEPT ![e] = old]
          /\ old \in R!CardRecords /\ old.draft = cards[e].draft /\ old.validity = "invalidated"
      BY <1>0, <2>2, CardEnds
    <3> HIDE DEF old
    <3>2. QED BY <1>0, <3>1
  <2>4. R!Stored' = R!Stored /\ R!Active' \subseteq R!Active /\ R!Existing' = R!Existing
    BY <2>2, <2>3 DEF R!Stored, R!Active, R!Existing
  <2>5. R!TypeOK'
    BY <1>0, <2>2, <2>3 DEF R!TypeOK
  <2>6. \A x \in R!Stored : (x \in R!Active' => x \in R!Active) /\ cards'[x].draft = cards[x].draft
    BY <2>3, <2>4 DEF R!Stored
  <2>7. \A c \in Claims : CardsStored(claims[c].links)'
    BY <2>2, <2>4 DEF CardsStored
  <2>8. QED BY <2>2, <2>4, <2>5, <2>6, <2>7 DEF RecordsGrow
<1>3. CASE \E c \in Claims, links \in SUBSET R!Links : R!CreateClaim(c, links)
  <2>1. PICK c \in Claims, links \in SUBSET R!Links : R!CreateClaim(c, links)
    BY <1>3
  <2> DEFINE new == [exists |-> "yes", rev |-> 0, links |-> links]
  <2>2. /\ c \notin R!Existing /\ UNCHANGED <<doc, cards>> /\ claims' = [claims EXCEPT ![c] = new]
        /\ {l.card : l \in links} \subseteq R!Active
    BY <2>1 DEF R!CreateClaim
  <2>3. new \in R!ClaimRecords /\ new.exists = "yes" /\ new.links = links
    BY DEF R!ClaimRecords
  <2> HIDE DEF new
  <2>4. R!Stored' = R!Stored /\ R!Active' = R!Active
    BY <2>2 DEF R!Stored, R!Active
  <2>5. claims' \in [Claims -> R!ClaimRecords] /\ claims'[c] = new /\ \A x \in Claims \ {c} : claims'[x] = claims[x]
    BY <1>0, <2>2, <2>3
  <2>6. R!Existing \subseteq R!Existing' /\ \A x \in R!Existing : claims'[x] = claims[x]
    BY <2>2, <2>3, <2>5 DEF R!Existing
  <2>7. \A x \in Claims : CardsStored(claims[x].links)'
    <3>1. CardsStored(links)
      BY <2>2 DEF CardsStored, R!Active, R!Stored
    <3>2. QED BY <2>3, <2>4, <2>5, <3>1 DEF CardsStored
  <2>8. R!TypeOK'
    BY <1>0, <2>2, <2>5 DEF R!TypeOK
  <2>9. \A x \in R!Stored : cards'[x].draft = cards[x].draft
    BY <2>2
  <2>10. QED BY <2>4, <2>6, <2>7, <2>8, <2>9 DEF RecordsGrow
<1>4. CASE \E c \in Claims, e \in Cards, relation \in Relations : R!AddLink(c, e, relation)
  <2>1. PICK c \in Claims, e \in Cards, relation \in Relations : R!AddLink(c, e, relation)
    BY <1>4
  <2> DEFINE l == [card |-> e, relation |-> relation]
             new == [claims[c] EXCEPT !.links = claims[c].links \cup {l}, !.rev = claims[c].rev + 1]
  <2>2. /\ c \in R!Existing /\ e \in R!Stored /\ UNCHANGED <<doc, cards>>
        /\ claims' = [claims EXCEPT ![c] = new]
    BY <2>1 DEF R!AddLink
  <2>3. l \in R!Links /\ l.card = e /\ claims[c] \in R!ClaimRecords
    BY <1>0 DEF R!Links
  <2> HIDE DEF l
  <2>4. claims[c].links \cup {l} \in SUBSET R!Links /\ claims[c].rev \in Nat /\ claims[c].rev + 1 \in Nat
    BY <2>3, RecordTypes
  <2>5. new \in R!ClaimRecords
    BY <2>3, <2>4, RecordTypes
  <2>6. new.exists = claims[c].exists /\ new.links = claims[c].links \cup {l} /\ new.rev > claims[c].rev
    BY <2>3, <2>4 DEF R!ClaimRecords
  <2> HIDE DEF new
  <2>7. claims' \in [Claims -> R!ClaimRecords] /\ claims'[c] = new /\ \A x \in Claims \ {c} : claims'[x] = claims[x]
    BY <1>0, <2>2, <2>5
  <2>8. R!Stored' = R!Stored /\ R!Active' = R!Active
    BY <2>2 DEF R!Stored, R!Active
  <2>9. R!Existing \subseteq R!Existing' /\ \A x \in R!Existing : claims'[x] = claims[x] \/ claims'[x].rev > claims[x].rev
    BY <2>6, <2>7 DEF R!Existing
  <2>10. \A x \in Claims : CardsStored(claims[x].links)'
    BY <2>2, <2>3, <2>6, <2>7, <2>8 DEF CardsStored
  <2>11. R!TypeOK'
    BY <1>0, <2>2, <2>7 DEF R!TypeOK
  <2>12. \A x \in R!Stored : cards'[x].draft = cards[x].draft
    BY <2>2
  <2>13. QED BY <2>8, <2>9, <2>10, <2>11, <2>12 DEF RecordsGrow
<1>5. CASE \E text \in Texts \cup {None} : R!UpdateDocument(text)
  <2>1. PICK text \in Texts \cup {None} : R!UpdateDocument(text)
    BY <1>5
  <2>2. UNCHANGED <<cards, claims>> /\ doc' = [rev |-> doc.rev + 1, text |-> text]
    BY <2>1 DEF R!UpdateDocument
  <2>3. doc' \in R!Documents
    BY <1>0, <2>2 DEF R!Documents
  <2>4. QED BY <1>0, <2>2, <2>3 DEF RecordsGrow, R!TypeOK, R!Stored, R!Active, R!Existing, CardsStored
<1>6. QED BY <1>1, <1>2, <1>3, <1>4, <1>5 DEF R!Next

\* Nothing happens to the records.
LEMMA SameGrow ==
    ASSUME R!TypeOK, \A c \in Claims : CardsStored(claims[c].links), UNCHANGED <<doc, cards, claims>>
    PROVE  RecordsGrow
  BY DEF RecordsGrow, R!TypeOK, R!Stored, R!Active, R!Existing, CardsStored

\* A claim that does not stand does not with fewer active cards.
LEMMA StandsLess ==
    ASSUME NEW before, NEW after, NEW links, NEW active, NEW fewer,
           ~Stands(before, links, active),
           \A l \in links : l.card \in fewer => l.card \in active /\ after[l.card].draft = before[l.card].draft
    PROVE  ~Stands(after, links, fewer)
  BY DEF Stands

\* The parts of a call.
LEMMA CallTypes ==
    ASSUME TypeOK, NEW o \in Ops
    PROVE  /\ call[o] \in CallRecords /\ call[o].pins \in Revisions /\ call[o].seen \in Snapshots
           /\ call[o].seen.revs \in Revisions /\ call[o].todo \in SUBSET Records /\ call[o].target \in Targets
           /\ call[o].request \in SUBSET Records
           /\ call[o].seen.links \in [Claims -> SUBSET R!Links] /\ call[o].seen.active \in SUBSET Cards
           /\ call[o].seen.all \in SUBSET Claims /\ call[o].listed \in SUBSET Claims
<1>1. call[o] \in CallRecords
  BY DEF TypeOK
<1>2. /\ call[o].pins \in Revisions /\ call[o].seen \in Snapshots /\ call[o].todo \in SUBSET Records
      /\ call[o].target \in Targets /\ call[o].listed \in SUBSET Claims /\ call[o].request \in SUBSET Records
  BY <1>1 DEF CallRecords
<1>3. QED BY <1>1, <1>2 DEF Snapshots

\* Revisions that lie in the past stay there.
LEMMA PastStays ==
    ASSUME TypeOK, RecordsGrow, NEW revs \in Revisions, Past(revs)
    PROVE  Past(revs)'
<1> SUFFICES ASSUME NEW c \in Claims, revs[c] # None PROVE c \in R!Existing' /\ revs[c] <= claims'[c].rev
  BY DEF Past
<1>1. c \in R!Existing /\ revs[c] <= claims[c].rev /\ revs[c] \in Nat
  BY DEF Past, Revisions, Records
<1>2. claims[c].rev \in Nat /\ claims'[c].rev \in Nat
  BY DEF TypeOK, RecordsGrow, R!TypeOK, R!ClaimRecords
<1>3. claims'[c] = claims[c] \/ claims'[c].rev > claims[c].rev
  BY <1>1 DEF RecordsGrow
<1>4. QED BY <1>1, <1>2, <1>3 DEF RecordsGrow

\* A call that takes no step keeps what it knows, whatever others commit.
LEMMA CallKeeps ==
    ASSUME GateInv, NEW p \in Ops, call'[p] = call[p], stood'[p] = stood[p], RecordsGrow,
           p \in Generations => outdated'[p] = outdated[p],
           \A a \in Generations : artifacts[a].status # "none" => artifacts'[a] = artifacts[a]
    PROVE  CallInv(p)'
<1>0. TypeOK /\ CallInv(p)
  BY DEF GateInv
<1>1. /\ call[p].pins \in Revisions /\ call[p].seen.revs \in Revisions /\ call[p].todo \in SUBSET Records
      /\ call[p].seen.active \in SUBSET Cards
  BY <1>0, CallTypes
<1>2. ASSUME Reading(p) PROVE Reading(p)'
  <2>1. Past(call[p].seen.revs)' /\ Past(call[p].pins)'
    BY <1>0, <1>1, <1>2, PastStays DEF Reading, Past
  <2>2. R!Stored \subseteq R!Stored' /\ R!Existing \subseteq R!Existing'
    BY DEF RecordsGrow
  <2>3. QED BY <1>2, <2>1, <2>2 DEF Reading, CardsStored
<1>3. ASSUME Reading(p), NEW c \in Claims, call[p].seen.revs[c] # None \/ call[p].pins[c] # None, Fails(p, c)
      PROVE  Fails(p, c)'
  <2>1. \A e \in R!Stored : e \in ViewActive(p)' => e \in ViewActive(p) /\ cards'[e].draft = cards[e].draft
    BY DEF RecordsGrow, ViewActive
  <2>2. CASE call[p].seen.revs[c] # None
    <3>1. ViewLinks(p, c)' = ViewLinks(p, c) /\ ViewLinks(p, c) = call[p].seen.links[c]
      BY <2>2 DEF ViewLinks
    <3>2. CardsStored(ViewLinks(p, c)) /\ ~Stands(cards, ViewLinks(p, c), ViewActive(p))
      BY <1>3, <2>2, <3>1 DEF Reading, Fails
    <3>3. ~Stands(cards', ViewLinks(p, c), ViewActive(p)')
      BY <2>1, <3>2, StandsLess DEF CardsStored
    <3>4. QED BY <3>1, <3>3 DEF Fails
  <2>3. CASE call[p].seen.revs[c] = None
    <3>1. call[p].pins[c] # None /\ c \in R!Existing /\ call[p].pins[c] <= claims[c].rev /\ call[p].pins[c] \in Nat
      BY <1>1, <1>3, <2>3 DEF Reading, Past, Revisions, Records
    <3>2. claims[c].rev \in Nat /\ claims'[c].rev \in Nat
      BY <1>0 DEF TypeOK, RecordsGrow, R!TypeOK, R!ClaimRecords
    <3>3. CASE claims'[c].rev > claims[c].rev
      BY <2>3, <3>1, <3>2, <3>3 DEF Fails
    <3>4. CASE claims'[c] = claims[c]
      <4>1. ViewLinks(p, c)' = ViewLinks(p, c) /\ CardsStored(ViewLinks(p, c))
        BY <2>3, <3>4 DEF ViewLinks, GateInv
      <4>2. CASE claims[c].rev > call[p].pins[c]
        BY <2>3, <3>4, <4>2 DEF Fails
      <4>3. CASE ~Stands(cards, ViewLinks(p, c), ViewActive(p))
        <5>1. ~Stands(cards', ViewLinks(p, c), ViewActive(p)')
          BY <2>1, <4>1, <4>3, StandsLess DEF CardsStored
        <5>2. QED BY <4>1, <5>1 DEF Fails
      <4>4. QED BY <1>3, <4>2, <4>3 DEF Fails
    <3>5. QED BY <3>1, <3>3, <3>4 DEF RecordsGrow
  <2>4. QED BY <2>2, <2>3
<1>4. call[p].pc \notin {"valid", "done"} => Verdicts(p)'
  BY <1>0, <1>3 DEF CallInv, Verdicts, Excused
<1>5. R!Existing \subseteq R!Existing'
  BY DEF RecordsGrow
<1>6. QED BY <1>0, <1>2, <1>4, <1>5 DEF CallInv

\* The steps of a call, from what becomes of the call and of the artifacts.
LEMMA StepKeeps ==
    ASSUME GateInv, NEW o \in Ops,
           TypeOK',
           UNCHANGED <<doc, cards, claims>>,
           \A p \in Ops \ {o} : call'[p] = call[p] /\ stood'[p] = stood[p],
           \A p \in Generations \ {o} : outdated'[p] = outdated[p],
           call[o].pc # "done",
           \A a \in Generations : artifacts'[a] = artifacts[a] \/ (a = o /\ artifacts[a].status = "none"),
           CallInv(o)',
           o \in Generations => ArtifactInv(o)',
           o \in Generations /\ artifacts'[o] # artifacts[o] /\ artifacts'[o].status \in {"evidence_checked", "submission_candidate"}
              => /\ Selected(artifacts'[o].revs) \subseteq Excused(o)'
                 /\ outdated'[o] # {} => call'[o].request \cap Cards # {},
           o \in Validations /\ call'[o].pc = "valid" /\ call'[o].target # "exploratory" =>
              /\ Selected(call'[o].pins) \subseteq stood'[o]
              /\ call'[o].target = "submission_candidate" => call'[o].listed \subseteq Selected(call'[o].pins)
    PROVE  GateInv'
<1>1. RecordsGrow
  BY SameGrow DEF GateInv, TypeOK
<1>2. ASSUME NEW p \in Ops PROVE CallInv(p)'
  <2>1. CASE p = o
    BY <2>1
  <2>2. CASE p # o
    BY <1>1, <2>2, CallKeeps
  <2>3. QED BY <2>1, <2>2
<1>3. ASSUME NEW a \in Generations PROVE ArtifactInv(a)'
  <2>1. CASE a = o
    BY <2>1
  <2>2. CASE a # o
    BY <2>2 DEF GateInv, ArtifactInv, Past, R!Existing, Ops
  <2>3. QED BY <2>1, <2>2
<1>4. CreatedStood'
  <2> SUFFICES ASSUME NEW a \in Generations, artifacts'[a].status \in {"evidence_checked", "submission_candidate"}
               PROVE  /\ Selected(artifacts'[a].revs) \subseteq stood'[a] \cup outdated'[a]
                      /\ outdated'[a] # {} => call'[a].request \cap Cards # {}
    BY DEF CreatedStood, Selected
  <2>1. CASE artifacts'[a] # artifacts[a]
    BY <2>1 DEF Excused
  <2>2. CASE artifacts'[a] = artifacts[a] /\ a # o
    <3>1. call'[a] = call[a] /\ stood'[a] = stood[a] /\ outdated'[a] = outdated[a]
      BY <2>2 DEF Ops
    <3>2. QED BY <2>2, <3>1 DEF GateInv, CreatedStood
  <2>3. CASE artifacts'[a] = artifacts[a] /\ a = o
    BY <2>3 DEF GateInv, ArtifactInv
  <2>4. QED BY <2>1, <2>2, <2>3
<1>5. ValidatedStood'
  <2> SUFFICES ASSUME NEW v \in Validations, call'[v].pc = "valid", call'[v].target # "exploratory"
               PROVE  /\ Selected(call'[v].pins) \subseteq stood'[v]
                      /\ call'[v].target = "submission_candidate" => call'[v].listed \subseteq Selected(call'[v].pins)
    BY DEF ValidatedStood, Selected
  <2>1. CASE v = o
    BY <2>1
  <2>2. CASE v # o
    <3>1. call'[v] = call[v] /\ stood'[v] = stood[v]
      BY <2>2 DEF Ops
    <3>2. QED BY <3>1 DEF GateInv, ValidatedStood
  <2>3. QED BY <2>1, <2>2
<1>6. \A c \in Claims : CardsStored(claims[c].links)'
  BY <1>1 DEF RecordsGrow
<1>7. QED BY <1>2, <1>3, <1>4, <1>5, <1>6 DEF GateInv

\* The steps of the other tools.
LEMMA OthersKeep ==
    ASSUME GateInv, Others
    PROVE  GateInv'
<1>1. RecordsGrow /\ UNCHANGED <<artifacts, approved, call, stood, outdated>>
  BY OthersGrow DEF Others, GateInv, TypeOK
<1>2. TypeOK'
  BY <1>1 DEF GateInv, TypeOK, RecordsGrow
<1>3. \A p \in Ops : CallInv(p)'
  BY <1>1, CallKeeps
<1>4. ASSUME NEW a \in Generations PROVE ArtifactInv(a)'
  <2>1. artifacts[a].revs \in Revisions /\ Past(artifacts[a].revs)
    BY DEF GateInv, TypeOK, ArtifactRecords, ArtifactInv
  <2>2. Past(artifacts[a].revs)'
    BY <1>1, <2>1, PastStays DEF GateInv, Past
  <2>3. QED BY <1>1, <2>2 DEF GateInv, ArtifactInv
<1>5. CreatedStood' /\ ValidatedStood'
  BY <1>1 DEF GateInv, CreatedStood, ValidatedStood, Selected
<1>6. QED BY <1>1, <1>2, <1>3, <1>4, <1>5 DEF GateInv, RecordsGrow

----------------------------------------------------------------------------
(***************************************************************************)
(* Steps of the calls.                                                     *)
(***************************************************************************)
\* A record has a revision.
LEMMA RevisionType ==
    ASSUME R!TypeOK, NEW x \in Records
    PROVE  Revision(x) \in Nat /\ Revision(x) # None
<1>1. CASE x = Doc
  BY <1>1, GateConstants DEF Revision, R!TypeOK, R!Documents
<1>2. CASE x # Doc /\ x \in Cards
  <2>1. cards[x].rev \in Nat
    BY <1>2 DEF R!TypeOK, R!CardRecords
  <2>2. QED BY <1>2, <2>1, GateConstants DEF Revision
<1>3. CASE x # Doc /\ x \in Claims
  <2>1. claims[x].rev \in Nat
    BY <1>3 DEF R!TypeOK, R!ClaimRecords
  <2>2. QED BY <1>3, <2>1, GateConstants DEF Revision
<1>4. QED BY <1>1, <1>2, <1>3 DEF Records

\* A call that has read nothing.
LEMMA BlankType ==
    ASSUME NEW step \in PCs
    PROVE  At(step) \in CallRecords
<1>1. NoRevisions \in Revisions
  BY DEF NoRevisions, Revisions
<1>2. NothingRead \in Snapshots
  BY <1>1 DEF NothingRead, Snapshots
<1>3. QED BY <1>1, <1>2 DEF At, CallRecords, Targets

\* Updates of a call's variables keep their types.
LEMMA CallUpdates ==
    ASSUME NEW r \in CallRecords
    PROVE  /\ \A y \in PCs : [r EXCEPT !.pc = y] \in CallRecords
           /\ \A y \in Targets : [r EXCEPT !.target = y] \in CallRecords
           /\ \A y \in Generations : [r EXCEPT !.artifact = y] \in CallRecords
           /\ \A y \in Revisions : [r EXCEPT !.pins = y] \in CallRecords
           /\ \A y \in SUBSET Records : [r EXCEPT !.todo = y] \in CallRecords
           /\ \A y \in SUBSET Records : [r EXCEPT !.request = y] \in CallRecords
           /\ \A y \in Snapshots : [r EXCEPT !.seen = y] \in CallRecords
           /\ \A y \in SUBSET Claims : [r EXCEPT !.listed = y] \in CallRecords
  BY DEF CallRecords

\* A call that has ended knows nothing.
LEMMA BlankKnows ==
    ASSUME NEW o \in Ops, NEW S \in SUBSET Records, call'[o] = [At("done") EXCEPT !.request = S]
    PROVE  CallInv(o)'
<1>1. call'[o].pc = "done" /\ call'[o].pins = NoRevisions /\ call'[o].listed = {}
  BY DEF At
<1>2. QED BY <1>1 DEF CallInv, GenerationSteps, ValidationSteps

\* The end of a call without an artifact.
LEMMA EndKeeps ==
    ASSUME GateInv, NEW o \in Ops, call[o].pc # "done", call' = [call EXCEPT ![o] = At("done")],
           UNCHANGED <<doc, cards, claims, artifacts, approved, stood, outdated>>
    PROVE  GateInv'
<1>0. At("done") \in CallRecords
  BY BlankType DEF PCs
<1>a. At("done").pc = "done" /\ At("done") = [At("done") EXCEPT !.request = {}]
  BY DEF At
<1>1. /\ At("done") \in CallRecords /\ At("done").pc = "done"
      /\ At("done") = [At("done") EXCEPT !.request = {}]
  BY <1>0, <1>a
<1>2. call \in [Ops -> CallRecords]
  BY DEF GateInv, TypeOK
<1>3. TypeOK'
  BY <1>1 DEF GateInv, TypeOK, R!TypeOK
<1>4. call'[o] = At("done") /\ \A p \in Ops \ {o} : call'[p] = call[p]
  BY <1>2
<1>5. CallInv(o)'
  BY <1>1, <1>4, BlankKnows
<1>6. o \in Generations => ArtifactInv(o)'
  BY <1>1, <1>4 DEF GateInv, ArtifactInv, Past, R!Existing
<1>7. QED BY <1>1, <1>3, <1>4, <1>5, <1>6, StepKeeps

\* One record is read.
LEMMA ReadKeeps ==
    ASSUME GateInv, NEW o \in Ops, NEW x \in Records, Load(o, x)
    PROVE  GateInv'
<1> DEFINE s == call[o].seen
           revs == [s.revs EXCEPT ![x] = Revision(x)]
           links == IF x \in Claims THEN [s.links EXCEPT ![x] = claims[x].links] ELSE s.links
           active == IF x \in R!Active THEN s.active \cup {x} ELSE s.active
           seen == [revs |-> revs, links |-> links, active |-> active, all |-> {}]
           todo == (call[o].todo \cup Dependencies(x)) \ {y \in Records : revs[y] # None}
           record == [call[o] EXCEPT !.seen = seen, !.todo = todo]
<1>0. /\ TypeOK /\ R!TypeOK /\ CallInv(o) /\ call \in [Ops -> CallRecords] /\ stood \in [Ops -> SUBSET Claims]
      /\ claims \in [Claims -> R!ClaimRecords] /\ outdated \in [Generations -> SUBSET Claims]
  BY DEF GateInv, TypeOK, R!TypeOK
<1>1. /\ call[o].pc \in {"load", "loadPinned"} /\ Matches(o, x) /\ x \in call[o].todo
      /\ x \in call[o].request \/ call[o].todo \cap call[o].request = {}
      /\ call' = [call EXCEPT ![o] = record]
      /\ stood' = IF call[o].pc = "load" /\ x \in Standing THEN [stood EXCEPT ![o] = @ \cup {x}] ELSE stood
      /\ outdated' = IF call[o].pc = "load" /\ x \in Claims /\ OutdatedCards(o, x) # {}
                       THEN [outdated EXCEPT ![o] = @ \cup {x}] ELSE outdated
      /\ UNCHANGED <<doc, cards, claims, artifacts, approved>>
  BY DEF Load, Read
<1>2. Reading(o) /\ Verdicts(o) /\ (call[o].pc = "load" => o \in Generations)
  BY <1>0, <1>1 DEF CallInv, ValidationSteps, Ops
<1>3. /\ call[o] \in CallRecords /\ call[o].pins \in Revisions /\ s.revs \in Revisions /\ call[o].todo \in SUBSET Records
      /\ s.links \in [Claims -> SUBSET R!Links] /\ s.active \in SUBSET Cards /\ Revision(x) \in Nat /\ Revision(x) # None
      /\ s.revs[x] = None /\ call[o].request \in SUBSET Records
  BY <1>0, <1>1, <1>2, CallTypes, RevisionType DEF Reading
<1>4. Dependencies(x) \in SUBSET Records /\ \A c \in Claims : c \notin Dependencies(x)
  <2>1. CASE x \in Claims
    <3>1. claims[x].links \in SUBSET R!Links
      BY <1>0, <2>1 DEF R!ClaimRecords
    <3>2. \A l \in claims[x].links : l.card \in Cards
      BY <3>1 DEF R!Links
    <3>3. QED BY <2>1, <3>2, GateConstants DEF Dependencies, Records
  <2>2. CASE x \notin Claims
    BY <2>2, GateConstants DEF Dependencies, Records
  <2>3. QED BY <2>1, <2>2
<1>5. /\ revs \in Revisions /\ revs[x] = Revision(x) /\ \A y \in Records \ {x} : revs[y] = s.revs[y]
  BY <1>3 DEF Revisions
<1>6. /\ links \in [Claims -> SUBSET R!Links]
      /\ x \in Claims => links[x] = claims[x].links
      /\ \A c \in Claims \ {x} : links[c] = s.links[c]
  <2>1. x \in Claims => claims[x].links \in SUBSET R!Links
    BY <1>0 DEF R!ClaimRecords
  <2>2. QED BY <1>3, <2>1
<1>7. active \in SUBSET Cards
  BY <1>3 DEF R!Active
<1> HIDE DEF revs, links
<1>8. todo \in SUBSET Records
  BY <1>3, <1>4
<1>9. seen \in Snapshots /\ seen.revs = revs /\ seen.links = links /\ seen.active = active
  BY <1>5, <1>6, <1>7 DEF Snapshots
<1> HIDE DEF seen, todo
<1>10. record \in CallRecords
  <2>1. [call[o] EXCEPT !.seen = seen] \in CallRecords
    BY <1>3, <1>9, CallUpdates
  <2>2. QED BY <1>8, <2>1, CallUpdates
<1>11. /\ call'[o].pc = call[o].pc /\ call'[o].target = call[o].target /\ call'[o].artifact = call[o].artifact
       /\ call'[o].pins = call[o].pins /\ call'[o].listed = call[o].listed
       /\ call'[o].seen = seen /\ call'[o].todo = todo /\ call'[o].request = call[o].request
       /\ \A p \in Ops \ {o} : call'[p] = call[p]
  BY <1>0, <1>1, <1>3 DEF CallRecords
<1> HIDE DEF record
<1>12. /\ stood' \in [Ops -> SUBSET Claims] /\ stood[o] \subseteq stood'[o]
       /\ \A p \in Ops \ {o} : stood'[p] = stood[p]
       /\ call[o].pc = "load" /\ x \in Standing => x \in stood'[o]
  <2>1. CASE call[o].pc = "load" /\ x \in Standing
    <3>1. x \in Claims
      BY <2>1 DEF Standing, R!Existing
    <3>2. QED BY <1>0, <1>1, <2>1, <3>1
  <2>2. CASE ~(call[o].pc = "load" /\ x \in Standing)
    BY <1>0, <1>1, <2>2
  <2>3. QED BY <2>1, <2>2
<1>12a. /\ outdated' \in [Generations -> SUBSET Claims] /\ \A p \in Generations \ {o} : outdated'[p] = outdated[p]
        /\ o \in Generations => outdated[o] \subseteq outdated'[o]
        /\ call[o].pc = "load" /\ x \in Claims /\ OutdatedCards(o, x) # {} => x \in outdated'[o]
        /\ o \in Generations /\ outdated'[o] # outdated[o] => x \in Claims /\ OutdatedCards(o, x) # {}
  BY <1>0, <1>1, <1>2
<1>13. TypeOK'
  BY <1>0, <1>1, <1>10, <1>12, <1>12a DEF TypeOK, R!TypeOK
<1>14. Claims \subseteq Records /\ Cards \subseteq Records /\ Cards \cap Claims = {}
  BY GateConstants DEF Records
<1>15. \A c \in Claims : c \in todo => c \in call[o].todo /\ c # x
  BY <1>3, <1>4, <1>5, <1>14 DEF todo
<1>16. R!Existing' = R!Existing /\ R!Active' = R!Active /\ R!Stored' = R!Stored
  BY <1>1 DEF R!Existing, R!Active, R!Stored
<1>17. ASSUME x \in Claims
       PROVE  /\ x \in R!Existing /\ Revision(x) = claims[x].rev
              /\ CardsStored(claims[x].links)
  <2>1. x \in R!Existing
    BY <1>1, <1>2, <1>17 DEF Reading
  <2>2. Revision(x) = claims[x].rev
    BY <1>17, GateConstants DEF Revision
  <2>3. QED BY <1>17, <2>1, <2>2 DEF GateInv
<1>18. Reading(o)'
  <2>1. Past(call[o].seen.revs)'
    <3> SUFFICES ASSUME NEW c \in Claims, revs[c] # None
                 PROVE  c \in R!Existing /\ revs[c] <= claims[c].rev
      BY <1>1, <1>9, <1>11, <1>16 DEF Past
    <3>1. CASE c = x
      BY <1>3, <1>5, <1>17, <3>1
    <3>2. CASE c # x
      BY <1>2, <1>5, <1>14, <3>2 DEF Reading, Past
    <3>3. QED BY <3>1, <3>2
  <2>2. Past(call[o].pins)'
    BY <1>1, <1>2, <1>11, <1>16 DEF Reading, Past
  <2>3. \A c \in Claims : call'[o].seen.revs[c] # None => CardsStored(call[o].seen.links[c])'
    <3> SUFFICES ASSUME NEW c \in Claims, revs[c] # None PROVE CardsStored(links[c])
      BY <1>9, <1>11, <1>16 DEF CardsStored
    <3>1. CASE c = x
      BY <1>6, <1>17, <3>1
    <3>2. CASE c # x
      BY <1>2, <1>5, <1>6, <1>14, <3>2 DEF Reading
    <3>3. QED BY <3>1, <3>2
  <2>4. \A e \in active : revs[e] # None
    BY <1>2, <1>3, <1>5, <1>14 DEF Reading, R!Active
  <2>5. \A y \in Records : y \in todo => revs[y] = None
    BY DEF todo
  <2>6. /\ \A c \in Claims : c \in todo => c \in call[o].request
        /\ \A y \in Records : y \in call[o].request /\ revs[y] = None => y \in todo
        /\ (\E y \in Records : y \in todo /\ y \in call[o].request)
             => \A y \in Records : revs[y] # None => y \in call[o].request
    <3>1. \A c \in Claims : c \in todo => c \in call[o].request
      BY <1>2, <1>15 DEF Reading
    <3>2. \A y \in Records : y \in call[o].request /\ revs[y] = None => y \in todo
      BY <1>2, <1>3, <1>5 DEF Reading, todo
    <3>3. ASSUME NEW y \in Records, y \in todo, y \in call[o].request, NEW z \in Records, revs[z] # None
          PROVE  z \in call[o].request
      <4>1. revs[y] = None /\ y # x /\ s.revs[y] = None
        BY <1>3, <1>5, <3>3 DEF todo
      <4>2. y \in call[o].todo
        BY <1>2, <3>3, <4>1 DEF Reading
      <4>3. x \in call[o].request
        BY <1>1, <3>3, <4>2
      <4>4. z # x => s.revs[z] # None
        BY <1>5, <3>3
      <4>5. QED BY <1>2, <3>3, <4>2, <4>3, <4>4 DEF Reading
    <3>4. QED BY <3>1, <3>2, <3>3
  <2>7. \A c \in Claims : call[o].pins[c] # None /\ revs[c] = None => c \in todo
    BY <1>2, <1>3, <1>5, <1>14 DEF Reading, todo
  <2>8. \A c \in Claims : c \in todo => c \in R!Existing
    BY <1>2, <1>15 DEF Reading
  <2>9. call[o].pc = "loadPinned" => \A c \in Claims : c \in todo => call[o].pins[c] # None
    BY <1>2, <1>15 DEF Reading
  <2>10. QED BY <1>9, <1>11, <1>16, <2>1, <2>2, <2>3, <2>4, <2>5, <2>6, <2>7, <2>8, <2>9 DEF Reading, CardsStored, Past
<1>19. ViewActive(o)' \subseteq ViewActive(o)
  BY <1>3, <1>5, <1>9, <1>11, <1>14, <1>16 DEF ViewActive, R!Active
<1>20. Verdicts(o)'
  <2> SUFFICES ASSUME NEW c \in Claims, c \notin Excused(o)', revs[c] # None \/ call[o].pins[c] # None
               PROVE  Fails(o, c)'
    BY <1>9, <1>11 DEF Verdicts
  <2>0. c \notin Excused(o)
    BY <1>12, <1>12a DEF Excused
  <2>1. CASE c # x
    <3>1. revs[c] = s.revs[c] /\ links[c] = s.links[c] /\ Fails(o, c)
      BY <1>2, <1>5, <1>6, <1>14, <2>0, <2>1 DEF Verdicts
    <3>2. ViewLinks(o, c)' = ViewLinks(o, c)
      BY <1>1, <1>9, <1>11, <3>1 DEF ViewLinks
    <3>3. ~Stands(cards, ViewLinks(o, c), ViewActive(o)) => ~Stands(cards, ViewLinks(o, c), ViewActive(o)')
      BY <1>19, StandsLess
    <3>4. QED BY <1>1, <1>9, <1>11, <3>1, <3>2, <3>3 DEF Fails
  <2>2. CASE c = x
    <3>1. ViewLinks(o, c)' = claims[c].links
      BY <1>3, <1>5, <1>6, <1>9, <1>11, <2>2 DEF ViewLinks
    <3>2. ~Stands(cards, claims[c].links, ViewActive(o))
      <4>1. CASE call[o].pc = "load"
        <5>1. c \notin stood'[o] /\ c \notin outdated'[o]
          BY <1>2, <4>1 DEF Excused
        <5>2. ~Stands(cards, claims[c].links, R!Active)
          BY <1>12, <1>17, <2>2, <4>1, <5>1, StandingStands
        <5>3. \A l \in claims[c].links : l.card \in ViewActive(o) => l.card \in R!Active
          BY <1>12a, <2>2, <4>1, <5>1 DEF ViewActive, OutdatedCards
        <5>4. QED BY <5>2, <5>3, StandsLess
      <4>2. CASE call[o].pc = "loadPinned"
        <5>1. call[o].pins[c] # None /\ call[o].pins[c] = claims[c].rev /\ claims[c].rev \in Nat
          BY <1>1, <1>2, <1>3, <1>17, <2>2, <4>2 DEF Reading, Matches
        <5>2. Fails(o, c) /\ ViewLinks(o, c) = claims[c].links
          BY <1>2, <1>3, <2>0, <2>2, <5>1 DEF Verdicts, ViewLinks
        <5>3. QED BY <5>1, <5>2 DEF Fails
      <4>3. QED BY <1>1, <4>1, <4>2
    <3>3. ~Stands(cards, claims[c].links, ViewActive(o)')
      BY <1>19, <3>2, StandsLess
    <3>4. QED BY <1>1, <3>1, <3>3 DEF Fails
  <2>3. QED BY <2>1, <2>2
<1>20a. o \in Generations /\ outdated'[o] # {} => \E e \in Cards : e \in call[o].request
  <2>1. CASE o \in Generations /\ outdated'[o] # outdated[o]
    <3>1. PICK e \in s.active : TRUE
      BY <1>12a, <2>1 DEF OutdatedCards
    <3>2. e \in Cards /\ s.revs[e] # None
      BY <1>2, <1>3, <3>1 DEF Reading
    <3>3. x \in call[o].request
      BY <1>1, <1>2, <1>12a, <2>1 DEF Reading
    <3>4. e \in call[o].request
      BY <1>1, <1>2, <1>14, <3>2, <3>3 DEF Reading
    <3>5. QED BY <3>2, <3>4
  <2>2. CASE o \in Generations /\ outdated'[o] = outdated[o]
    BY <1>0, <1>1, <2>2 DEF CallInv
  <2>3. QED BY <2>1, <2>2
<1>21. CallInv(o)'
  BY <1>0, <1>1, <1>11, <1>16, <1>18, <1>20, <1>20a DEF CallInv
<1>22. o \in Generations => ArtifactInv(o)'
  BY <1>1, <1>11, <1>16 DEF GateInv, ArtifactInv, Past
<1>23. call'[o].pc # "valid"
  BY <1>1, <1>11
<1>24. QED BY <1>1, <1>11, <1>12, <1>12a, <1>13, <1>21, <1>22, <1>23, StepKeeps

\* A step within a call that keeps what it has read.
LEMMA MoveKeeps ==
    ASSUME GateInv, NEW o \in Ops, NEW to \in {"evaluate", "ask", "create", "validate"}, NEW seen \in Snapshots,
           call' = [call EXCEPT ![o] = [call[o] EXCEPT !.pc = to, !.seen = seen]],
           UNCHANGED <<doc, cards, claims, artifacts, stood, outdated>>, approved' \subseteq Generations,
           call[o].pc \in {"load", "loadPinned", "evaluate", "ask"}, call[o].todo = {},
           seen.revs = call[o].seen.revs, seen.links = call[o].seen.links, seen.active = call[o].seen.active,
           to = "validate" => call[o].pc = "loadPinned" /\ seen.all = R!Existing,
           o \in Generations => to # "validate",
           o \in Validations => to = "validate"
    PROVE  GateInv'
<1>0. TypeOK /\ CallInv(o) /\ call \in [Ops -> CallRecords] /\ call[o] \in CallRecords /\ to \in PCs
  BY DEF GateInv, TypeOK, PCs
<1>1. [call[o] EXCEPT !.pc = to] \in CallRecords
  BY <1>0, CallUpdates
<1>2. [call[o] EXCEPT !.pc = to, !.seen = seen] \in CallRecords
  BY <1>1, CallUpdates
<1>3. TypeOK'
  BY <1>0, <1>2 DEF TypeOK, R!TypeOK
<1>4. /\ call'[o].pc = to /\ call'[o].target = call[o].target /\ call'[o].artifact = call[o].artifact
      /\ call'[o].pins = call[o].pins /\ call'[o].listed = call[o].listed
      /\ call'[o].seen = seen /\ call'[o].todo = {} /\ call'[o].request = call[o].request
      /\ \A p \in Ops \ {o} : call'[p] = call[p]
  BY <1>0 DEF CallRecords
<1>5. R!Existing' = R!Existing /\ R!Active' = R!Active /\ R!Stored' = R!Stored
  BY DEF R!Existing, R!Active, R!Stored
<1>6. Reading(o) /\ Verdicts(o)
  BY <1>0 DEF CallInv
<1>7. Reading(o)'
  BY <1>4, <1>5, <1>6 DEF Reading, Past, CardsStored
<1>8. Verdicts(o)'
  BY <1>4, <1>5, <1>6 DEF Verdicts, Excused, Fails, ViewLinks, ViewActive
<1>9. CallInv(o)'
  BY <1>0, <1>4, <1>5, <1>7, <1>8 DEF CallInv, GenerationSteps, ValidationSteps
<1>10. o \in Generations => ArtifactInv(o)'
  BY <1>0, <1>4, <1>5 DEF GateInv, ArtifactInv, Past
<1>11. QED BY <1>3, <1>4, <1>9, <1>10, StepKeeps

\* The steps of a generation between the first read and the commit.
LEMMA LoadedKeeps ==
    ASSUME GateInv, NEW o \in Ops, Loaded(o)
    PROVE  GateInv'
<1> DEFINE seen == [call[o].seen EXCEPT !.all = R!Existing]
<1>0. /\ TypeOK /\ CallInv(o) /\ call[o].seen \in Snapshots /\ R!Existing \in SUBSET Claims /\ call[o].todo = {}
      /\ Generations \cap Validations = {}
  BY CallTypes, GateConstants DEF GateInv, R!Existing, Loaded
<1>1. /\ seen \in Snapshots /\ seen.revs = call[o].seen.revs /\ seen.links = call[o].seen.links
      /\ seen.active = call[o].seen.active /\ seen.all = R!Existing
  BY <1>0 DEF Snapshots
<1>2. PICK to \in {"evaluate", "validate"} :
        /\ call' = [call EXCEPT ![o] = [call[o] EXCEPT !.pc = to, !.seen = seen]]
        /\ call[o].pc = IF to = "evaluate" THEN "load" ELSE "loadPinned"
  BY DEF Loaded, Becomes
<1>3. UNCHANGED <<doc, cards, claims, artifacts, approved, stood, outdated>> /\ approved \subseteq Generations
  BY <1>0 DEF Loaded, TypeOK
<1> HIDE DEF seen
<1>4. (o \in Generations => to # "validate") /\ (o \in Validations => to = "validate")
  BY <1>0, <1>2 DEF CallInv, GenerationSteps, ValidationSteps
<1>5. QED BY <1>0, <1>1, <1>2, <1>3, <1>4, MoveKeeps

\* A generation that is evaluated, or approved, goes on to ask or to create.
LEMMA PrepareKeeps ==
    ASSUME GateInv, NEW o \in Generations, Confirm(o) \/ \E other \in Outcomes : Evaluate(o, other)
    PROVE  GateInv'
<1>0. /\ o \in Ops /\ TypeOK /\ CallInv(o) /\ call[o] \in CallRecords /\ call[o].seen \in Snapshots
      /\ o \notin Validations
  BY CallTypes, GateConstants DEF GateInv, TypeOK, Ops
<1>1. PICK to \in {"ask", "create"} :
        /\ call' = [call EXCEPT ![o] = [call[o] EXCEPT !.pc = to]]
        /\ call[o].pc \in {"evaluate", "ask"}
  BY DEF Confirm, Evaluate, Moves, Becomes
<1>2. [call[o] EXCEPT !.pc = to] = [call[o] EXCEPT !.pc = to, !.seen = call[o].seen]
  BY <1>0 DEF CallRecords
<1>3. UNCHANGED <<doc, cards, claims, artifacts, stood, outdated>> /\ approved' \subseteq Generations
  BY <1>0 DEF Confirm, Evaluate, TypeOK
<1>4. call[o].todo = {}
  BY <1>0, <1>1 DEF CallInv
<1>5. QED BY <1>0, <1>1, <1>2, <1>3, <1>4, MoveKeeps

\* A generation begins.
LEMMA StartKeeps ==
    ASSUME GateInv, NEW o \in Generations, NEW S \in SUBSET Records, NEW t \in Targets, StartArtifact(o, S, t)
    PROVE  GateInv'
<1> DEFINE record == [At("load") EXCEPT !.request = S, !.todo = S, !.target = t]
<1>0. /\ o \in Ops /\ o \notin Validations /\ TypeOK /\ CallInv(o) /\ call \in [Ops -> CallRecords]
      /\ Claims \subseteq Records /\ Cards \subseteq Records
  BY GateConstants DEF GateInv, TypeOK, Ops, Records
<1>1. /\ call' = [call EXCEPT ![o] = record] /\ S \subseteq R!Existing \cup R!Stored \cup {Doc}
      /\ UNCHANGED <<doc, cards, claims, artifacts, approved, stood, outdated>> /\ call[o].pc = "start"
  BY DEF StartArtifact, Becomes
<1>2. At("load") \in CallRecords
  BY BlankType DEF PCs
<1>3. [At("load") EXCEPT !.request = S] \in CallRecords
  BY <1>2, CallUpdates
<1>4. record \in CallRecords
  <2>1. [At("load") EXCEPT !.request = S, !.todo = S] \in CallRecords
    BY <1>3, CallUpdates
  <2>2. QED BY <2>1, CallUpdates
<1>5. /\ call'[o].pc = "load" /\ call'[o].pins = NoRevisions /\ call'[o].seen = NothingRead
      /\ call'[o].todo = S /\ call'[o].request = S /\ call'[o].listed = {}
      /\ \A p \in Ops \ {o} : call'[p] = call[p]
  BY <1>0, <1>1 DEF At
<1> HIDE DEF record
<1>6. NothingRead.revs = NoRevisions /\ NothingRead.active = {} /\ \A x \in Records : NoRevisions[x] = None
  BY DEF NothingRead, NoRevisions
<1>7. TypeOK'
  BY <1>0, <1>1, <1>4 DEF TypeOK, R!TypeOK
<1>8. R!Existing' = R!Existing
  BY <1>1 DEF R!Existing
<1>9. Reading(o)' /\ Verdicts(o)'
  <2>1. \A c \in Claims : c \in S => c \in R!Existing
    BY <1>1, GateConstants DEF R!Stored
  <2>2. QED BY <1>0, <1>1, <1>5, <1>6, <1>8, <2>1 DEF Reading, Past, Verdicts
<1>10. CallInv(o)'
  BY <1>0, <1>1, <1>5, <1>9 DEF CallInv, GenerationSteps
<1>11. ArtifactInv(o)'
  BY <1>1, <1>8 DEF GateInv, ArtifactInv, Past
<1>12. QED BY <1>0, <1>1, <1>5, <1>7, <1>10, <1>11, StepKeeps

\* The gates let a claim pass only if it stood or its cards were outdated.
LEMMA GatesFind ==
    ASSUME GateInv, NEW o \in Ops, call[o].pc \notin {"valid", "done"}, call[o].todo = {}, NEW t \in Targets, t # "exploratory",
           NEW other \in Outcomes, ~GateFails(call[o].seen, t, other)
    PROVE  Selected(call[o].seen.revs) \subseteq Excused(o)
<1> SUFFICES ASSUME NEW c \in Claims, call[o].seen.revs[c] # None, c \notin Excused(o) PROVE FALSE
  BY DEF Selected
<1>1. Reading(o) /\ Verdicts(o)
  BY DEF GateInv, CallInv
<1>2. ~Stands(cards, call[o].seen.links[c], ViewActive(o))
  BY <1>1 DEF Verdicts, Fails, ViewLinks
<1>3. ~Stands(cards, call[o].seen.links[c], call[o].seen.active)
  <2>1. call[o].seen.active \subseteq ViewActive(o)
    BY DEF ViewActive
  <2>2. QED BY <1>2, <2>1, StandsLess
<1>4. ~ClaimPasses(call[o].seen.links[c], call[o].seen.active)
  BY <1>3, PassingStands
<1>5. QED BY <1>4 DEF GateFails, Selected

\* An artifact is created.
LEMMA CreateKeeps ==
    ASSUME GateInv, NEW o \in Generations, NEW other \in Outcomes, CreateArtifact(o, other)
    PROVE  GateInv'
<1> DEFINE status == GateStatus(call[o].seen, call[o].target, other, o \in approved)
           ended == [At("done") EXCEPT !.request = call[o].request]
           new == [status |-> Publishability(call[o].target, status), revs |-> call[o].seen.revs]
<1>0. /\ o \in Ops /\ o \notin Validations /\ TypeOK /\ CallInv(o) /\ call \in [Ops -> CallRecords]
      /\ call[o].seen.revs \in Revisions /\ call[o].target \in Targets
      /\ artifacts \in [Generations -> ArtifactRecords] /\ call[o].request \in SUBSET Records
  BY CallTypes, GateConstants DEF GateInv, TypeOK, Ops
<1>1. /\ call' = [call EXCEPT ![o] = ended] /\ call[o].pc = "create"
      /\ artifacts' = [artifacts EXCEPT ![o] = new]
      /\ UNCHANGED <<doc, cards, claims, approved, stood, outdated>>
  BY DEF CreateArtifact, Becomes
<1>2. Publishability(call[o].target, status) \in Targets \cup {"none", "blocked"}
  BY <1>0 DEF Publishability
<1>3. new \in ArtifactRecords /\ new.revs = call[o].seen.revs /\ new.status = Publishability(call[o].target, status)
  BY <1>0, <1>2 DEF ArtifactRecords
<1> HIDE DEF new
<1>4. ended \in CallRecords /\ ended.pc = "done" /\ ended.request = call[o].request
  <2>1. At("done") \in CallRecords
    BY BlankType DEF PCs
  <2>2. QED BY <1>0, <2>1, CallUpdates DEF At
<1>5. call'[o] = ended /\ \A p \in Ops \ {o} : call'[p] = call[p]
  BY <1>0, <1>1
<1>6. artifacts' \in [Generations -> ArtifactRecords] /\ artifacts'[o] = new
      /\ \A a \in Generations \ {o} : artifacts'[a] = artifacts[a]
  BY <1>0, <1>1, <1>3
<1>7. TypeOK'
  BY <1>0, <1>1, <1>4, <1>6 DEF TypeOK, R!TypeOK
<1>8. CallInv(o)'
  BY <1>0, <1>5, BlankKnows
<1>9. artifacts[o].status = "none"
  BY <1>1 DEF GateInv, ArtifactInv
<1>10. ArtifactInv(o)'
  <2>1. Past(call[o].seen.revs)
    BY <1>0, <1>1 DEF CallInv, Reading
  <2>2. Past(artifacts[o].revs)'
    BY <1>1, <1>3, <1>6, <2>1 DEF Past, R!Existing
  <2>3. QED BY <1>4, <1>5, <2>2 DEF ArtifactInv
<1>11. new.status \in {"evidence_checked", "submission_candidate"} => Selected(new.revs) \subseteq Excused(o)
  <2> SUFFICES ASSUME new.status \in {"evidence_checked", "submission_candidate"} PROVE Selected(new.revs) \subseteq Excused(o)
    OBVIOUS
  <2>1. status # "failed" /\ call[o].target # "exploratory"
    BY <1>3 DEF Publishability
  <2>2. ~GateFails(call[o].seen, call[o].target, other)
    BY <2>1 DEF GateStatus
  <2>3. call[o].todo = {}
    BY <1>0, <1>1 DEF CallInv
  <2>4. QED BY <1>0, <1>1, <1>3, <2>1, <2>2, <2>3, GatesFind
<1>12. Excused(o)' = Excused(o) /\ (outdated'[o] # {} => call'[o].request \cap Cards # {})
  <2>1. outdated[o] # {} => \E e \in Cards : e \in call[o].request
    BY <1>0, <1>1 DEF CallInv
  <2>2. QED BY <1>1, <1>4, <1>5, <2>1 DEF Excused
<1> HIDE DEF ended
<1>13. QED BY <1>0, <1>1, <1>5, <1>6, <1>7, <1>8, <1>9, <1>10, <1>11, <1>12, StepKeeps

\* A validation begins: what does not stand now fails from now on.
LEMMA StartValidateKeeps ==
    ASSUME GateInv, NEW o \in Validations, NEW a \in Generations, NEW t \in Targets, StartValidate(o, a, t)
    PROVE  GateInv'
<1> DEFINE revs == artifacts[a].revs
           todo == {x \in Records : revs[x] # None}
           record == [At("loadPinned") EXCEPT !.request = todo, !.todo = todo, !.artifact = a, !.target = t,
                                              !.pins = revs, !.listed = R!Existing]
<1>0. /\ o \in Ops /\ o \notin Generations /\ TypeOK /\ call \in [Ops -> CallRecords]
      /\ Claims \subseteq Records /\ Cards \subseteq Records /\ stood \in [Ops -> SUBSET Claims]
      /\ revs \in Revisions /\ Past(revs) /\ R!Existing \in SUBSET Claims /\ Standing \in SUBSET Claims
  BY GateConstants DEF GateInv, TypeOK, Ops, Records, ArtifactRecords, ArtifactInv, R!Existing, Standing
<1>1. /\ call' = [call EXCEPT ![o] = record] /\ artifacts[a].status # "none" /\ call[o].pc = "start"
      /\ stood' = [stood EXCEPT ![o] = Standing]
      /\ UNCHANGED <<doc, cards, claims, artifacts, approved, outdated>>
  BY DEF StartValidate, Becomes
<1>2. At("loadPinned") \in CallRecords
  BY BlankType DEF PCs
<1>3. record \in CallRecords
  <2>0. [At("loadPinned") EXCEPT !.request = todo] \in CallRecords
    BY <1>2, CallUpdates
  <2>1. [At("loadPinned") EXCEPT !.request = todo, !.todo = todo] \in CallRecords
    BY <2>0, CallUpdates
  <2>2. [At("loadPinned") EXCEPT !.request = todo, !.todo = todo, !.artifact = a] \in CallRecords
    BY <2>1, CallUpdates
  <2>3. [At("loadPinned") EXCEPT !.request = todo, !.todo = todo, !.artifact = a, !.target = t] \in CallRecords
    BY <2>2, CallUpdates
  <2>4. [At("loadPinned") EXCEPT !.request = todo, !.todo = todo, !.artifact = a, !.target = t, !.pins = revs]
          \in CallRecords
    BY <1>0, <2>3, CallUpdates
  <2>5. QED BY <1>0, <2>4, CallUpdates
<1>4. /\ call'[o].pc = "loadPinned" /\ call'[o].pins = revs /\ call'[o].seen = NothingRead /\ call'[o].artifact = a
      /\ call'[o].todo = todo /\ call'[o].request = todo /\ call'[o].listed = R!Existing
      /\ \A p \in Ops \ {o} : call'[p] = call[p]
  BY <1>0, <1>1 DEF At
<1> HIDE DEF record
<1>5. NothingRead.revs = NoRevisions /\ NothingRead.active = {} /\ \A x \in Records : NoRevisions[x] = None
  BY DEF NothingRead, NoRevisions
<1>6. TypeOK'
  BY <1>0, <1>1, <1>3 DEF TypeOK, R!TypeOK
<1>7. R!Existing' = R!Existing /\ R!Active' = R!Active
  BY <1>1 DEF R!Existing, R!Active
<1>8. Reading(o)'
  <2>1. Past(call[o].pins)'
    BY <1>0, <1>1, <1>4, <1>7 DEF Past
  <2>2. QED BY <1>0, <1>1, <1>4, <1>5, <1>7, <2>1 DEF Reading, Past
<1>9. Verdicts(o)'
  <2> SUFFICES ASSUME NEW c \in Claims, c \notin stood'[o], revs[c] # None PROVE Fails(o, c)'
    BY <1>0, <1>4, <1>5 DEF Verdicts, Excused
  <2>1. c \in R!Existing /\ c \notin Standing
    BY <1>0, <1>1 DEF Past
  <2>2. ~Stands(cards, claims[c].links, R!Active)
    BY <2>1, StandingStands
  <2>3. ViewLinks(o, c)' = claims[c].links /\ ViewActive(o)' \subseteq R!Active
    BY <1>0, <1>1, <1>4, <1>5, <1>7 DEF ViewLinks, ViewActive
  <2>4. ~Stands(cards', ViewLinks(o, c)', ViewActive(o)')
    BY <1>1, <2>2, <2>3, StandsLess
  <2>5. QED BY <2>4 DEF Fails
<1>10. CallInv(o)'
  BY <1>0, <1>1, <1>4, <1>7, <1>8, <1>9 DEF CallInv, ValidationSteps
<1>11. \A p \in Ops \ {o} : stood'[p] = stood[p]
  BY <1>0, <1>1
<1>12. QED BY <1>0, <1>1, <1>4, <1>6, <1>10, <1>11, StepKeeps

\* A validation ends.
LEMMA ValidateKeeps ==
    ASSUME GateInv, NEW o \in Validations, NEW other \in Outcomes, Validate(o, other)
    PROVE  GateInv'
<1> DEFINE record == [call[o] EXCEPT !.pc = "valid", !.seen = NothingRead]
<1>0. /\ o \in Ops /\ o \notin Generations /\ TypeOK /\ CallInv(o) /\ call \in [Ops -> CallRecords] /\ call[o] \in CallRecords
      /\ call[o].target \in Targets
  BY CallTypes, GateConstants DEF GateInv, TypeOK, Ops
<1>1. call[o].pc = "validate" /\ UNCHANGED <<doc, cards, claims, artifacts, approved, stood, outdated>>
  BY DEF Validate, Becomes
<1>2. CASE call' = [call EXCEPT ![o] = At("done")]
  BY <1>0, <1>1, <1>2, EndKeeps
<1>3. CASE /\ call' = [call EXCEPT ![o] = record]
           /\ ~GateFails(call[o].seen, call[o].target, other)
           /\ call[o].seen.revs = artifacts[call[o].artifact].revs
  <2>1. call[o].seen.revs = call[o].pins /\ call[o].todo = {} /\ call[o].listed \subseteq call[o].seen.all
    BY <1>0, <1>1, <1>3 DEF CallInv
  <2>2. NoRevisions \in Revisions
    BY DEF NoRevisions, Revisions
  <2>3. NothingRead \in Snapshots
    BY <2>2 DEF NothingRead, Snapshots
  <2>4. [call[o] EXCEPT !.pc = "valid"] \in CallRecords
    BY <1>0, CallUpdates DEF PCs
  <2>5. record \in CallRecords
    BY <2>3, <2>4, CallUpdates
  <2>6. /\ call'[o].pc = "valid" /\ call'[o].pins = call[o].pins /\ call'[o].target = call[o].target
        /\ call'[o].listed = call[o].listed /\ \A p \in Ops \ {o} : call'[p] = call[p]
    BY <1>0, <1>3 DEF CallRecords
  <2> HIDE DEF record
  <2>7. TypeOK'
    BY <1>0, <1>1, <1>3, <2>5 DEF TypeOK, R!TypeOK
  <2>8. R!Existing' = R!Existing
    BY <1>1 DEF R!Existing
  <2>9. CallInv(o)'
    BY <1>0, <2>6, <2>8 DEF CallInv, ValidationSteps
  <2>10. call[o].target # "exploratory" => Selected(call[o].pins) \subseteq stood[o]
    BY <1>0, <1>1, <1>3, <2>1, GatesFind DEF Excused
  <2>11. call[o].target = "submission_candidate" => call[o].listed \subseteq Selected(call[o].pins)
    BY <1>3, <2>1 DEF GateFails
  <2>12. QED BY <1>0, <1>1, <2>6, <2>7, <2>9, <2>10, <2>11, StepKeeps
<1>4. QED BY <1>2, <1>3 DEF Validate, Becomes

----------------------------------------------------------------------------
(***************************************************************************)
(* The theorems.                                                           *)
(***************************************************************************)
LEMMA InitInv == Init => GateInv
<1> SUFFICES ASSUME Init PROVE GateInv
  OBVIOUS
<1>1. At("start") \in CallRecords
  BY BlankType DEF PCs
<1>2. R!TypeOK
  BY DEF Init, R!Init, R!TypeOK, R!Documents, R!CardRecords, R!ClaimRecords
<1>3. NoRevisions \in Revisions /\ \A x \in Records : NoRevisions[x] = None
  BY DEF NoRevisions, Revisions
<1>4. TypeOK
  BY <1>1, <1>2, <1>3 DEF Init, TypeOK, ArtifactRecords
<1>5. \A c \in Claims : CardsStored(claims[c].links)
  BY DEF Init, R!Init, CardsStored
<1>6. ASSUME NEW o \in Ops PROVE CallInv(o)
  <2>1. /\ call[o].pc = "start" /\ call[o].pins = NoRevisions /\ call[o].seen.revs = NoRevisions
        /\ call[o].todo = {} /\ call[o].request = {} /\ call[o].listed = {} /\ call[o].seen.active = {}
        /\ o \in Generations => outdated[o] = {}
    BY DEF Init, At, NothingRead
  <2>2. Claims \subseteq Records /\ Cards \subseteq Records
    BY DEF Records
  <2>3. Reading(o) /\ Verdicts(o)
    BY <1>3, <2>1, <2>2 DEF Reading, Past, Verdicts
  <2>4. QED BY <2>1, <2>3 DEF CallInv, GenerationSteps, ValidationSteps
<1>7. ASSUME NEW o \in Generations PROVE ArtifactInv(o)
  <2>1. Claims \subseteq Records
    BY DEF Records
  <2>2. QED BY <1>3, <2>1 DEF Init, ArtifactInv, Past
<1>8. CreatedStood /\ ValidatedStood
  BY DEF Init, CreatedStood, ValidatedStood, At, Ops
<1>9. QED BY <1>4, <1>5, <1>6, <1>7, <1>8 DEF GateInv

\* Every step preserves the invariant, one case per kind of step.
LEMMA NextInv == GateInv /\ [Next]_vars => GateInv'
<1> SUFFICES ASSUME GateInv, [Next]_vars PROVE GateInv'
  OBVIOUS
<1>1. CASE UNCHANGED vars
  <2>1. UNCHANGED <<doc, cards, claims, artifacts, approved, call, stood, outdated>>
    BY <1>1 DEF vars
  <2>2. RecordsGrow
    BY <2>1, SameGrow DEF GateInv, TypeOK
  <2>3. \A p \in Ops : CallInv(p)'
    BY <2>1, <2>2, CallKeeps
  <2>4. TypeOK'
    BY <2>1, <2>2 DEF GateInv, TypeOK, RecordsGrow
  <2>5. \A a \in Generations : ArtifactInv(a)'
    BY <2>1 DEF GateInv, ArtifactInv, Past, R!Existing
  <2>6. CreatedStood' /\ ValidatedStood'
    BY <2>1 DEF GateInv, CreatedStood, ValidatedStood, Selected
  <2>7. QED BY <2>2, <2>3, <2>4, <2>5, <2>6 DEF GateInv, RecordsGrow
<1>2. CASE Others
  BY <1>2, OthersKeep
<1>3. CASE \E o \in Ops : Loading(o)
  BY <1>3, LoadedKeeps, ReadKeeps DEF Loading
<1>4. ASSUME NEW o \in Generations, Generation(o) PROVE GateInv'
  <2>1. CASE CreateNothing(o)
    BY <2>1, EndKeeps DEF CreateNothing, Becomes, Ops
  <2>2. CASE Confirm(o) \/ \E other \in Outcomes : Evaluate(o, other)
    BY <2>2, PrepareKeeps
  <2>3. CASE \E S \in SUBSET Records, t \in Targets : StartArtifact(o, S, t)
    BY <2>3, StartKeeps
  <2>4. CASE \E other \in Outcomes : CreateArtifact(o, other)
    BY <2>4, CreateKeeps
  <2>5. QED BY <1>4, <2>1, <2>2, <2>3, <2>4 DEF Generation
<1>5. ASSUME NEW o \in Validations, Validation(o) PROVE GateInv'
  <2>1. CASE \E x \in Records : LoadConflict(o, x)
    BY <2>1, EndKeeps DEF LoadConflict, Becomes, Ops
  <2>2. CASE \E a \in Generations, t \in Targets : StartValidate(o, a, t)
    BY <2>2, StartValidateKeeps
  <2>3. CASE \E other \in Outcomes : Validate(o, other)
    BY <2>3, ValidateKeeps
  <2>4. QED BY <1>5, <2>1, <2>2, <2>3 DEF Validation
<1>6. QED BY <1>1, <1>2, <1>3, <1>4, <1>5 DEF Next

\* The invariant the theorems below rest on.
THEOREM GateInvariant == Spec => []GateInv
  BY InitInv, NextInv, PTL DEF Spec

\* Records, artifacts and calls have their types throughout.
THEOREM GateTypes == Spec => []TypeOK
<1>1. GateInv => TypeOK
  BY DEF GateInv
<1>2. QED BY <1>1, GateInvariant, PTL

\* Every claim of an artifact that passed the gates stood when it was read, though
\* its evidence was read later and both may have changed since; only where a request
\* puts evidence before a claim may that evidence have lost its validity in between.
THEOREM ArtifactClaimsStood == Spec => []CreatedStood
<1>1. GateInv => CreatedStood
  BY DEF GateInv
<1>2. QED BY <1>1, GateInvariant, PTL

\* The claims of an artifact that was found valid stood together when its validation
\* began, and those of a candidate were all there were.
THEOREM ValidArtifactsStood == Spec => []ValidatedStood
<1>1. GateInv => ValidatedStood
  BY DEF GateInv
<1>2. QED BY <1>1, GateInvariant, PTL

=============================================================================
