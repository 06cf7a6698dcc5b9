---------------------------- MODULE EvidenceRecords ----------------------------
(***************************************************************************)
(* What the records of a project promise those who read them: the document *)
(* of a source, the evidence cards taken from the source and the claims    *)
(* that link them.  One step is one commit, whoever makes it.              *)
(*                                                                         *)
(* The text of the document is what its parsed output holds; a located     *)
(* card quotes a text, others (text None) are taken from the abstract.     *)
(* The draft of a card is what evidenceFingerprint covers; it asks for at  *)
(* most one link.                                                          *)
(***************************************************************************)
EXTENDS Naturals

CONSTANTS Cards,       \* evidence ids
          Claims,      \* claim ids
          Texts,       \* parsed outputs
          Relations,   \* the relations that drafts use
          MaxRevision, \* bound of the document's revision
          None

VARIABLES doc,     \* the document record
          cards,   \* the evidence records
          claims   \* the claim records

vars == <<doc, cards, claims>>

----------------------------------------------------------------------------
Links == [card : Cards, relation : Relations]
LinkRequests == [claim : Claims, relation : Relations]
CardDrafts ==
    [text : Texts \cup {None}, link : LinkRequests \cup {None}, supersedes : Cards \cup {None}]
Documents == [rev : Nat, text : Texts \cup {None}]
CardRecords ==
    [validity : {"none", "active", "superseded", "invalidated"}, rev : Nat, draft : CardDrafts \cup {None}]
ClaimRecords == [exists : {"no", "yes"}, rev : Nat, links : SUBSET Links]

TypeOK ==
    /\ doc \in Documents
    /\ cards \in [Cards -> CardRecords]
    /\ claims \in [Claims -> ClaimRecords]

\* Neither cards nor claims yet; the document may have been parsed.
Init ==
    /\ doc \in [rev : {0}, text : Texts \cup {None}]
    /\ cards = [e \in Cards |-> [validity |-> "none", rev |-> 0, draft |-> None]]
    /\ claims = [c \in Claims |-> [exists |-> "no", rev |-> 0, links |-> {}]]

Existing == {c \in Claims : claims[c].exists = "yes"}
Stored == {e \in Cards : cards[e].validity # "none"}
Active == {e \in Cards : cards[e].validity = "active"}

----------------------------------------------------------------------------
\* A card is created, and the card it supersedes is active until then.
Store(e, d) ==
    LET created == [cards EXCEPT ![e] = [validity |-> "active", rev |-> 0, draft |-> d]] IN
    cards' = IF d.supersedes = None THEN created
             ELSE [created EXCEPT ![d.supersedes].validity = "superseded", ![d.supersedes].rev = @ + 1]

\* The draft agrees with the records: its excerpt is in the document, its claim
\* exists, what it supersedes is active, and no active card says the same.
Agrees(d) ==
    /\ d.text # None => doc.text = d.text
    /\ d.link # None => d.link.claim \in Existing
    /\ d.supersedes # None => d.supersedes \in Active
    /\ \A f \in Active : cards[f].draft # d

CreateCard(e, d) ==
    /\ e \notin Stored
    /\ Agrees(d)
    /\ Store(e, d)
    /\ UNCHANGED <<doc, claims>>

InvalidateCard(e) ==
    /\ e \in Active
    /\ cards' = [cards EXCEPT ![e].validity = "invalidated", ![e].rev = @ + 1]
    /\ UNCHANGED <<doc, claims>>

\* A new claim rests on active evidence, each card linked once.
CreateClaim(c, links) ==
    /\ c \notin Existing
    /\ {l.card : l \in links} \subseteq Active
    /\ \A k, l \in links : k.card = l.card => k = l
    /\ claims' = [claims EXCEPT ![c] = [exists |-> "yes", rev |-> 0, links |-> links]]
    /\ UNCHANGED <<doc, cards>>

\* A card, which may have been replaced meanwhile, is linked to its claim.
AddLink(c, e, relation) ==
    /\ c \in Existing
    /\ e \in Stored
    /\ \A l \in claims[c].links : l.card # e
    /\ claims' = [claims EXCEPT ![c].links = @ \cup {[card |-> e, relation |-> relation]},
                                ![c].rev = @ + 1]
    /\ UNCHANGED <<doc, cards>>

\* The document is fetched or parsed again.
UpdateDocument(text) ==
    /\ doc.rev < MaxRevision
    /\ doc' = [rev |-> doc.rev + 1, text |-> text]
    /\ UNCHANGED <<cards, claims>>

Next ==
    \/ \E e \in Cards, d \in CardDrafts : CreateCard(e, d)
    \/ \E e \in Cards : InvalidateCard(e)
    \/ \E c \in Claims, links \in SUBSET Links : CreateClaim(c, links)
    \/ \E c \in Claims, e \in Cards, relation \in Relations : AddLink(c, e, relation)
    \/ \E text \in Texts \cup {None} : UpdateDocument(text)

Spec == Init /\ [][Next]_vars

----------------------------------------------------------------------------
\* No two active cards say the same.
OneActivePerFingerprint ==
    \A e, f \in Active : cards[e].draft = cards[f].draft => e = f

Successors(e) == {f \in Stored : cards[f].draft.supersedes = e}

\* A card that was superseded has exactly one successor, any other card none.
SupersededByOne ==
    \A e \in Cards :
        IF cards[e].validity = "superseded" THEN \E f \in Cards : Successors(e) = {f} ELSE Successors(e) = {}

=============================================================================
