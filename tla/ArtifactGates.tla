----------------------------- MODULE ArtifactGates -----------------------------
(***************************************************************************)
(* Artifacts made of claims and the gates they pass                        *)
(* (research-agent/src/tools/artifacts.ts, artifacts/gates.ts and          *)
(* artifactTool of extension/tools.ts).                                    *)
(*                                                                         *)
(* The records are those of EvidenceRecords, which other calls change at   *)
(* any time while an artifact's inputs are read one by one; EvidenceLedger *)
(* shows that their tools implement it.  An artifact is a review of some   *)
(* claims and bears the id of the call that makes it.  A call that stops   *)
(* for good has crashed.  The checks of the sources, citations and files   *)
(* have an arbitrary outcome; so do the commits of records that nothing    *)
(* here reads (the operation's inputs, the written file).  A request names *)
(* any of these records in any order, without a revision (one that is not  *)
(* current is refused).  Manuscripts, whose gate is a report, are left     *)
(* out, and so are the kinds of record no gate looks at.                   *)
(***************************************************************************)
EXTENDS Naturals

CONSTANTS Generations, \* tool calls that generate an artifact
          Validations, \* tool calls that validate one
          Cards, Claims, Texts, Relations, MaxRevision,
          Doc,         \* the document, as a record
          None

Ops == Generations \cup Validations
Records == Cards \cup Claims \cup {Doc}

ASSUME GateConstants ==
    /\ Relations \subseteq {"supports", "qualifies", "refutes", "context_only"}
    /\ MaxRevision \in Nat
    /\ Generations \cap Validations = {}
    /\ None \notin Ops \cup Cards \cup Claims \cup Texts \cup Nat
    /\ Doc \notin Cards \cup Claims
    /\ Cards \cap Claims = {}

VARIABLES
    doc, cards, claims, \* the records, as in EvidenceRecords
    artifacts, \* generation -> its artifact
    approved,  \* generations whose submission candidate the user confirmed
    call,      \* call -> its next step and its variables
    stood,     \* call -> the claims that stood when it read them (a generation)
               \*         or when it began (a validation)
    outdated   \* generation -> the claims it read when a card of theirs, which it had
               \*         read as active, was not active any more

vars == <<doc, cards, claims, artifacts, approved, call, stood, outdated>>

R == INSTANCE EvidenceRecords

----------------------------------------------------------------------------
Targets == {"exploratory", "evidence_checked", "submission_candidate"}
PCs == {"start", "load", "evaluate", "ask", "create", "loadPinned", "validate", "valid", "done"}

Revisions == [Records -> Nat \cup {None}]
Snapshots == [revs : Revisions, links : [Claims -> SUBSET R!Links], active : SUBSET Cards, all : SUBSET Claims]
ArtifactRecords == [status : Targets \cup {"none", "blocked"}, revs : Revisions]
CallRecords ==
    [pc : PCs, request : SUBSET Records, target : Targets, artifact : Generations \cup {None},
     pins : Revisions, todo : SUBSET Records, seen : Snapshots, listed : SUBSET Claims]

TypeOK ==
    /\ R!TypeOK
    /\ artifacts \in [Generations -> ArtifactRecords]
    /\ approved \subseteq Generations
    /\ call \in [Ops -> CallRecords]
    /\ stood \in [Ops -> SUBSET Claims]
    /\ outdated \in [Generations -> SUBSET Claims]

NoRevisions == [x \in Records |-> None]
NothingRead == [revs |-> NoRevisions, links |-> [c \in Claims |-> {}], active |-> {}, all |-> {}]
At(step) == [pc |-> step, request |-> {}, target |-> "exploratory", artifact |-> None,
             pins |-> NoRevisions, todo |-> {}, seen |-> NothingRead, listed |-> {}]

Init ==
    /\ R!Init
    /\ artifacts = [o \in Generations |-> [status |-> "none", revs |-> NoRevisions]]
    /\ approved = {}
    /\ call = [o \in Ops |-> At("start")]
    /\ stood = [o \in Ops |-> {}]
    /\ outdated = [o \in Generations |-> {}]

Becomes(o, from, record) == call[o].pc = from /\ call' = [call EXCEPT ![o] = record]
Moves(o, from, to) == Becomes(o, from, [call[o] EXCEPT !.pc = to])

Revision(x) ==
    IF x = Doc THEN doc.rev ELSE IF x \in Cards THEN cards[x].rev ELSE claims[x].rev

\* What the gates are for: the claims that stand in the project as it is.  An active
\* located card supports or qualifies them, and if one refutes them, another
\* supports them.
Standing ==
    {c \in R!Existing :
        LET links == claims[c].links
            relations == {l.relation : l \in links} IN
        /\ \E l \in links : /\ l.relation \in {"supports", "qualifies"}
                            /\ l.card \in R!Active
                            /\ cards[l.card].draft.text # None
        /\ "refutes" \in relations => "supports" \in relations}

----------------------------------------------------------------------------
(***************************************************************************)
(* The gates, on a snapshot of the claims and their evidence.              *)
(***************************************************************************)
Selected(revs) == {c \in Claims : revs[c] # None}

\* deriveClaimSupportStatus
SupportStatus(links) ==
    LET relations == {l.relation : l \in links} IN
    CASE relations = {} -> "unsupported"
      [] {"supports", "refutes"} \subseteq relations -> "mixed"
      [] "refutes" \in relations /\ "supports" \notin relations -> "contradicted"
      [] "refutes" \notin relations /\ "qualifies" \in relations -> "partially_supported"
      [] "refutes" \notin relations /\ "qualifies" \notin relations /\ "supports" \in relations -> "supported"
      [] OTHER -> "unassessed"

\* Mutant: the validity of a card is not looked at.
LocatesAny(e, active) == cards[e].draft.text # None

\* locatedEvidence
Locates(e, active) == e \in active /\ cards[e].draft.text # None

\* claimSupportCheck and the check of located evidence
ClaimPasses(links, active) ==
    /\ SupportStatus(links) \in {"supported", "partially_supported", "mixed"}
    /\ \E l \in links : l.relation \in {"supports", "qualifies"} /\ Locates(l.card, active)

\* Mutant: the claims of the project are not looked at.
GateFailsInScope(s, t, other) ==
    /\ t # "exploratory"
    /\ \/ Selected(s.revs) = {}
       \/ \E c \in Selected(s.revs) : ~ClaimPasses(s.links[c], s.active)
       \/ other = "failed"

\* What of evaluateArtifactGates fails.  A submission candidate must be made of
\* all claims of the project.
GateFails(s, t, other) ==
    /\ t # "exploratory"
    /\ \/ Selected(s.revs) = {}
       \/ \E c \in Selected(s.revs) : ~ClaimPasses(s.links[c], s.active)
       \/ t = "submission_candidate" /\ (s.all = {} \/ ~(s.all \subseteq Selected(s.revs)))
       \/ other = "failed"

\* What warns: a claim that nobody has reviewed does in a submission candidate.
GateWarns(s, t, other) ==
    /\ t # "exploratory"
    /\ \/ \E c \in Selected(s.revs) : SupportStatus(s.links[c]) = "mixed"
       \/ t = "submission_candidate"
       \/ other = "warning"

GateStatus(s, t, other, accepted) ==
    IF GateFails(s, t, other) THEN "failed"
    ELSE IF GateWarns(s, t, other) /\ ~accepted THEN "passed_with_warnings"
    ELSE "passed"

\* The outcome of the checks of sources, citations and files.
Outcomes == {"passed", "warning", "failed"}

\* actualPublishability
Publishability(t, status) ==
    IF status = "failed" \/ (t = "submission_candidate" /\ status # "passed") THEN "blocked" ELSE t

----------------------------------------------------------------------------
(***************************************************************************)
(* loadArtifactSnapshot reads the records of the request and what they     *)
(* rest on one by one.                                                     *)
(***************************************************************************)
\* enqueueDependencies
Dependencies(x) ==
    IF x \in Claims THEN {l.card : l \in claims[x].links}
    ELSE IF x \in Cards /\ cards[x].draft.text # None THEN {Doc} ELSE {}

\* A record that is not the expected revision is a conflict.
Matches(o, x) == call[o].pins[x] \in {None, Revision(x)}

\* A queue: the records of the request, in whatever order it names them, then
\* what they rest on, which is put at the end.
Read(o, x) ==
    LET s == call[o].seen
        revs == [s.revs EXCEPT ![x] = Revision(x)]
        seen == [revs |-> revs,
                 links |-> IF x \in Claims THEN [s.links EXCEPT ![x] = claims[x].links] ELSE s.links,
                 active |-> IF x \in R!Active THEN s.active \cup {x} ELSE s.active,
                 all |-> {}]
        todo == (call[o].todo \cup Dependencies(x)) \ {y \in Records : revs[y] # None} IN
    /\ x \in call[o].todo
    /\ x \in call[o].request \/ call[o].todo \cap call[o].request = {}
    /\ call' = [call EXCEPT ![o] = [call[o] EXCEPT !.seen = seen, !.todo = todo]]

\* The cards of a claim that the call took for active and that are not any more.
OutdatedCards(o, c) == {l.card : l \in claims[c].links} \cap (call[o].seen.active \ R!Active)

Load(o, x) ==
    /\ call[o].pc \in {"load", "loadPinned"}
    /\ Matches(o, x)
    /\ Read(o, x)
    /\ stood' = IF call[o].pc = "load" /\ x \in Standing THEN [stood EXCEPT ![o] = @ \cup {x}] ELSE stood
    /\ outdated' = IF call[o].pc = "load" /\ x \in Claims /\ OutdatedCards(o, x) # {}
                     THEN [outdated EXCEPT ![o] = @ \cup {x}] ELSE outdated
    /\ UNCHANGED <<doc, cards, claims, artifacts, approved>>

LoadConflict(o, x) ==
    /\ Becomes(o, "loadPinned", At("done"))
    /\ x \in call[o].todo
    /\ ~Matches(o, x)
    /\ UNCHANGED <<doc, cards, claims, artifacts, approved, stood, outdated>>

\* Last, the claims of the project are listed.
Loaded(o) ==
    LET seen == [call[o].seen EXCEPT !.all = R!Existing] IN
    /\ call[o].todo = {}
    /\ \/ Becomes(o, "load", [call[o] EXCEPT !.pc = "evaluate", !.seen = seen])
       \/ Becomes(o, "loadPinned", [call[o] EXCEPT !.pc = "validate", !.seen = seen])
    /\ UNCHANGED <<doc, cards, claims, artifacts, approved, stood, outdated>>

----------------------------------------------------------------------------
(***************************************************************************)
(* Generation.                                                             *)
(***************************************************************************)
StartArtifact(o, S, t) ==
    /\ S \subseteq R!Existing \cup R!Stored \cup {Doc}
    /\ S # {}
    /\ Becomes(o, "start", [At("load") EXCEPT !.request = S, !.todo = S, !.target = t])
    /\ UNCHANGED <<doc, cards, claims, artifacts, approved, stood, outdated>>

\* prepareArtifact: a candidate that does not fail is shown to the user.
Evaluate(o, other) ==
    LET shown == /\ call[o].target = "submission_candidate"
                 /\ GateStatus(call[o].seen, call[o].target, other, FALSE) # "failed" IN
    /\ Moves(o, "evaluate", IF shown THEN "ask" ELSE "create")
    /\ UNCHANGED <<doc, cards, claims, artifacts, approved, stood, outdated>>

\* approveAction
Confirm(o) ==
    /\ Moves(o, "ask", "create")
    /\ approved' = approved \cup {o}
    /\ UNCHANGED <<doc, cards, claims, artifacts, stood, outdated>>

\* commitPreparedArtifact evaluates the gates again, on the snapshot.  A candidate
\* that now passes but was not shown to the user is refused.
CreateArtifact(o, other) ==
    LET status == GateStatus(call[o].seen, call[o].target, other, o \in approved) IN
    /\ Becomes(o, "create", [At("done") EXCEPT !.request = call[o].request])
    /\ call[o].target = "submission_candidate" /\ status # "failed" => o \in approved
    /\ artifacts' = [artifacts EXCEPT ![o] =
                       [status |-> Publishability(call[o].target, status), revs |-> call[o].seen.revs]]
    /\ UNCHANGED <<doc, cards, claims, approved, stood, outdated>>

\* Nothing is created: an input file or the project has changed, the user refuses,
\* the candidate was not confirmed, or there is such an artifact already.
CreateNothing(o) ==
    /\ \E from \in {"evaluate", "ask", "create"} : Becomes(o, from, At("done"))
    /\ UNCHANGED <<doc, cards, claims, artifacts, approved, stood, outdated>>

----------------------------------------------------------------------------
(***************************************************************************)
(* validateArtifact: the records are read again, with the revisions the    *)
(* artifact was made of.                                                   *)
(***************************************************************************)
StartValidate(o, a, t) ==
    LET revs == artifacts[a].revs
        S == {x \in Records : revs[x] # None} IN
    /\ artifacts[a].status # "none"
    /\ Becomes(o, "start", [At("loadPinned") EXCEPT !.request = S, !.todo = S, !.artifact = a, !.target = t,
                                                    !.pins = revs, !.listed = R!Existing])
    /\ stood' = [stood EXCEPT ![o] = Standing]
    /\ UNCHANGED <<doc, cards, claims, artifacts, approved, outdated>>

\* The aggregate hash and the confirmation are checked besides the gates.
Validate(o, other) ==
    LET passed == /\ ~GateFails(call[o].seen, call[o].target, other)
                  /\ call[o].seen.revs = artifacts[call[o].artifact].revs
                  /\ call[o].target = "submission_candidate" => call[o].artifact \in approved IN
    /\ Becomes(o, "validate",
               IF passed THEN [call[o] EXCEPT !.pc = "valid", !.seen = NothingRead] ELSE At("done"))
    /\ UNCHANGED <<doc, cards, claims, artifacts, approved, stood, outdated>>

----------------------------------------------------------------------------
\* The other tools change the records.
Others == R!Next /\ UNCHANGED <<artifacts, approved, call, stood, outdated>>

Generation(o) ==
    \/ \E S \in SUBSET Records, t \in Targets : StartArtifact(o, S, t)
    \/ Confirm(o) \/ CreateNothing(o)
    \/ \E other \in Outcomes : Evaluate(o, other) \/ CreateArtifact(o, other)

Validation(o) ==
    \/ \E a \in Generations, t \in Targets : StartValidate(o, a, t)
    \/ \E x \in Records : LoadConflict(o, x)
    \/ \E other \in Outcomes : Validate(o, other)

Loading(o) == Loaded(o) \/ \E x \in Records : Load(o, x)

Next ==
    \/ Others
    \/ \E o \in Ops : Loading(o)
    \/ \E o \in Generations : Generation(o)
    \/ \E o \in Validations : Validation(o)

Spec == Init /\ [][Next]_vars

----------------------------------------------------------------------------
(***************************************************************************)
(* Properties.                                                             *)
(***************************************************************************)
\* Claims, cards and the document are read at different moments.  Still, every claim
\* of an artifact that passed the gates rested on active, located evidence in the
\* project at the moment that it was read; the one exception is a claim of which a
\* card had been read before and was invalidated or superseded since, and only a
\* request that names evidence can bring that about.
CreatedStood ==
    \A o \in Generations : artifacts[o].status \in {"evidence_checked", "submission_candidate"} =>
        /\ Selected(artifacts[o].revs) \subseteq stood[o] \cup outdated[o]
        /\ outdated[o] # {} => call[o].request \cap Cards # {}

\* An artifact that is found valid is one whose claims all stood together, at the
\* start of the validation, and a candidate then had all claims of the project,
\* whatever was committed while its inputs were read for the second time.
ValidatedStood ==
    \A o \in Validations : call[o].pc = "valid" /\ call[o].target # "exploratory" =>
        /\ Selected(call[o].pins) \subseteq stood[o]
        /\ call[o].target = "submission_candidate" => call[o].listed \subseteq Selected(call[o].pins)

=============================================================================
