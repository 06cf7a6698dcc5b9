------------------------ MODULE ProjectTransactions ------------------------
(***************************************************************************)
(* Journaled multi-file transactions of a research project                 *)
(* (packages/research-agent/src/project/transactions.ts).                  *)
(*                                                                         *)
(* A transaction replaces, creates or deletes a set of canonical files and *)
(* writes the project manifest last.  Its directory                        *)
(* .research/transactions/pending/<id> holds the staged contents, backups  *)
(* of the old contents and, once complete, the journal.  No lock protects  *)
(* the project: sessions are separate processes, any of which may die      *)
(* between two file-system steps.                                          *)
(*                                                                         *)
(* A file content is identified with its SHA-256 hash, None is a missing   *)
(* file.  The entries of transaction t are the paths on which new[t] and   *)
(* old[t] differ: callers never submit a write that changes nothing (a     *)
(* record update increments its revision, brokerProjectFile returns early).*)
(* Backups hold old[t] and are never changed after their hash check, so    *)
(* they need no variable.  All entries fit one batch of                    *)
(* TRANSACTION_IO_BATCH_SIZE; the entries of a batch run concurrently, in  *)
(* any order.  Hash check, read and atomic replacement of one entry are    *)
(* one step.                                                               *)
(***************************************************************************)
EXTENDS Naturals

CONSTANTS Sessions,      \* processes that have the project open
          Paths,         \* canonical files other than the manifest
          Hashes,        \* contents of files, by hash
          None,          \* the hash of a missing file (null)
          Manifest,      \* the manifest's entry in a journal
          Tx,            \* transaction ids, each used once
          NoTx,
          RecoverFirst,  \* TRUE: callers resolve a pending journal before the
                         \* next transaction; the code does not force them to
          MaxEdits       \* bound on file changes made outside the program

ASSUME TransactionConstants ==
    /\ None \notin Hashes
    /\ Manifest \notin Paths
    /\ NoTx \notin Tx
    /\ RecoverFirst \in BOOLEAN
    /\ MaxEdits \in Nat

VARIABLES
    files,     \* canonical files: path -> hash or None
    manifest,  \* content of research-project.json: revision and its writer
    dir,       \* where the transaction's directory is, and how complete
    base,      \* expectedRevision of a transaction
    old,       \* contents its caller saw (expectedHash, then oldHash)
    new,       \* contents it installs (newHash)
    manOld,    \* oldHash of its manifest entry
    staged,    \* files present in its staged/ directory
    pc,        \* step of the call a session is executing
    cur,       \* transaction of that call
    todo,      \* entries of the current batch that are not settled
    broken,    \* an entry of the batch was rejected
    edits      \* outside changes so far

disk == <<files, manifest>>
input == <<base, old, new>>
work == <<dir, manOld, staged>>
call == <<pc, cur, todo, broken>>
vars == <<disk, input, work, call, edits>>

----------------------------------------------------------------------------
Contents == Hashes \cup {None}
Entry == Paths \cup {Manifest}
ManifestContent == [rev : Nat, by : Tx \cup {NoTx}]

\* unused: no call yet; called: no directory; preparing: a directory without
\* transaction.json; pending: a directory with its journal.
DirStates == {"unused", "called", "preparing", "pending", "committed", "failed"}
Steps == {"idle", "called", "staging", "commit", "apply", "verify",
          "rollback", "restore"}

Writes(t) == {p \in Paths : new[t][p] # old[t][p]}

\* Mutant: the revision is not advanced.
NewManifestSameRevision(t) == [rev |-> base[t], by |-> t]

\* The manifest transaction t installs: same project, revision + 1.
NewManifest(t) == [rev |-> base[t] + 1, by |-> t]

\* "new" is tested before "old", everything else is "other".
FileState(t, p) == IF files[p] = new[t][p] THEN "new"
                   ELSE IF files[p] = old[t][p] THEN "old" ELSE "other"

ManifestState(t) == IF manifest = NewManifest(t) THEN "new"
                    ELSE IF manifest = manOld[t] THEN "old" ELSE "other"

AllEntries(t, state) == /\ ManifestState(t) = state
                        /\ \A p \in Writes(t) : FileState(t, p) = state

AnyOther(t) == \/ ManifestState(t) = "other"
               \/ \E p \in Writes(t) : FileState(t, p) = "other"

\* hashFile(staged) succeeds and equals newHash: the directory is still
\* pending and the staged file was not renamed away by an earlier commit.
StagedReadable(t, e) == dir[t] = "pending" /\ e \in staged[t]

TypeOK ==
    /\ files \in [Paths -> Contents]
    /\ manifest \in ManifestContent
    /\ dir \in [Tx -> DirStates]
    /\ base \in [Tx -> Nat]
    /\ old \in [Tx -> [Paths -> Contents]]
    /\ new \in [Tx -> [Paths -> Contents]]
    /\ manOld \in [Tx -> ManifestContent]
    /\ staged \in [Tx -> SUBSET Entry]
    /\ pc \in [Sessions -> Steps]
    /\ cur \in [Sessions -> Tx \cup {NoTx}]
    /\ todo \in [Sessions -> SUBSET Entry]
    /\ broken \in [Sessions -> BOOLEAN]
    /\ edits \in 0..MaxEdits

Init ==
    /\ files \in [Paths -> Contents]
    /\ manifest = [rev |-> 0, by |-> NoTx]
    /\ dir = [t \in Tx |-> "unused"]
    /\ base = [t \in Tx |-> 0]
    /\ old = [t \in Tx |-> [p \in Paths |-> None]]
    /\ new = [t \in Tx |-> [p \in Paths |-> None]]
    /\ manOld = [t \in Tx |-> manifest]
    /\ staged = [t \in Tx |-> {}]
    /\ pc = [s \in Sessions |-> "idle"]
    /\ cur = [s \in Sessions |-> NoTx]
    /\ todo = [s \in Sessions |-> {}]
    /\ broken = [s \in Sessions |-> FALSE]
    /\ edits = 0

----------------------------------------------------------------------------
(* Control of a call *)

Goto(s, step) ==
    /\ pc' = [pc EXCEPT ![s] = step]
    /\ UNCHANGED <<cur, todo, broken>>

Batch(s, step, entries) ==
    /\ pc' = [pc EXCEPT ![s] = step]
    /\ todo' = [todo EXCEPT ![s] = entries]
    /\ UNCHANGED <<cur, broken>>

\* Mutant: a settled entry stays in its batch.
SettleForgotten(s, e, rejected) ==
    /\ broken' = [broken EXCEPT ![s] = @ \/ rejected]
    /\ UNCHANGED <<pc, cur, todo>>

Settle(s, e, rejected) ==
    /\ todo' = [todo EXCEPT ![s] = @ \ {e}]
    /\ broken' = [broken EXCEPT ![s] = @ \/ rejected]
    /\ UNCHANGED <<pc, cur>>

\* The call returns, throws, or its process dies: its locals are gone.
Leave(s) ==
    /\ pc' = [pc EXCEPT ![s] = "idle"]
    /\ cur' = [cur EXCEPT ![s] = NoTx]
    /\ todo' = [todo EXCEPT ![s] = {}]
    /\ broken' = [broken EXCEPT ![s] = FALSE]

Throw(s) == Leave(s) /\ UNCHANGED <<disk, input, work, edits>>

----------------------------------------------------------------------------
(* Preparation *)

\* A caller opens the project, loads the files it will change and builds the
\* transaction from what it saw.
Call(s, t) ==
    /\ pc[s] = "idle"
    /\ dir[t] = "unused"
    /\ RecoverFirst => \A u \in Tx : dir[u] # "pending"
    /\ \E contents \in [Paths -> Contents] :
         new' = [new EXCEPT ![t] = contents]
    /\ old' = [old EXCEPT ![t] = files]
    /\ base' = [base EXCEPT ![t] = manifest.rev]
    /\ dir' = [dir EXCEPT ![t] = "called"]
    /\ pc' = [pc EXCEPT ![s] = "called"]
    /\ cur' = [cur EXCEPT ![s] = t]
    /\ UNCHANGED <<disk, manOld, staged, todo, broken, edits>>

\* openProject(expectedRevision) and the preflight hashes: a conflict throws
\* before anything is created.
Preflight(s) ==
    LET t == cur[s] IN
    /\ pc[s] = "called"
    /\ IF manifest.rev = base[t] /\ \A p \in Writes(t) : files[p] = old[t][p]
       THEN /\ dir' = [dir EXCEPT ![t] = "preparing"]
            /\ Batch(s, "staging", Writes(t) \cup {Manifest})
            /\ UNCHANGED <<disk, input, manOld, staged, edits>>
       ELSE Throw(s)

\* A file that must not exist is not hashed again; the others are, backed up
\* and staged.  A deletion stages nothing.
StageEntry(s, p) ==
    LET t == cur[s]
        conflict == old[t][p] # None /\ files[p] # old[t][p]
    IN
    /\ pc[s] = "staging"
    /\ p \in todo[s] \cap Paths
    /\ staged' = IF conflict \/ new[t][p] = None THEN staged
                 ELSE [staged EXCEPT ![t] = @ \cup {p}]
    /\ Settle(s, p, conflict)
    /\ UNCHANGED <<disk, input, dir, manOld, edits>>

\* Mutant: the new manifest is written to its target instead of staged/.
StageManifestInPlace(s) ==
    LET t == cur[s] IN
    /\ pc[s] = "staging"
    /\ Manifest \in todo[s]
    /\ manOld' = [manOld EXCEPT ![t] = manifest]
    /\ staged' = [staged EXCEPT ![t] = @ \cup {Manifest}]
    /\ manifest' = NewManifest(t)
    /\ Settle(s, Manifest, FALSE)
    /\ UNCHANGED <<files, input, dir, edits>>

\* The manifest has no expectedHash: whatever is there now is backed up.
StageManifest(s) ==
    LET t == cur[s] IN
    /\ pc[s] = "staging"
    /\ Manifest \in todo[s]
    /\ manOld' = [manOld EXCEPT ![t] = manifest]
    /\ staged' = [staged EXCEPT ![t] = @ \cup {Manifest}]
    /\ Settle(s, Manifest, FALSE)
    /\ UNCHANGED <<disk, input, dir, edits>>

\* settleBatch throws only when every entry has settled; otherwise the journal
\* is written and commitPreparedTransaction follows.
WriteJournal(s) ==
    /\ pc[s] = "staging"
    /\ todo[s] = {}
    /\ IF broken[s] THEN Throw(s)
       ELSE /\ dir' = [dir EXCEPT ![cur[s]] = "pending"]
            /\ Goto(s, "commit")
            /\ UNCHANGED <<disk, input, manOld, staged, edits>>

----------------------------------------------------------------------------
(* commitPreparedTransaction *)

\* No journal any more, a foreign content, a manifest without its files, or a
\* manifest whose revision is not the expected one.
CommitRefused(t) ==
    \/ dir[t] # "pending"
    \/ AnyOther(t)
    \/ ManifestState(t) = "new" /\ ~AllEntries(t, "new")
    \/ ManifestState(t) # "new" /\ manifest.rev # base[t]

CommitThrow(s) ==
    /\ pc[s] = "commit"
    /\ CommitRefused(cur[s])
    /\ Throw(s)

\* A crash after the manifest was written: only the move is left.
CommitFinish(s) ==
    LET t == cur[s] IN
    /\ pc[s] = "commit"
    /\ ~CommitRefused(t)
    /\ ManifestState(t) = "new"
    /\ dir' = [dir EXCEPT ![t] = "committed"]
    /\ Leave(s)
    /\ UNCHANGED <<disk, input, manOld, staged, edits>>

CommitBegin(s) ==
    LET t == cur[s] IN
    /\ pc[s] = "commit"
    /\ ~CommitRefused(t)
    /\ ManifestState(t) # "new"
    /\ Batch(s, "apply", {p \in Writes(t) : FileState(t, p) # "new"})
    /\ UNCHANGED <<disk, input, work, edits>>

\* Delete the target, or install the staged content: a created file is renamed
\* out of staged/, a replaced file is copied.
ApplyEntry(s, p) ==
    LET t == cur[s]
        rejected == new[t][p] # None /\ ~StagedReadable(t, p)
    IN
    /\ pc[s] = "apply"
    /\ p \in todo[s]
    /\ files' = IF rejected THEN files ELSE [files EXCEPT ![p] = new[t][p]]
    /\ staged' = IF rejected \/ old[t][p] # None THEN staged
                 ELSE [staged EXCEPT ![t] = @ \ {p}]
    /\ Settle(s, p, rejected)
    /\ UNCHANGED <<manifest, input, dir, manOld, edits>>

\* Mutant: the manifest is written without waiting for the files.
ApplyManifestEarly(s) ==
    LET t == cur[s] IN
    /\ pc[s] = "apply"
    /\ IF broken[s] \/ ~StagedReadable(t, Manifest) THEN Throw(s)
       ELSE /\ manifest' = NewManifest(t)
            /\ Goto(s, "verify")
            /\ UNCHANGED <<files, input, work, edits>>

ApplyManifest(s) ==
    LET t == cur[s] IN
    /\ pc[s] = "apply"
    /\ todo[s] = {}
    /\ IF broken[s] \/ ~StagedReadable(t, Manifest) THEN Throw(s)
       ELSE /\ manifest' = NewManifest(t)
            /\ Goto(s, "verify")
            /\ UNCHANGED <<files, input, work, edits>>

\* The final states must all be "new" and the directory still there to move.
CommitVerify(s) ==
    LET t == cur[s] IN
    /\ pc[s] = "verify"
    /\ Leave(s)
    /\ dir' = IF AllEntries(t, "new") /\ dir[t] = "pending"
              THEN [dir EXCEPT ![t] = "committed"] ELSE dir
    /\ UNCHANGED <<disk, input, manOld, staged, edits>>

----------------------------------------------------------------------------
(* rollbackPreparedTransaction *)

\* Mutant: a transaction whose manifest is installed may be rolled back.
RollbackAfterManifest(t) == dir[t] # "pending" \/ AnyOther(t)

\* Mutant: foreign contents are not noticed.
RollbackIgnoresOther(t) == dir[t] # "pending" \/ ManifestState(t) = "new"

RollbackRefused(t) ==
    \/ dir[t] # "pending"
    \/ AnyOther(t)
    \/ ManifestState(t) = "new"

RollbackThrow(s) ==
    /\ pc[s] = "rollback"
    /\ RollbackRefused(cur[s])
    /\ Throw(s)

RollbackBegin(s) ==
    LET t == cur[s] IN
    /\ pc[s] = "rollback"
    /\ ~RollbackRefused(t)
    /\ Batch(s, "restore", {p \in Writes(t) : FileState(t, p) # "old"})
    /\ UNCHANGED <<disk, input, work, edits>>

\* Mutant: every file is removed, also one that has a backup.
RestoreEntryRemoves(s, p) ==
    LET t == cur[s] IN
    /\ pc[s] = "restore"
    /\ p \in todo[s]
    /\ files' = [files EXCEPT ![p] = None]
    /\ Settle(s, p, FALSE)
    /\ UNCHANGED <<manifest, input, work, edits>>

\* Entries are restored one after another, last first; any order here.  A
\* missing backup throws at once.
RestoreEntry(s, p) ==
    LET t == cur[s] IN
    /\ pc[s] = "restore"
    /\ p \in todo[s]
    /\ IF old[t][p] # None /\ dir[t] # "pending" THEN Throw(s)
       ELSE /\ files' = [files EXCEPT ![p] = old[t][p]]
            /\ Settle(s, p, FALSE)
            /\ UNCHANGED <<manifest, input, work, edits>>

RollbackVerify(s) ==
    LET t == cur[s] IN
    /\ pc[s] = "restore"
    /\ todo[s] = {}
    /\ Leave(s)
    /\ dir' = IF AllEntries(t, "old") /\ dir[t] = "pending"
              THEN [dir EXCEPT ![t] = "failed"] ELSE dir
    /\ UNCHANGED <<disk, input, manOld, staged, edits>>

----------------------------------------------------------------------------
(* /research-recover, crashes and the outside world *)

\* The user picks a listed transaction and an action.  Without a journal
\* readJournal throws and nothing happens.
Recover(s, t, action) ==
    /\ pc[s] = "idle"
    /\ dir[t] = "pending"
    /\ pc' = [pc EXCEPT ![s] = action]
    /\ cur' = [cur EXCEPT ![s] = t]
    /\ UNCHANGED <<disk, input, work, todo, broken, edits>>

Crash(s) == pc[s] # "idle" /\ Throw(s)

\* Another program changes a canonical file while no call is running.
Edit(p) ==
    /\ edits < MaxEdits
    /\ \A s \in Sessions : pc[s] = "idle"
    /\ \E c \in Contents \ {files[p]} : files' = [files EXCEPT ![p] = c]
    /\ edits' = edits + 1
    /\ UNCHANGED <<manifest, input, work, call>>

----------------------------------------------------------------------------
CallStep(s) ==
    \/ Preflight(s)
    \/ \E p \in Paths : StageEntry(s, p)
    \/ StageManifest(s)
    \/ WriteJournal(s)
    \/ CommitThrow(s)
    \/ CommitFinish(s)
    \/ CommitBegin(s)
    \/ \E p \in Paths : ApplyEntry(s, p)
    \/ ApplyManifest(s)
    \/ CommitVerify(s)
    \/ RollbackThrow(s)
    \/ RollbackBegin(s)
    \/ \E p \in Paths : RestoreEntry(s, p)
    \/ RollbackVerify(s)

Next ==
    \/ \E s \in Sessions :
         \/ CallStep(s)
         \/ Crash(s)
         \/ \E t \in Tx :
              \/ Call(s, t)
              \/ \E action \in {"commit", "rollback"} : Recover(s, t, action)
    \/ \E p \in Paths : Edit(p)

Spec == Init /\ [][Next]_vars

\* A running call keeps taking steps: its awaits are file-system operations
\* that complete.  Calls, recoveries, crashes and edits are not forced.
FairSpec == Spec /\ \A s \in Sessions : WF_vars(CallStep(s))

----------------------------------------------------------------------------
(* Refinement: the store as its callers see it *)

Pending == {t \in Tx : dir[t] = "pending"}

\* A journaled transaction takes effect when its manifest is installed; until
\* then its files count as unwritten.
Undone(p) == {t \in Pending : manifest # NewManifest(t) /\ p \in Writes(t)}

VisibleFiles ==
    [p \in Paths |-> IF Undone(p) = {} THEN files[p]
                     ELSE old[CHOOSE t \in Undone(p) : TRUE][p]]

Outcome ==
    [t \in Tx |-> CASE dir[t] = "unused" -> "none"
                    [] dir[t] = "failed" -> "aborted"
                    [] dir[t] = "committed" -> "applied"
                    [] dir[t] = "pending" /\ manifest = NewManifest(t) -> "applied"
                    [] OTHER -> "submitted"]

Store == INSTANCE AtomicStore WITH
            store <- VisibleFiles, revision <- manifest.rev,
            before <- old, after <- new, outcome <- Outcome

\* A project used by one session at a time that resolves a pending journal
\* before it writes again is an atomic store: every transaction is applied in
\* one step, when its manifest is written, or leaves no trace, across crashes
\* at any file-system step of prepare, commit and rollback.
ImplementsAtomicStore == Store!Spec

----------------------------------------------------------------------------
(* Properties *)

AtRest == \A s \in Sessions : pc[s] = "idle"

\* The manifest is written last: whenever the manifest of a transaction is the
\* current one, every file of that transaction is the current one too, however
\* often commit and rollback were interrupted and retried.
ManifestImpliesFiles ==
    \A t \in Pending : manifest = NewManifest(t) => AllEntries(t, "new")

\* Some recovery choice always works: a journaled transaction whose manifest is
\* not installed can be rolled back, one whose manifest is installed can be
\* finished, and nothing outside its old and new contents is in its files.
RecoveryPossible ==
    \A t \in Pending : ~RollbackRefused(t) \/ ~CommitRefused(t)

\* Commit and rollback leave a file alone that holds neither the old nor the
\* new content of the transaction.
NoClobber ==
    [][\A s \in Sessions : pc[s] \in {"apply", "restore"} /\ pc'[s] = pc[s] =>
          \A p \in Paths : files'[p] # files[p] =>
             FileState(cur[s], p) # "other"]_vars

\* One session, even one that ignores pending journals: the manifest revision
\* moves by one step at a time and never back.
RevisionAdvances ==
    [][manifest' # manifest => manifest'.rev = manifest.rev + 1]_vars

\* A crash during preparation is harmless: until its journal is complete, no
\* interleaving of sessions and recoveries puts a transaction's manifest in place.
UnjournaledIsHarmless ==
    \A t \in Tx : dir[t] \in {"called", "preparing"} => manifest.by # t

\* docs/project-format.md: interrupted work can be committed or rolled back with
\* /research-recover.  Rolling back a created file removes the only copy left of
\* its staged content, so after an interrupted rollback
\* commitPreparedTransaction no longer finds what it must install.
CommitChoiceWorks ==
    AtRest => \A t \in Pending : CommitRefused(t) \/ \A p \in Writes(t) :
        FileState(t, p) = "new" \/ new[t][p] = None \/ StagedReadable(t, p)

\* Every call ends, whatever other sessions and crashes do in between.
CallsEnd == \A s \in Sessions : pc[s] # "idle" ~> pc[s] = "idle"

----------------------------------------------------------------------------
(* Inductive invariant of one session that recovers first *)

\* The environment under which the store is atomic: sessions do not overlap,
\* each resolves a pending journal before it writes, nobody else edits files.
SerialUse ==
    /\ \A s, r \in Sessions : s = r
    /\ RecoverFirst
    /\ MaxEdits = 0

OnePending == \A t, u \in Pending : t = u

\* The current manifest is the initial one or that of a transaction which can
\* no longer be rolled back.
ManifestOwned ==
    manifest.by # NoTx =>
        /\ dir[manifest.by] \in {"pending", "committed"}
        /\ manifest = NewManifest(manifest.by)

\* Before its manifest is in place a pending transaction is partly applied,
\* afterwards completely; the files it does not write are those it saw.
PendingPrefix(t) ==
    /\ manifest = manOld[t]
    /\ manifest.by # t
    /\ \A p \in Paths : files[p] \in {old[t][p], new[t][p]}

PendingDone(t) == manifest = NewManifest(t) /\ files = new[t]

PendingConsistent ==
    \A t \in Pending : /\ manOld[t].rev = base[t]
                       /\ PendingPrefix(t) \/ PendingDone(t)

\* Undoing what is pending gives the result of the last installed manifest.
LastCommitVisible ==
    manifest.by # NoTx =>
        /\ Pending = {} => files = new[manifest.by]
        /\ \A t \in Pending : PendingPrefix(t) => old[t] = new[manifest.by]

\* What the session knows at each step of its call.
CallPreparing(t) ==
    /\ Pending = {}
    /\ files = old[t]
    /\ manifest.rev = base[t]

CallConsistent ==
    \A s \in Sessions :
        LET t == cur[s] IN
        /\ pc[s] # "idle" => t \in Tx
        /\ pc[s] = "called" => dir[t] = "called" /\ CallPreparing(t)
        /\ pc[s] = "staging" => /\ dir[t] = "preparing" /\ CallPreparing(t)
                                /\ Manifest \notin todo[s] => manOld[t] = manifest
        /\ pc[s] \in {"commit", "apply", "verify", "rollback", "restore"} => dir[t] = "pending"
        /\ pc[s] = "apply" => /\ manifest # NewManifest(t)
                              /\ todo[s] \subseteq Writes(t)
                              /\ broken[s] \/ \A p \in Writes(t) \ todo[s] : files[p] = new[t][p]
        /\ pc[s] = "verify" => manifest = NewManifest(t)
        /\ pc[s] = "restore" => /\ manifest # NewManifest(t)
                                /\ todo[s] \subseteq Writes(t)
                                /\ \A p \in Writes(t) \ todo[s] : files[p] = old[t][p]

SerialInv ==
    /\ TypeOK
    /\ OnePending
    /\ ManifestOwned
    /\ PendingConsistent
    /\ LastCommitVisible
    /\ CallConsistent
----------------------------------------------------------------------------
(* Inductive invariants of sessions that do not recover first *)

\* Until its journal is complete a transaction belongs to the session that
\* prepares it: recovery cannot pick it up.
PreparedAlone ==
    /\ \A s \in Sessions : /\ pc[s] = "called" => dir[cur[s]] = "called"
                           /\ pc[s] = "staging" => dir[cur[s]] = "preparing"
    /\ \A s, r \in Sessions :
          {pc[s], pc[r]} \subseteq {"called", "staging"} /\ cur[s] = cur[r] => s = r

\* The writer of the current manifest had its journal, wherever it is now.
ManifestJournaled ==
    manifest.by # NoTx => dir[manifest.by] \in {"pending", "committed", "failed"}

OneSession == \A s, r \in Sessions : s = r

\* What the checks at the start of commit and rollback found still holds for
\* the entries that are left: between two steps of a call nobody else writes.
ChecksStand ==
    \A s \in Sessions :
        /\ pc[s] \in {"apply", "restore"} =>
              todo[s] \subseteq {p \in Paths : FileState(cur[s], p) # "other"}
        /\ pc[s] = "apply" => manifest.rev = base[cur[s]]
=============================================================================
