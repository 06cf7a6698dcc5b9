--------------------- MODULE ProjectTransactionsProofs ---------------------
(***************************************************************************)
(* Proofs about ProjectTransactions, for every set of sessions, paths,     *)
(* contents and transactions.                                              *)
(***************************************************************************)
EXTENDS ProjectTransactions, TLAPS

----------------------------------------------------------------------------
(* Type correctness *)

\* A session that is inside a call works on a transaction.
Busy(s) == pc[s] # "idle" => cur[s] \in Tx

TypeInv == TypeOK /\ \A s \in Sessions : Busy(s)

\* The control operators keep the locals of every call well typed.
LEMMA ControlType ==
    ASSUME TypeInv, NEW s \in Sessions,
           NEW step \in Steps, step # "idle", pc[s] # "idle",
           NEW entries \in SUBSET Entry, NEW e \in Entry, NEW flag \in BOOLEAN,
           Goto(s, step) \/ Batch(s, step, entries) \/ Settle(s, e, flag)
    PROVE  /\ pc' \in [Sessions -> Steps]
           /\ cur' \in [Sessions -> Tx \cup {NoTx}]
           /\ todo' \in [Sessions -> SUBSET Entry]
           /\ broken' \in [Sessions -> BOOLEAN]
           /\ \A r \in Sessions : Busy(r)'
  BY DEF TypeInv, TypeOK, Busy, Goto, Batch, Settle, Steps

LEMMA LeaveType ==
    ASSUME TypeInv, NEW s \in Sessions, Leave(s)
    PROVE  /\ pc' \in [Sessions -> Steps]
           /\ cur' \in [Sessions -> Tx \cup {NoTx}]
           /\ todo' \in [Sessions -> SUBSET Entry]
           /\ broken' \in [Sessions -> BOOLEAN]
           /\ \A r \in Sessions : Busy(r)'
  BY DEF TypeInv, TypeOK, Busy, Leave, Steps

LEMMA TypeInit == Init => TypeInv
  BY TransactionConstants
  DEF Init, TypeInv, TypeOK, Busy, ManifestContent, DirStates, Steps, Contents, Entry

\* Every step of a running call keeps the types.
LEMMA TypeCallStep ==
    ASSUME TypeInv, NEW s \in Sessions, CallStep(s)
    PROVE  TypeInv'
<1> DEFINE t == cur[s]
<1>0. pc[s] # "idle" /\ t \in Tx
  BY DEF TypeInv, Busy, CallStep, Preflight, StageEntry, StageManifest, WriteJournal,
         CommitThrow, CommitFinish, CommitBegin, ApplyEntry, ApplyManifest, CommitVerify,
         RollbackThrow, RollbackBegin, RestoreEntry, RollbackVerify
<1>a. /\ Writes(t) \in SUBSET Entry
      /\ Paths \subseteq Entry
      /\ Manifest \in Entry
      /\ NewManifest(t) \in ManifestContent
  BY <1>0 DEF Writes, Entry, NewManifest, ManifestContent, TypeInv, TypeOK
<1>b. ASSUME Throw(s) PROVE TypeInv'
  <2>1. Leave(s) /\ UNCHANGED <<disk, input, work, edits>>
    BY <1>b DEF Throw
  <2> QED
    BY <2>1, LeaveType DEF TypeInv, TypeOK, disk, input, work, Steps
<1> USE DEF disk, input, work
<1>1. CASE Preflight(s)
  <2>1. CASE Throw(s) BY <2>1, <1>b
  <2>2. CASE ~Throw(s)
    BY <1>1, <2>2, <1>0, <1>a, ControlType DEF Preflight, TypeInv, TypeOK, DirStates, Steps
  <2> QED BY <2>1, <2>2
<1>2. ASSUME NEW p \in Paths, StageEntry(s, p) PROVE TypeInv'
  <2>1. Settle(s, p, old[t][p] # None /\ files[p] # old[t][p])
    BY <1>2 DEF StageEntry
  <2> QED
    BY <1>2, <2>1, <1>0, <1>a, ControlType DEF StageEntry, TypeInv, TypeOK
<1>3. CASE StageManifest(s)
  BY <1>3, <1>0, <1>a, ControlType DEF StageManifest, TypeInv, TypeOK
<1>4. CASE WriteJournal(s)
  <2>1. CASE Throw(s) BY <2>1, <1>b
  <2>2. CASE ~Throw(s)
    BY <1>4, <2>2, <1>0, <1>a, ControlType DEF WriteJournal, TypeInv, TypeOK, DirStates, Steps
  <2> QED BY <2>1, <2>2
<1>5. CASE CommitThrow(s)
  BY <1>5, <1>b DEF CommitThrow
<1>6. CASE CommitFinish(s)
  BY <1>6, <1>0, LeaveType DEF CommitFinish, TypeInv, TypeOK, DirStates, Steps
<1>7. CASE CommitBegin(s)
  BY <1>7, <1>0, <1>a, ControlType DEF CommitBegin, TypeInv, TypeOK, Steps
<1>8. ASSUME NEW p \in Paths, ApplyEntry(s, p) PROVE TypeInv'
  <2>1. Settle(s, p, new[t][p] # None /\ ~StagedReadable(t, p))
    BY <1>8 DEF ApplyEntry
  <2> QED
    BY <1>8, <2>1, <1>0, <1>a, ControlType DEF ApplyEntry, TypeInv, TypeOK
<1>9. CASE ApplyManifest(s)
  <2>1. CASE Throw(s) BY <2>1, <1>b
  <2>2. CASE ~Throw(s)
    BY <1>9, <2>2, <1>0, <1>a, ControlType DEF ApplyManifest, TypeInv, TypeOK, Steps
  <2> QED BY <2>1, <2>2
<1>10. CASE CommitVerify(s)
  BY <1>10, <1>0, LeaveType DEF CommitVerify, TypeInv, TypeOK, DirStates, Steps
<1>11. CASE RollbackThrow(s)
  BY <1>11, <1>b DEF RollbackThrow
<1>12. CASE RollbackBegin(s)
  BY <1>12, <1>0, <1>a, ControlType DEF RollbackBegin, TypeInv, TypeOK, Steps
<1>13. ASSUME NEW p \in Paths, RestoreEntry(s, p) PROVE TypeInv'
  <2>1. CASE Throw(s) BY <2>1, <1>b
  <2>2. CASE ~Throw(s)
    <3>1. Settle(s, p, FALSE) /\ files' = [files EXCEPT ![p] = old[t][p]]
      BY <1>13, <2>2 DEF RestoreEntry
    <3> QED
      BY <1>13, <2>2, <3>1, <1>0, <1>a, ControlType DEF RestoreEntry, TypeInv, TypeOK
  <2> QED BY <2>1, <2>2
<1>14. CASE RollbackVerify(s)
  BY <1>14, <1>0, LeaveType DEF RollbackVerify, TypeInv, TypeOK, DirStates, Steps
<1> QED
  BY <1>1, <1>2, <1>3, <1>4, <1>5, <1>6, <1>7, <1>8, <1>9, <1>10, <1>11, <1>12,
     <1>13, <1>14 DEF CallStep

LEMMA TypeNext == TypeInv /\ [Next]_vars => TypeInv'
<1> SUFFICES ASSUME TypeInv, [Next]_vars PROVE TypeInv'
  OBVIOUS
<1> USE DEF disk, input, work, call
<1>1. ASSUME NEW s \in Sessions, CallStep(s) PROVE TypeInv'
  BY <1>1, TypeCallStep
<1>2. ASSUME NEW s \in Sessions, Crash(s) PROVE TypeInv'
  BY <1>2, LeaveType DEF Crash, Throw, TypeInv, TypeOK, Steps
<1>3. ASSUME NEW s \in Sessions, NEW t \in Tx, Call(s, t) PROVE TypeInv'
  BY <1>3 DEF Call, TypeInv, TypeOK, Busy, DirStates, Steps, ManifestContent
<1>4. ASSUME NEW s \in Sessions, NEW t \in Tx, NEW action \in {"commit", "rollback"},
             Recover(s, t, action)
      PROVE  TypeInv'
  BY <1>4 DEF Recover, TypeInv, TypeOK, Busy, Steps
<1>5. ASSUME NEW p \in Paths, Edit(p) PROVE TypeInv'
  BY <1>5, TransactionConstants DEF Edit, TypeInv, TypeOK, Busy
<1>6. CASE UNCHANGED vars
  BY <1>6 DEF vars, TypeInv, TypeOK, Busy
<1> QED
  BY <1>1, <1>2, <1>3, <1>4, <1>5, <1>6 DEF Next

\* Every reachable state of the transaction layer is well typed; in particular
\* staged files, pending entries and revisions stay in their domains under any
\* number of uncoordinated sessions, crashes and outside edits.
THEOREM TypeCorrect == Spec => []TypeOK
<1>1. TypeInv => TypeOK
  BY DEF TypeInv
<1> QED
  BY <1>1, TypeInit, TypeNext, PTL DEF Spec

----------------------------------------------------------------------------
(* Atomicity under serial use *)

DataInv == OnePending /\ ManifestOwned /\ PendingConsistent /\ LastCommitVisible

LEMMA SerialInvParts == SerialInv <=> TypeOK /\ DataInv /\ CallConsistent
  BY DEF SerialInv, DataInv

LEMMA SerialInit == Init => SerialInv
<1> SUFFICES ASSUME Init PROVE SerialInv
  OBVIOUS
<1>1. TypeOK
  BY TypeInit DEF TypeInv
<1>2. Pending = {} /\ manifest.by = NoTx
  BY DEF Init, Pending
<1>3. DataInv
  BY <1>2 DEF DataInv, OnePending, ManifestOwned, PendingConsistent, LastCommitVisible
<1>4. CallConsistent
  BY DEF Init, CallConsistent
<1> QED
  BY <1>1, <1>3, <1>4, SerialInvParts

\* A step that leaves the canonical state and every directory alone keeps DataInv.
LEMMA DataFrame ==
    ASSUME DataInv, UNCHANGED <<disk, input, dir, manOld>>
    PROVE  DataInv'
  BY DEF DataInv, OnePending, ManifestOwned, PendingConsistent, LastCommitVisible,
         Pending, PendingPrefix, PendingDone, NewManifest, disk, input

\* A session that leaves its call knows nothing afterwards.
LEMMA LeaveConsistent ==
    ASSUME TypeOK, SerialUse, NEW s \in Sessions, Leave(s)
    PROVE  CallConsistent'
<1>1. \A r \in Sessions : pc'[r] = "idle"
  BY DEF Leave, SerialUse, TypeOK
<1> QED
  BY <1>1 DEF CallConsistent

LEMMA SerialThrow ==
    ASSUME SerialInv, SerialUse, NEW s \in Sessions, Throw(s)
    PROVE  DataInv' /\ CallConsistent'
  BY SerialInvParts, DataFrame, LeaveConsistent DEF Throw, work

\* Preparation touches no canonical file; publishing the journal makes the
\* transaction pending with nothing applied.
LEMMA SerialPrepare ==
    ASSUME SerialInv, SerialUse, NEW s \in Sessions,
           \/ Preflight(s)
           \/ \E p \in Paths : StageEntry(s, p)
           \/ StageManifest(s)
           \/ WriteJournal(s)
    PROVE  DataInv' /\ CallConsistent'
<1>0. PICK t \in Tx :
        /\ t = cur[s]
        /\ TypeOK /\ DataInv /\ CallConsistent
        /\ \A r \in Sessions : r = s
  BY SerialInvParts DEF SerialUse, Preflight, StageEntry, StageManifest, WriteJournal,
     CallConsistent
<1>1. CASE Throw(s)
  BY <1>1, SerialThrow
<1> USE DEF disk, input
<1>2. CASE Preflight(s) /\ ~Throw(s)
  <2>1. /\ pc[s] = "called"
        /\ dir' = [dir EXCEPT ![t] = "preparing"]
        /\ Batch(s, "staging", Writes(t) \cup {Manifest})
        /\ UNCHANGED <<disk, input, manOld, staged, edits>>
    BY <1>2, <1>0 DEF Preflight
  <2>2. Pending = {} /\ Pending' = {} /\ dir[t] = "called"
    BY <2>1, <1>0 DEF CallConsistent, CallPreparing, Pending, TypeOK
  <2>3. DataInv'
    BY <2>1, <2>2, <1>0, TransactionConstants
    DEF DataInv, OnePending, ManifestOwned, PendingConsistent, LastCommitVisible,
        NewManifest, TypeOK, ManifestContent
  <2>4. CallConsistent'
    BY <2>1, <2>2, <1>0 DEF CallConsistent, CallPreparing, Batch, TypeOK
  <2> QED BY <2>3, <2>4
<1>3. ASSUME NEW p \in Paths, StageEntry(s, p) PROVE DataInv' /\ CallConsistent'
  <2>1. DataInv'
    BY <1>3, <1>0, DataFrame DEF StageEntry
  <2>2. CallConsistent'
    BY <1>3, <1>0, TransactionConstants
    DEF StageEntry, CallConsistent, CallPreparing, Settle, Pending, TypeOK
  <2> QED BY <2>1, <2>2
<1>4. CASE StageManifest(s)
  <2>1. pc[s] = "staging" /\ dir[t] = "preparing" /\ Pending = {} /\ Pending' = {}
    BY <1>4, <1>0 DEF StageManifest, CallConsistent, CallPreparing, Pending
  <2>2. DataInv'
    BY <1>4, <2>1, <1>0
    DEF StageManifest, DataInv, OnePending, ManifestOwned, PendingConsistent,
        LastCommitVisible, NewManifest
  <2>3. CallConsistent'
    BY <1>4, <2>1, <1>0
    DEF StageManifest, CallConsistent, CallPreparing, Settle, TypeOK
  <2> QED BY <2>2, <2>3
<1>5. CASE WriteJournal(s) /\ ~Throw(s)
  <2>1. /\ pc[s] = "staging"
        /\ todo[s] = {}
        /\ dir' = [dir EXCEPT ![t] = "pending"]
        /\ Goto(s, "commit")
        /\ UNCHANGED <<disk, input, manOld, staged, edits>>
    BY <1>5, <1>0 DEF WriteJournal
  <2>2. /\ dir[t] = "preparing" /\ Pending = {}
        /\ files = old[t] /\ manifest.rev = base[t] /\ manOld[t] = manifest
    BY <2>1, <1>0 DEF CallConsistent, CallPreparing
  <2>3. Pending' = {t}
    BY <2>1, <2>2, <1>0 DEF Pending, TypeOK
  <2>4. ManifestOwned' /\ manifest.by # t
    BY <2>1, <2>2, <1>0, TransactionConstants
    DEF DataInv, ManifestOwned, NewManifest, TypeOK, ManifestContent
  <2>5. PendingConsistent'
    BY <2>1, <2>2, <2>3, <2>4, <1>0 DEF PendingConsistent, PendingPrefix, TypeOK
  <2>6. LastCommitVisible'
    BY <2>1, <2>2, <2>3, <1>0 DEF DataInv, LastCommitVisible
  <2>7. CallConsistent'
    BY <2>1, <1>0 DEF CallConsistent, Goto, TypeOK
  <2> QED BY <2>3, <2>4, <2>5, <2>6, <2>7 DEF DataInv, OnePending
<1> QED
  BY <1>1, <1>2, <1>3, <1>4, <1>5

\* The pending transaction of a call is the only one, and its manifest tells
\* whether it is partly or completely applied.
LEMMA PendingKnown ==
    ASSUME TypeOK, DataInv, NEW t \in Tx, dir[t] = "pending"
    PROVE  /\ Pending = {t}
           /\ manOld[t].rev = base[t]
           /\ manifest = NewManifest(t) => PendingDone(t)
           /\ manifest # NewManifest(t) => PendingPrefix(t)
<1>1. t \in Pending /\ Pending = {t}
  BY DEF Pending, DataInv, OnePending
<1>2. PendingPrefix(t) => manifest # NewManifest(t)
  BY DEF PendingPrefix, NewManifest
<1> QED
  BY <1>1, <1>2 DEF DataInv, PendingConsistent, PendingDone

\* Moving a completely applied transaction to committed/.
LEMMA ArchiveCommitted ==
    ASSUME TypeOK, DataInv, NEW t \in Tx, dir[t] = "pending", manifest = NewManifest(t),
           dir' = [dir EXCEPT ![t] = "committed"],
           UNCHANGED <<disk, input, manOld>>
    PROVE  DataInv'
<1> USE DEF disk, input
<1>1. Pending = {t} /\ files = new[t] /\ manifest.by = t
  BY PendingKnown DEF PendingDone, NewManifest
<1>2. Pending' = {} /\ dir'[t] = "committed"
  BY <1>1 DEF Pending, TypeOK
<1> QED
  BY <1>1, <1>2
  DEF DataInv, OnePending, ManifestOwned, PendingConsistent, LastCommitVisible, NewManifest

\* Moving a completely restored transaction to failed/.
LEMMA ArchiveFailed ==
    ASSUME TypeOK, DataInv, NEW t \in Tx, dir[t] = "pending", manifest # NewManifest(t),
           files = old[t],
           dir' = [dir EXCEPT ![t] = "failed"],
           UNCHANGED <<disk, input, manOld>>
    PROVE  DataInv'
<1> USE DEF disk, input
<1>1. Pending = {t} /\ PendingPrefix(t)
  BY PendingKnown
<1>2. Pending' = {} /\ \A u \in Tx : u # t => dir'[u] = dir[u]
  BY <1>1 DEF Pending, TypeOK
<1>3. manifest.by # t
  BY <1>1 DEF PendingPrefix
<1>4. ManifestOwned'
  BY <1>2, <1>3 DEF DataInv, ManifestOwned, NewManifest, TypeOK, ManifestContent
<1>5. LastCommitVisible'
  BY <1>1, <1>2 DEF DataInv, LastCommitVisible
<1> QED
  BY <1>2, <1>4, <1>5 DEF DataInv, OnePending, PendingConsistent

\* Installing or restoring one entry of a partly applied transaction.
LEMMA WriteEntry ==
    ASSUME TypeOK, DataInv, NEW t \in Tx, dir[t] = "pending", manifest # NewManifest(t),
           NEW p \in Paths, NEW c \in {old[t][p], new[t][p]},
           files' = [files EXCEPT ![p] = c],
           UNCHANGED <<manifest, input, dir, manOld>>
    PROVE  DataInv'
<1> USE DEF input
<1>1. Pending = {t} /\ PendingPrefix(t) /\ manOld[t].rev = base[t]
  BY PendingKnown
<1>2. Pending' = {t}
  BY <1>1 DEF Pending
<1>3. PendingPrefix(t)'
  BY <1>1 DEF PendingPrefix, TypeOK
<1>4. LastCommitVisible'
  BY <1>1, <1>2 DEF DataInv, LastCommitVisible, PendingPrefix
<1> QED
  BY <1>1, <1>2, <1>3, <1>4 DEF DataInv, OnePending, ManifestOwned, PendingConsistent, NewManifest

\* Commit installs the files, then the manifest, then archives the journal.
LEMMA SerialCommit ==
    ASSUME SerialInv, SerialUse, NEW s \in Sessions,
           \/ CommitThrow(s) \/ CommitFinish(s) \/ CommitBegin(s)
           \/ \E p \in Paths : ApplyEntry(s, p)
           \/ ApplyManifest(s) \/ CommitVerify(s)
    PROVE  DataInv' /\ CallConsistent'
<1>0. PICK t \in Tx :
        /\ t = cur[s]
        /\ dir[t] = "pending"
        /\ TypeOK /\ DataInv /\ CallConsistent
        /\ \A r \in Sessions : r = s
  BY SerialInvParts DEF SerialUse, CommitThrow, CommitFinish, CommitBegin, ApplyEntry,
     ApplyManifest, CommitVerify, CallConsistent
<1>1. CASE Throw(s)
  BY <1>1, SerialThrow
<1>2. CASE CommitFinish(s)
  <2>1. manifest = NewManifest(t)
    BY <1>2, <1>0 DEF CommitFinish, ManifestState
  <2> QED
    BY <1>2, <2>1, <1>0, ArchiveCommitted, LeaveConsistent DEF CommitFinish
<1>3. CASE CommitBegin(s)
  <2>1. manifest # NewManifest(t)
    BY <1>3, <1>0 DEF CommitBegin, ManifestState
  <2>2. DataInv'
    BY <1>3, <1>0, DataFrame DEF CommitBegin, work
  <2>3. \A p \in Writes(t) : FileState(t, p) = "new" => files[p] = new[t][p]
    BY DEF FileState
  <2>4. CallConsistent'
    BY <1>3, <1>0, <2>1, <2>3
    DEF CommitBegin, CallConsistent, Batch, Writes, NewManifest, TypeOK, disk, input, work
  <2> QED BY <2>2, <2>4
<1>4. ASSUME NEW p \in Paths, ApplyEntry(s, p) PROVE DataInv' /\ CallConsistent'
  <2>1. /\ pc[s] = "apply" /\ p \in todo[s] /\ todo[s] \subseteq Writes(t)
        /\ manifest # NewManifest(t)
        /\ broken[s] \/ \A q \in Writes(t) \ todo[s] : files[q] = new[t][q]
    BY <1>4, <1>0 DEF ApplyEntry, CallConsistent
  <2>2. UNCHANGED <<manifest, input, dir, manOld>>
    BY <1>4 DEF ApplyEntry
  <2>3. CASE files' = files /\ broken'[s]
    <3>1. DataInv'
      BY <2>2, <2>3, <1>0, DataFrame DEF disk
    <3>2. CallConsistent'
      BY <1>4, <2>1, <2>2, <2>3, <1>0
      DEF ApplyEntry, CallConsistent, Settle, Writes, NewManifest, input, TypeOK
    <3> QED BY <3>1, <3>2
  <2>4. CASE files' = [files EXCEPT ![p] = new[t][p]]
    <3>1. DataInv'
      BY <2>1, <2>2, <2>4, <1>0, WriteEntry
    <3>2. /\ todo' = [todo EXCEPT ![s] = @ \ {p}]
          /\ broken[s] => broken'[s]
          /\ pc' = pc /\ cur' = cur
      BY <1>4, <1>0 DEF ApplyEntry, Settle, TypeOK
    <3>3. \A q \in Writes(t) \ todo'[s] : broken[s] \/ files'[q] = new[t][q]
      BY <2>1, <2>4, <3>2, <1>0 DEF TypeOK, Writes
    <3>4. Writes(t)' = Writes(t) /\ NewManifest(t)' = NewManifest(t)
      BY <2>2 DEF Writes, NewManifest, input
    <3>5. CallConsistent'
      BY <1>4, <2>1, <2>2, <3>2, <3>3, <3>4, <1>0
      DEF ApplyEntry, CallConsistent, Settle, input, TypeOK
    <3> QED BY <3>1, <3>5
  <2> QED BY <1>4, <1>0, <2>3, <2>4 DEF ApplyEntry, Settle, TypeOK
<1>5. CASE ApplyManifest(s) /\ ~Throw(s)
  <2>1. /\ pc[s] = "apply" /\ todo[s] = {} /\ ~broken[s]
        /\ manifest' = NewManifest(t)
        /\ Goto(s, "verify")
        /\ UNCHANGED <<files, input, work, edits>>
    BY <1>5, <1>0 DEF ApplyManifest
  <2>2. /\ manifest # NewManifest(t)
        /\ \A p \in Writes(t) : files[p] = new[t][p]
    BY <2>1, <1>0 DEF CallConsistent
  <2>3. Pending = {t} /\ PendingPrefix(t) /\ manOld[t].rev = base[t]
    BY <2>2, <1>0, PendingKnown
  <2>4. \A p \in Paths : files[p] = new[t][p]
    BY <2>2, <2>3 DEF PendingPrefix, Writes
  <2>5. files = new[t]
    BY <2>4, <1>0 DEF TypeOK
  <2>6. Pending' = {t} /\ PendingDone(t)' /\ NewManifest(t)' = NewManifest(t)
    BY <2>1, <2>3, <2>5 DEF Pending, PendingDone, NewManifest, input, work
  <2>7. manifest'.by = t
    BY <2>1 DEF NewManifest
  <2>8. DataInv'
    BY <2>1, <2>3, <2>6, <2>7, <1>0
    DEF DataInv, OnePending, ManifestOwned, PendingConsistent, LastCommitVisible,
        PendingPrefix, NewManifest, input, work
  <2>9. CallConsistent'
    BY <2>1, <2>6, <1>0 DEF CallConsistent, Goto, TypeOK, input, work
  <2> QED BY <2>8, <2>9
<1>6. CASE CommitVerify(s)
  <2>1. manifest = NewManifest(t)
    BY <1>6, <1>0 DEF CommitVerify, CallConsistent
  <2>2. CallConsistent'
    BY <1>6, <1>0, LeaveConsistent DEF CommitVerify
  <2>3. CASE dir' = dir
    BY <1>6, <1>0, <2>2, <2>3, DataFrame DEF CommitVerify
  <2>4. CASE dir' = [dir EXCEPT ![t] = "committed"]
    BY <1>6, <1>0, <2>1, <2>2, <2>4, ArchiveCommitted DEF CommitVerify
  <2> QED BY <1>6, <1>0, <2>3, <2>4 DEF CommitVerify
<1> QED
  BY <1>1, <1>2, <1>3, <1>4, <1>5, <1>6 DEF CommitThrow

\* Rollback restores the files, verifies them and archives the journal.
LEMMA SerialRollback ==
    ASSUME SerialInv, SerialUse, NEW s \in Sessions,
           \/ RollbackThrow(s) \/ RollbackBegin(s)
           \/ \E p \in Paths : RestoreEntry(s, p)
           \/ RollbackVerify(s)
    PROVE  DataInv' /\ CallConsistent'
<1>0. PICK t \in Tx :
        /\ t = cur[s]
        /\ dir[t] = "pending"
        /\ TypeOK /\ DataInv /\ CallConsistent
        /\ \A r \in Sessions : r = s
  BY SerialInvParts DEF SerialUse, RollbackThrow, RollbackBegin, RestoreEntry,
     RollbackVerify, CallConsistent
<1>1. CASE Throw(s)
  BY <1>1, SerialThrow
<1>2. CASE RollbackBegin(s)
  <2>1. manifest # NewManifest(t)
    BY <1>2, <1>0 DEF RollbackBegin, RollbackRefused, ManifestState
  <2>2. DataInv'
    BY <1>2, <1>0, DataFrame DEF RollbackBegin, work
  <2>3. \A p \in Writes(t) : FileState(t, p) = "old" => files[p] = old[t][p]
    BY DEF FileState
  <2>4. CallConsistent'
    BY <1>2, <1>0, <2>1, <2>3
    DEF RollbackBegin, CallConsistent, Batch, Writes, NewManifest, TypeOK, disk, input, work
  <2> QED BY <2>2, <2>4
<1>3. ASSUME NEW p \in Paths, RestoreEntry(s, p), ~Throw(s) PROVE DataInv' /\ CallConsistent'
  <2>1. /\ pc[s] = "restore" /\ p \in todo[s] /\ todo[s] \subseteq Writes(t)
        /\ manifest # NewManifest(t)
        /\ \A q \in Writes(t) \ todo[s] : files[q] = old[t][q]
    BY <1>3, <1>0 DEF RestoreEntry, CallConsistent
  <2>2. /\ files' = [files EXCEPT ![p] = old[t][p]]
        /\ Settle(s, p, FALSE)
        /\ UNCHANGED <<manifest, input, work, edits>>
    BY <1>3, <1>0 DEF RestoreEntry
  <2>3. DataInv'
    BY <2>1, <2>2, <1>0, WriteEntry DEF work
  <2>4. \A q \in Writes(t) \ todo'[s] : files'[q] = old[t][q]
    BY <2>1, <2>2, <1>0 DEF TypeOK, Writes, Settle
  <2>5. Writes(t)' = Writes(t) /\ NewManifest(t)' = NewManifest(t)
    BY <2>2 DEF Writes, NewManifest, input
  <2>6. CallConsistent'
    BY <2>1, <2>2, <2>4, <2>5, <1>0 DEF CallConsistent, Settle, input, work, TypeOK
  <2> QED BY <2>3, <2>6
<1>4. CASE RollbackVerify(s)
  <2>1. /\ manifest # NewManifest(t)
        /\ \A p \in Writes(t) : files[p] = old[t][p]
    BY <1>4, <1>0 DEF RollbackVerify, CallConsistent
  <2>2. PendingPrefix(t)
    BY <2>1, <1>0, PendingKnown
  <2>3. \A p \in Paths : files[p] = old[t][p]
    BY <2>1, <2>2 DEF PendingPrefix, Writes
  <2>4. files = old[t]
    BY <2>3, <1>0 DEF TypeOK
  <2>5. CallConsistent'
    BY <1>4, <1>0, LeaveConsistent DEF RollbackVerify
  <2>6. CASE dir' = dir
    BY <1>4, <1>0, <2>5, <2>6, DataFrame DEF RollbackVerify
  <2>7. CASE dir' = [dir EXCEPT ![t] = "failed"]
    BY <1>4, <1>0, <2>1, <2>4, <2>5, <2>7, ArchiveFailed DEF RollbackVerify
  <2> QED BY <1>4, <1>0, <2>6, <2>7 DEF RollbackVerify
<1> QED
  BY <1>1, <1>2, <1>3, <1>4 DEF RollbackThrow

\* Opening a call or a recovery.
LEMMA SerialCall ==
    ASSUME SerialInv, SerialUse, NEW s \in Sessions, NEW t \in Tx, Call(s, t)
    PROVE  DataInv' /\ CallConsistent'
<1>0. /\ TypeOK /\ DataInv /\ \A r \in Sessions : r = s
  BY SerialInvParts DEF SerialUse
<1>1. /\ dir[t] = "unused" /\ Pending = {}
      /\ dir' = [dir EXCEPT ![t] = "called"]
      /\ UNCHANGED <<disk, manOld, staged, todo, broken, edits>>
  BY DEF Call, SerialUse, Pending
<1>2. Pending' = {}
  BY <1>0, <1>1 DEF Pending, TypeOK
<1>3. manifest.by # t /\ manifest.by \in Tx \cup {NoTx}
  BY <1>0, <1>1, TransactionConstants DEF DataInv, ManifestOwned, TypeOK, ManifestContent
<1>4. ManifestOwned' /\ LastCommitVisible'
  BY <1>0, <1>1, <1>2, <1>3
  DEF Call, DataInv, ManifestOwned, LastCommitVisible, NewManifest, TypeOK, disk
<1>5. CallConsistent'
  BY <1>0, <1>1, <1>2 DEF Call, CallConsistent, CallPreparing, TypeOK, disk
<1> QED
  BY <1>2, <1>4, <1>5 DEF DataInv, OnePending, PendingConsistent

LEMMA SerialNext == SerialUse /\ SerialInv /\ TypeInv /\ [Next]_vars => SerialInv'
<1> SUFFICES ASSUME SerialUse, SerialInv, TypeInv, [Next]_vars
             PROVE  DataInv' /\ CallConsistent'
  BY TypeNext, SerialInvParts DEF TypeInv, SerialInv, DataInv
<1>1. ASSUME NEW s \in Sessions, CallStep(s) PROVE DataInv' /\ CallConsistent'
  BY <1>1, SerialPrepare, SerialCommit, SerialRollback DEF CallStep
<1>2. ASSUME NEW s \in Sessions, Crash(s) PROVE DataInv' /\ CallConsistent'
  BY <1>2, SerialThrow DEF Crash
<1>3. ASSUME NEW s \in Sessions, NEW t \in Tx, Call(s, t) PROVE DataInv' /\ CallConsistent'
  BY <1>3, SerialCall
<1>4. ASSUME NEW s \in Sessions, NEW t \in Tx, NEW action \in {"commit", "rollback"},
             Recover(s, t, action)
      PROVE  DataInv' /\ CallConsistent'
  <2>1. DataInv'
    BY <1>4, SerialInvParts, DataFrame DEF Recover, work
  <2>2. CallConsistent'
    BY <1>4, SerialInvParts DEF Recover, SerialUse, CallConsistent, TypeOK, work
  <2> QED BY <2>1, <2>2
<1>5. ASSUME NEW p \in Paths, Edit(p) PROVE FALSE
  BY <1>5 DEF Edit, SerialUse, SerialInv, TypeOK
<1>6. CASE UNCHANGED vars
  <2>1. DataInv'
    BY <1>6, SerialInvParts, DataFrame DEF vars, work
  <2>2. CallConsistent'
    BY <1>6, SerialInvParts
    DEF vars, CallConsistent, CallPreparing, Pending, Writes, NewManifest,
        disk, input, work, call
  <2> QED BY <2>1, <2>2
<1> QED
  BY <1>1, <1>2, <1>3, <1>4, <1>5, <1>6 DEF Next

\* The inductive invariant holds in every reachable state of a project that one
\* session at a time uses, recovering before it writes.
LEMMA SerialSafe == ASSUME SerialUse PROVE Spec => []SerialInv
<1>1. TypeInv /\ SerialInv /\ [Next]_vars => TypeInv' /\ SerialInv'
  BY SerialUse, SerialNext, TypeNext
<1> QED
  BY <1>1, TypeInit, SerialInit, PTL DEF Spec

\* However commit and rollback are interrupted and retried, the manifest of a
\* pending transaction is in place only together with all its files.
THEOREM ManifestLast == ASSUME SerialUse PROVE Spec => []ManifestImpliesFiles
<1>1. SerialInv => ManifestImpliesFiles
  <2> SUFFICES ASSUME SerialInv, NEW t \in Pending, manifest = NewManifest(t)
               PROVE  AllEntries(t, "new")
    BY DEF ManifestImpliesFiles
  <2>1. PendingDone(t)
    BY SerialInvParts, PendingKnown DEF Pending
  <2> QED
    BY <2>1 DEF PendingDone, AllEntries, ManifestState, FileState, Writes
<1> QED
  BY <1>1, SerialSafe, PTL

\* /research-recover can always resolve a journaled transaction: by rollback
\* while its manifest is not in place, by commit afterwards.
THEOREM RecoveryNeverStuck == ASSUME SerialUse PROVE Spec => []RecoveryPossible
<1>1. SerialInv => RecoveryPossible
  <2> SUFFICES ASSUME SerialInv, NEW t \in Pending
               PROVE  ~RollbackRefused(t) \/ ~CommitRefused(t)
    BY DEF RecoveryPossible
  <2>0. t \in Tx /\ dir[t] = "pending" /\ TypeOK /\ DataInv
    BY SerialInvParts DEF Pending
  <2>1. CASE manifest = NewManifest(t)
    <3>1. PendingDone(t)
      BY <2>0, <2>1, PendingKnown
    <3> QED
      BY <3>1, <2>0 DEF PendingDone, CommitRefused, AnyOther, AllEntries, ManifestState,
                        FileState, Writes
  <2>2. CASE manifest # NewManifest(t)
    <3>1. PendingPrefix(t)
      BY <2>0, <2>2, PendingKnown
    <3> QED
      BY <3>1, <2>0, <2>2 DEF PendingPrefix, RollbackRefused, AnyOther, ManifestState,
                        FileState, Writes
  <2> QED BY <2>1, <2>2
<1> QED
  BY <1>1, SerialSafe, PTL

----------------------------------------------------------------------------
(* Refinement of AtomicStore *)

\* What callers see: the files as the last installed manifest left them.
VisibleCases ==
    /\ Pending = {} => VisibleFiles = files
    /\ \A t \in Pending : manifest = NewManifest(t) => VisibleFiles = files
    /\ \A t \in Pending : manifest # NewManifest(t) => VisibleFiles = old[t]

LEMMA Visible == TypeOK /\ DataInv => VisibleCases
<1> SUFFICES ASSUME TypeOK, DataInv PROVE VisibleCases
  OBVIOUS
<1>1. ASSUME \A p \in Paths : Undone(p) = {}
      PROVE  VisibleFiles = files
  BY <1>1 DEF VisibleFiles, TypeOK
<1>2. Pending = {} => VisibleFiles = files
  BY <1>1 DEF Undone
<1>3. ASSUME NEW t \in Pending, manifest = NewManifest(t)
      PROVE  VisibleFiles = files
  BY <1>1, <1>3 DEF Undone, DataInv, OnePending
<1>4. ASSUME NEW t \in Pending, manifest # NewManifest(t)
      PROVE  VisibleFiles = old[t]
  <2>1. t \in Tx /\ PendingPrefix(t)
    BY <1>4, PendingKnown DEF Pending
  <2>2. ASSUME NEW p \in Paths PROVE VisibleFiles[p] = old[t][p]
    <3>1. CASE p \in Writes(t)
      <4>1. Undone(p) = {t}
        BY <1>4, <3>1 DEF Undone, DataInv, OnePending
      <4> QED
        BY <4>1 DEF VisibleFiles
    <3>2. CASE p \notin Writes(t)
      <4>1. Undone(p) = {}
        BY <1>4, <3>2 DEF Undone, DataInv, OnePending
      <4> QED
        BY <4>1, <3>2, <2>1 DEF VisibleFiles, PendingPrefix, Writes
    <3> QED BY <3>1, <3>2
  <2>3. VisibleFiles = [p \in Paths |-> VisibleFiles[p]]
    BY DEF VisibleFiles
  <2>4. old[t] = [p \in Paths |-> old[t][p]]
    BY <2>1 DEF TypeOK
  <2> QED BY <2>2, <2>3, <2>4
<1> QED BY <1>2, <1>3, <1>4 DEF VisibleCases

LEMMA VisibleNext == TypeOK' /\ DataInv' => VisibleCases'
  BY Visible, PTL

\* A step that keeps the manifest, the inputs and each transaction's visible
\* fate is a stutter of the store.
LEMMA StoreStutter ==
    ASSUME VisibleFiles' = VisibleFiles, Outcome' = Outcome,
           manifest' = manifest, UNCHANGED input
    PROVE  UNCHANGED Store!storeVars
  BY DEF Store!storeVars, input

LEMMA StoreInit == ASSUME Init PROVE Store!Init
<1>1. TypeOK /\ DataInv
  BY SerialInit, SerialInvParts
<1>2. VisibleFiles = files
  BY <1>1, Visible, VisibleNext DEF VisibleCases, Init, Pending
<1>3. Outcome = [t \in Tx |-> "none"]
  BY DEF Init, Outcome
<1> QED
  BY <1>1, <1>2, <1>3 DEF Init, Store!Init, TypeOK

\* A step that changes neither disk nor journals nor inputs.
LEMMA StoreFrame ==
    ASSUME TypeOK, DataInv, TypeOK', DataInv', UNCHANGED <<disk, input, dir>>
    PROVE  UNCHANGED Store!storeVars
<1> USE DEF disk, input
<1>1. Outcome' = Outcome
  BY DEF Outcome, NewManifest
<1>2. Pending' = Pending /\ \A t \in Pending : NewManifest(t)' = NewManifest(t)
  BY DEF Pending, NewManifest
<1>3. VisibleFiles' = VisibleFiles
  <2>1. CASE Pending = {}
    BY <2>1, <1>2, Visible, VisibleNext DEF VisibleCases
  <2>2. CASE Pending # {}
    BY <2>2, <1>2, Visible, VisibleNext DEF VisibleCases
  <2> QED BY <2>1, <2>2
<1> QED
  BY <1>1, <1>3, StoreStutter

\* Publishing a journal, installing or restoring an entry and archiving a
\* finished journal are invisible to callers.
LEMMA StorePrepare ==
    ASSUME SerialInv, SerialInv', NEW s \in Sessions, Preflight(s) \/ WriteJournal(s)
    PROVE  UNCHANGED Store!storeVars
<1>0. TypeOK /\ DataInv /\ CallConsistent /\ TypeOK' /\ DataInv'
  BY SerialInvParts DEF SerialInv, DataInv
<1>1. CASE dir' = dir
  BY <1>0, <1>1, StoreFrame DEF Preflight, WriteJournal, Throw, Goto, Batch
<1>2. CASE dir' # dir
  <2>1. PICK t \in Tx :
          /\ t = cur[s]
          /\ dir[t] \in {"called", "preparing"}
          /\ Pending = {}
          /\ files = old[t]
          /\ dir' \in {[dir EXCEPT ![t] = "preparing"], [dir EXCEPT ![t] = "pending"]}
          /\ UNCHANGED <<disk, input>>
    BY <1>0, <1>2 DEF Preflight, WriteJournal, Throw, CallConsistent, CallPreparing, work
  <2>2. manifest # NewManifest(t)
    BY <1>0, <2>1, TransactionConstants DEF DataInv, ManifestOwned, NewManifest
  <2>3. Outcome' = Outcome
    BY <2>1, <2>2, <1>0 DEF Outcome, NewManifest, disk, input, TypeOK
  <2>4. VisibleFiles = files
    BY <2>1, <1>0, Visible, VisibleNext DEF VisibleCases
  <2>5. VisibleFiles' = files
    <3>1. CASE dir'[t] = "pending"
      BY <3>1, <2>1, <2>2, <1>0, Visible, VisibleNext DEF VisibleCases, Pending, NewManifest, disk, input, TypeOK
    <3>2. CASE dir'[t] # "pending"
      <4>1. Pending' = {}
        BY <3>2, <2>1, <1>0 DEF Pending, TypeOK
      <4> QED
        BY <4>1, <2>1, <1>0, Visible, VisibleNext DEF VisibleCases, disk
    <3> QED BY <3>1, <3>2
  <2> QED
    BY <2>1, <2>3, <2>4, <2>5, StoreStutter DEF disk
<1> QED BY <1>1, <1>2

LEMMA StoreEntry ==
    ASSUME SerialInv, SerialInv', NEW s \in Sessions, NEW p \in Paths,
           ApplyEntry(s, p) \/ RestoreEntry(s, p)
    PROVE  UNCHANGED Store!storeVars
<1>0. TypeOK /\ DataInv /\ CallConsistent /\ TypeOK' /\ DataInv'
  BY SerialInvParts DEF SerialInv, DataInv
<1>1. PICK t \in Tx : t = cur[s] /\ dir[t] = "pending" /\ manifest # NewManifest(t)
  BY <1>0 DEF ApplyEntry, RestoreEntry, CallConsistent
<1>2. UNCHANGED <<manifest, input, dir>>
  BY DEF ApplyEntry, RestoreEntry, Throw, disk, work
<1>3. Outcome' = Outcome
  BY <1>2 DEF Outcome, NewManifest, input
<1>4. t \in Pending /\ t \in Pending' /\ (manifest # NewManifest(t))' /\ old'[t] = old[t]
  BY <1>1, <1>2 DEF Pending, NewManifest, input
<1>5. VisibleFiles = old[t] /\ VisibleFiles' = old[t]
  BY <1>0, <1>1, <1>4, Visible, VisibleNext DEF VisibleCases
<1> QED
  BY <1>2, <1>3, <1>5, StoreStutter

LEMMA StoreArchive ==
    ASSUME SerialInv, SerialInv', NEW s \in Sessions, CommitFinish(s) \/ CommitVerify(s)
    PROVE  UNCHANGED Store!storeVars
<1>0. TypeOK /\ DataInv /\ CallConsistent /\ TypeOK' /\ DataInv'
  BY SerialInvParts DEF SerialInv, DataInv
<1>1. PICK t \in Tx : t = cur[s] /\ dir[t] = "pending" /\ manifest = NewManifest(t)
  BY <1>0 DEF CommitFinish, CommitVerify, CallConsistent, ManifestState
<1>2. UNCHANGED <<disk, input>> /\ dir' \in {dir, [dir EXCEPT ![t] = "committed"]}
  BY <1>1 DEF CommitFinish, CommitVerify
<1>3. CASE dir' = dir
  BY <1>0, <1>2, <1>3, StoreFrame
<1>4. CASE dir' = [dir EXCEPT ![t] = "committed"]
  <2>1. Outcome' = Outcome
    BY <1>0, <1>1, <1>2, <1>4 DEF Outcome, NewManifest, disk, input, TypeOK
  <2>2. Pending = {t} /\ Pending' = {}
    BY <1>0, <1>1, <1>4, PendingKnown DEF Pending, TypeOK
  <2>3. VisibleFiles = files /\ VisibleFiles' = files'
    BY <1>0, <1>1, <2>2, Visible, VisibleNext DEF VisibleCases
  <2> QED
    BY <1>2, <2>1, <2>3, StoreStutter DEF disk
<1> QED BY <1>2, <1>3, <1>4

\* Three steps are visible: a call submits its transaction, the manifest write
\* applies it, a verified rollback aborts it.
LEMMA StoreSubmit ==
    ASSUME SerialUse, SerialInv, SerialInv', NEW s \in Sessions, NEW t \in Tx, Call(s, t)
    PROVE  Store!Submit(t)
<1>0. TypeOK /\ DataInv /\ TypeOK' /\ DataInv'
  BY SerialInvParts DEF SerialInv, DataInv
<1>1. dir[t] = "unused" /\ Pending = {} /\ dir' = [dir EXCEPT ![t] = "called"]
  BY DEF Call, SerialUse, Pending
<1>2. Pending' = {}
  BY <1>0, <1>1 DEF Pending, TypeOK
<1>3. VisibleFiles = files /\ VisibleFiles' = files
  BY <1>0, <1>1, <1>2, Visible, VisibleNext DEF VisibleCases, Call, disk
<1>4. Outcome[t] = "none" /\ Outcome' = [Outcome EXCEPT ![t] = "submitted"]
  <2>1. Outcome[t] = "none" /\ Outcome'[t] = "submitted"
    BY <1>0, <1>1 DEF Outcome, TypeOK
  <2>2. \A u \in Tx \ {t} : Outcome'[u] = Outcome[u]
    BY <1>0, <1>1, <1>2 DEF Outcome, Pending, TypeOK
  <2> QED
    BY <2>1, <2>2 DEF Outcome
<1> QED
  BY <1>3, <1>4 DEF Call, Store!Submit, disk

LEMMA StoreApply ==
    ASSUME SerialInv, SerialInv', NEW s \in Sessions, ApplyManifest(s), ~Throw(s)
    PROVE  \E t \in Tx : Store!Apply(t)
<1>0. TypeOK /\ DataInv /\ CallConsistent /\ TypeOK' /\ DataInv'
  BY SerialInvParts DEF SerialInv, DataInv
<1>1. PICK t \in Tx :
        /\ t = cur[s] /\ dir[t] = "pending" /\ manifest # NewManifest(t)
        /\ manifest' = NewManifest(t)
        /\ UNCHANGED <<files, input, work>>
  BY <1>0 DEF ApplyManifest, CallConsistent
<1>2. Pending = {t} /\ PendingPrefix(t) /\ manOld[t].rev = base[t]
  BY <1>0, <1>1, PendingKnown
<1>3. Pending' = {t} /\ manifest' = NewManifest(t)' /\ new' = new
  BY <1>1, <1>2 DEF Pending, NewManifest, input, work
<1>4. files = new[t]
  <2>1. PendingDone(t)'
    BY <1>0, <1>3 DEF DataInv, PendingConsistent, PendingPrefix, NewManifest
  <2> QED
    BY <2>1, <1>1, <1>3 DEF PendingDone
<1>5. VisibleFiles = old[t] /\ VisibleFiles' = new[t]
  BY <1>0, <1>1, <1>2, <1>3, <1>4, Visible, VisibleNext DEF VisibleCases
<1>6. manifest'.rev = manifest.rev + 1
  BY <1>1, <1>2 DEF PendingPrefix, NewManifest
<1>7. Outcome[t] = "submitted" /\ Outcome' = [Outcome EXCEPT ![t] = "applied"]
  <2>1. Outcome[t] = "submitted" /\ Outcome'[t] = "applied"
    BY <1>1, <1>3 DEF Outcome, work
  <2>2. \A u \in Tx \ {t} : Outcome'[u] = Outcome[u]
    BY <1>1, <1>2 DEF Outcome, Pending, work
  <2> QED
    BY <2>1, <2>2 DEF Outcome
<1> QED
  BY <1>1, <1>5, <1>6, <1>7 DEF Store!Apply, input

LEMMA StoreAbort ==
    ASSUME SerialInv, SerialInv', NEW s \in Sessions, RollbackVerify(s)
    PROVE  (\E t \in Tx : Store!Abort(t)) \/ UNCHANGED Store!storeVars
<1>0. TypeOK /\ DataInv /\ CallConsistent /\ TypeOK' /\ DataInv'
  BY SerialInvParts DEF SerialInv, DataInv
<1>1. PICK t \in Tx :
        /\ t = cur[s] /\ dir[t] = "pending" /\ manifest # NewManifest(t)
        /\ \A p \in Writes(t) : files[p] = old[t][p]
        /\ UNCHANGED <<disk, input>>
        /\ dir' \in {dir, [dir EXCEPT ![t] = "failed"]}
  BY <1>0 DEF RollbackVerify, CallConsistent
<1>2. CASE dir' = dir
  BY <1>0, <1>1, <1>2, StoreFrame
<1>3. CASE dir' = [dir EXCEPT ![t] = "failed"]
  <2>1. Pending = {t} /\ PendingPrefix(t)
    BY <1>0, <1>1, PendingKnown
  <2>2. Pending' = {}
    BY <1>0, <1>3, <2>1 DEF Pending, TypeOK
  <2>3. \A p \in Paths : files[p] = old[t][p]
    BY <1>1, <2>1 DEF PendingPrefix, Writes
  <2>4. files = old[t]
    BY <1>0, <2>3 DEF TypeOK
  <2>5. VisibleFiles = old[t] /\ VisibleFiles' = files'
    BY <1>0, <1>1, <2>1, <2>2, Visible, VisibleNext DEF VisibleCases
  <2>6. VisibleFiles' = VisibleFiles
    BY <2>4, <2>5, <1>1 DEF disk
  <2>7. Outcome[t] = "submitted" /\ Outcome' = [Outcome EXCEPT ![t] = "aborted"]
    <3>1. Outcome[t] = "submitted" /\ Outcome'[t] = "aborted"
      BY <1>0, <1>1, <1>3 DEF Outcome, TypeOK
    <3>2. \A u \in Tx \ {t} : Outcome'[u] = Outcome[u]
      BY <1>0, <1>1, <1>3, <2>1 DEF Outcome, Pending, NewManifest, disk, input, TypeOK
    <3> QED
      BY <3>1, <3>2 DEF Outcome
  <2> QED
    BY <1>1, <2>6, <2>7 DEF Store!Abort, disk, input
<1> QED BY <1>1, <1>2, <1>3

LEMMA StoreNext ==
    SerialUse /\ SerialInv /\ SerialInv' /\ [Next]_vars => [Store!Next]_(Store!storeVars)
<1> SUFFICES ASSUME SerialUse, SerialInv, SerialInv', [Next]_vars
             PROVE  Store!Next \/ UNCHANGED Store!storeVars
  OBVIOUS
<1>0. TypeOK /\ DataInv /\ CallConsistent /\ TypeOK' /\ DataInv'
  BY SerialInvParts DEF SerialInv, DataInv
<1>a. ASSUME UNCHANGED <<disk, input, dir>> PROVE UNCHANGED Store!storeVars
  BY <1>0, <1>a, StoreFrame
<1>b. ASSUME NEW s \in Sessions, Throw(s) PROVE UNCHANGED Store!storeVars
  BY <1>a, <1>b DEF Throw, work
<1>1. ASSUME NEW s \in Sessions, CallStep(s) PROVE Store!Next \/ UNCHANGED Store!storeVars
  <2>1. CASE Throw(s)
    BY <2>1, <1>b
  <2>2. CASE Preflight(s) \/ WriteJournal(s)
    BY <2>2, StorePrepare
  <2>3. CASE (\E p \in Paths : StageEntry(s, p)) \/ StageManifest(s)
    BY <2>3, <1>a DEF StageEntry, StageManifest
  <2>4. CASE CommitBegin(s) \/ RollbackBegin(s)
    BY <2>4, <1>a DEF CommitBegin, RollbackBegin, work
  <2>5. CASE \E p \in Paths : ApplyEntry(s, p) \/ RestoreEntry(s, p)
    BY <2>5, StoreEntry
  <2>6. CASE CommitFinish(s) \/ CommitVerify(s)
    BY <2>6, StoreArchive
  <2>7. CASE ApplyManifest(s) /\ ~Throw(s)
    BY <2>7, StoreApply DEF Store!Next
  <2>8. CASE RollbackVerify(s)
    BY <2>8, StoreAbort DEF Store!Next
  <2> QED
    BY <1>1, <2>1, <2>2, <2>3, <2>4, <2>5, <2>6, <2>7, <2>8
    DEF CallStep, CommitThrow, RollbackThrow
<1>2. ASSUME NEW s \in Sessions, Crash(s) PROVE UNCHANGED Store!storeVars
  BY <1>2, <1>b DEF Crash
<1>3. ASSUME NEW s \in Sessions, NEW t \in Tx, Call(s, t) PROVE Store!Next
  BY <1>3, StoreSubmit DEF Store!Next
<1>4. ASSUME NEW s \in Sessions, NEW t \in Tx, NEW action \in {"commit", "rollback"},
             Recover(s, t, action)
      PROVE  UNCHANGED Store!storeVars
  BY <1>4, <1>a DEF Recover, work
<1>5. ASSUME NEW p \in Paths, Edit(p) PROVE FALSE
  BY <1>5, <1>0 DEF Edit, SerialUse, TypeOK
<1>6. CASE UNCHANGED vars
  BY <1>6, <1>a DEF vars, work
<1> QED
  BY <1>1, <1>2, <1>3, <1>4, <1>5, <1>6 DEF Next

\* Used by one session at a time that recovers before it writes, the project is
\* an atomic store: each transaction takes effect completely when its manifest
\* is written, on the files its caller saw, or is never visible.
THEOREM TransactionsAreAtomic == ASSUME SerialUse PROVE Spec => ImplementsAtomicStore
<1>1. SerialInv /\ SerialInv' /\ [Next]_vars => [Store!Next]_(Store!storeVars)
  BY SerialUse, StoreNext
<1>2. Init => Store!Init
  BY StoreInit
<1> QED
  BY <1>1, <1>2, SerialSafe, PTL DEF Spec, ImplementsAtomicStore, Store!Spec

----------------------------------------------------------------------------
(* Preparation, with any number of uncoordinated sessions *)

PrepareInv == PreparedAlone /\ ManifestJournaled

LEMMA PrepareInit == Init => PrepareInv
  BY DEF Init, PrepareInv, PreparedAlone, ManifestJournaled

\* A session that leaves its call prepares nothing; the others go on.
LEMMA PrepareLeave ==
    ASSUME TypeInv, PrepareInv, NEW s \in Sessions, Leave(s), UNCHANGED manifest,
           \/ UNCHANGED dir
           \/ \E state \in {"committed", "failed"} :
                 dir[cur[s]] = "pending" /\ dir' = [dir EXCEPT ![cur[s]] = state]
    PROVE  PrepareInv'
<1>1. \A r \in Sessions : r # s => pc'[r] = pc[r] /\ cur'[r] = cur[r]
  BY DEF Leave, TypeInv, TypeOK
<1>2. pc'[s] = "idle"
  BY DEF Leave, TypeInv, TypeOK
<1>3. \A t \in Tx : dir[t] \in {"called", "preparing"} => dir'[t] = dir[t]
  BY DEF TypeInv, TypeOK
<1>4. \A r \in Sessions : pc'[r] \in {"called", "staging"} => cur[r] \in Tx /\ r # s
  BY <1>1, <1>2 DEF TypeInv, Busy
<1>5. PreparedAlone'
  BY <1>1, <1>2, <1>3, <1>4 DEF PrepareInv, PreparedAlone
<1>6. ManifestJournaled'
  BY TransactionConstants
  DEF PrepareInv, ManifestJournaled, TypeInv, TypeOK, ManifestContent
<1> QED
  BY <1>5, <1>6 DEF PrepareInv

LEMMA PrepareCallStep ==
    ASSUME TypeInv, PrepareInv, NEW s \in Sessions, CallStep(s)
    PROVE  PrepareInv'
<1>0. PICK t \in Tx : t = cur[s] /\ pc[s] # "idle"
  BY DEF TypeInv, Busy, CallStep, Preflight, StageEntry, StageManifest, WriteJournal,
         CommitThrow, CommitFinish, CommitBegin, ApplyEntry, ApplyManifest, CommitVerify,
         RollbackThrow, RollbackBegin, RestoreEntry, RollbackVerify
<1> USE DEF disk, input, work
<1>a. CASE Throw(s)
  BY <1>a, PrepareLeave DEF Throw
<1>b. ASSUME UNCHANGED <<manifest, dir, cur>>,
             \A r \in Sessions : pc'[r] \in {"called", "staging"} => pc'[r] = pc[r]
      PROVE  PrepareInv'
  BY <1>b DEF PrepareInv, PreparedAlone, ManifestJournaled
<1>1. CASE Preflight(s) /\ ~Throw(s)
  <2>1. /\ pc[s] = "called" /\ dir[t] = "called"
        /\ dir' = [dir EXCEPT ![t] = "preparing"]
        /\ pc' = [pc EXCEPT ![s] = "staging"] /\ cur' = cur /\ manifest' = manifest
    BY <1>1, <1>0 DEF Preflight, Batch, PrepareInv, PreparedAlone
  <2>2. \A r \in Sessions : r # s /\ pc[r] \in {"called", "staging"} => cur[r] # t
    BY <2>1, <1>0 DEF PrepareInv, PreparedAlone
  <2>3. PreparedAlone'
    BY <2>1, <2>2, <1>0 DEF PrepareInv, PreparedAlone, TypeInv, TypeOK, Busy
  <2>4. ManifestJournaled'
    BY <2>1, <1>0 DEF PrepareInv, ManifestJournaled, TypeInv, TypeOK, ManifestContent
  <2> QED BY <2>3, <2>4 DEF PrepareInv
<1>2. ASSUME NEW p \in Paths, StageEntry(s, p) PROVE PrepareInv'
  BY <1>2, <1>b DEF StageEntry, Settle
<1>3. CASE StageManifest(s)
  BY <1>3, <1>b DEF StageManifest, Settle
<1>4. CASE WriteJournal(s) /\ ~Throw(s)
  <2>1. /\ pc[s] = "staging"
        /\ dir' = [dir EXCEPT ![t] = "pending"]
        /\ pc' = [pc EXCEPT ![s] = "commit"] /\ cur' = cur /\ manifest' = manifest
    BY <1>4, <1>0 DEF WriteJournal, Goto
  <2>2. \A r \in Sessions : r # s /\ pc[r] \in {"called", "staging"} => cur[r] # t
    BY <2>1, <1>0 DEF PrepareInv, PreparedAlone
  <2>3. PreparedAlone'
    BY <2>1, <2>2, <1>0 DEF PrepareInv, PreparedAlone, TypeInv, TypeOK, Busy
  <2>4. ManifestJournaled'
    BY <2>1, <1>0 DEF PrepareInv, ManifestJournaled, TypeInv, TypeOK, ManifestContent
  <2> QED BY <2>3, <2>4 DEF PrepareInv
<1>5. CASE CommitThrow(s)
  BY <1>5, <1>a DEF CommitThrow
<1>6. CASE CommitFinish(s)
  BY <1>6, PrepareLeave DEF CommitFinish, CommitRefused
<1>7. CASE CommitBegin(s)
  BY <1>7, <1>b DEF CommitBegin, Batch, TypeInv, TypeOK
<1>8. ASSUME NEW p \in Paths, ApplyEntry(s, p) PROVE PrepareInv'
  BY <1>8, <1>b DEF ApplyEntry, Settle
<1>9. CASE ApplyManifest(s) /\ ~Throw(s)
  <2>1. /\ dir[t] = "pending" /\ manifest' = NewManifest(t)
        /\ pc' = [pc EXCEPT ![s] = "verify"] /\ cur' = cur /\ dir' = dir
    BY <1>9, <1>0 DEF ApplyManifest, Goto, StagedReadable
  <2>2. PreparedAlone'
    BY <2>1 DEF PrepareInv, PreparedAlone, TypeInv, TypeOK
  <2>3. ManifestJournaled'
    BY <2>1 DEF ManifestJournaled, NewManifest
  <2> QED BY <2>2, <2>3 DEF PrepareInv
<1>10. CASE CommitVerify(s)
  BY <1>10, PrepareLeave DEF CommitVerify
<1>11. CASE RollbackThrow(s)
  BY <1>11, <1>a DEF RollbackThrow
<1>12. CASE RollbackBegin(s)
  BY <1>12, <1>b DEF RollbackBegin, Batch, TypeInv, TypeOK
<1>13. ASSUME NEW p \in Paths, RestoreEntry(s, p), ~Throw(s) PROVE PrepareInv'
  BY <1>13, <1>b DEF RestoreEntry, Settle
<1>14. CASE RollbackVerify(s)
  BY <1>14, PrepareLeave DEF RollbackVerify
<1> QED
  BY <1>a, <1>1, <1>2, <1>3, <1>4, <1>5, <1>6, <1>7, <1>8, <1>9, <1>10, <1>11, <1>12,
     <1>13, <1>14 DEF CallStep

LEMMA PrepareNext == TypeInv /\ PrepareInv /\ [Next]_vars => PrepareInv'
<1> SUFFICES ASSUME TypeInv, PrepareInv, [Next]_vars PROVE PrepareInv'
  OBVIOUS
<1> USE DEF disk, input, work, call
<1>1. ASSUME NEW s \in Sessions, CallStep(s) PROVE PrepareInv'
  BY <1>1, PrepareCallStep
<1>2. ASSUME NEW s \in Sessions, Crash(s) PROVE PrepareInv'
  BY <1>2, PrepareLeave DEF Crash, Throw
<1>3. ASSUME NEW s \in Sessions, NEW t \in Tx, Call(s, t) PROVE PrepareInv'
  <2>1. /\ dir[t] = "unused" /\ dir' = [dir EXCEPT ![t] = "called"]
        /\ pc' = [pc EXCEPT ![s] = "called"] /\ cur' = [cur EXCEPT ![s] = t]
        /\ manifest' = manifest
    BY <1>3 DEF Call
  <2>2. \A r \in Sessions : r # s /\ pc[r] \in {"called", "staging"} =>
           cur[r] \in Tx /\ cur[r] # t
    BY <2>1 DEF PrepareInv, PreparedAlone, TypeInv, Busy
  <2>3. PreparedAlone'
    BY <2>1, <2>2 DEF PrepareInv, PreparedAlone, TypeInv, TypeOK
  <2>4. ManifestJournaled'
    BY <2>1 DEF PrepareInv, ManifestJournaled, TypeInv, TypeOK, ManifestContent
  <2> QED BY <2>3, <2>4 DEF PrepareInv
<1>4. ASSUME NEW s \in Sessions, NEW t \in Tx, NEW action \in {"commit", "rollback"},
             Recover(s, t, action)
      PROVE  PrepareInv'
  BY <1>4 DEF Recover, PrepareInv, PreparedAlone, ManifestJournaled, TypeInv, TypeOK
<1>5. ASSUME NEW p \in Paths, Edit(p) PROVE PrepareInv'
  BY <1>5 DEF Edit, PrepareInv, PreparedAlone, ManifestJournaled
<1>6. CASE UNCHANGED vars
  BY <1>6 DEF vars, PrepareInv, PreparedAlone, ManifestJournaled
<1> QED
  BY <1>1, <1>2, <1>3, <1>4, <1>5, <1>6 DEF Next

\* Preparation is harmless without any coordination: whatever sessions,
\* recoveries, crashes and edits do, the manifest in place never belongs to a
\* transaction whose journal is not complete (prepareTransaction writes
\* transaction.json last, commitPreparedTransaction reads it first).
THEOREM PreparationIsHarmless == Spec => []UnjournaledIsHarmless
<1>1. Init => TypeInv /\ PrepareInv
  BY TypeInit, PrepareInit
<1>2. TypeInv /\ PrepareInv /\ [Next]_vars => (TypeInv /\ PrepareInv)'
  BY TypeNext, PrepareNext
<1>3. TypeInv /\ PrepareInv => UnjournaledIsHarmless
  BY TransactionConstants DEF PrepareInv, ManifestJournaled, UnjournaledIsHarmless
<1> QED
  BY <1>1, <1>2, <1>3, PTL DEF Spec

----------------------------------------------------------------------------
(* One session that may ignore pending journals, files edited between calls *)

LEMMA ChecksInit == Init => ChecksStand
  BY DEF Init, ChecksStand

\* A call that is not in the middle of a batch relies on no check.
LEMMA ChecksElsewhere ==
    ASSUME OneSession, NEW s \in Sessions, pc'[s] \notin {"apply", "restore"}
    PROVE  ChecksStand'
  BY DEF OneSession, ChecksStand

LEMMA ChecksCallStep ==
    ASSUME TypeInv, ChecksStand, OneSession, NEW s \in Sessions, CallStep(s)
    PROVE  ChecksStand'
<1>0. PICK t \in Tx : t = cur[s] /\ pc[s] # "idle"
  BY DEF TypeInv, Busy, CallStep, Preflight, StageEntry, StageManifest, WriteJournal,
         CommitThrow, CommitFinish, CommitBegin, ApplyEntry, ApplyManifest, CommitVerify,
         RollbackThrow, RollbackBegin, RestoreEntry, RollbackVerify
<1> USE DEF disk, input, work
<1>a. CASE Leave(s)
  <2>1. pc'[s] = "idle"
    BY <1>a DEF Leave, TypeInv, TypeOK
  <2> QED BY <2>1, ChecksElsewhere
<1>b. \A r \in Sessions : r = s
  BY DEF OneSession
\* One entry of a batch settles: the checks of the others are not disturbed.
<1>c. ASSUME NEW p \in Paths, NEW c \in Contents, pc[s] \in {"apply", "restore"},
             files' = [files EXCEPT ![p] = c] \/ files' = files,
             todo' = [todo EXCEPT ![s] = @ \ {p}],
             UNCHANGED <<pc, cur, manifest, base, old, new>>
      PROVE  ChecksStand'
  <2>1. \A q \in todo'[s] : q \in todo[s] /\ q \in Paths /\ q # p
    BY <1>c DEF TypeInv, TypeOK, ChecksStand
  <2>2. \A q \in todo'[s] : files'[q] = files[q]
    BY <1>c, <2>1 DEF TypeInv, TypeOK
  <2>3. \A q \in todo'[s] : FileState(t, q)' = FileState(t, q)
    BY <1>c, <2>2 DEF FileState
  <2> QED
    BY <1>b, <1>c, <1>0, <2>1, <2>3 DEF ChecksStand
<1>1. CASE Preflight(s) /\ ~Throw(s)
  BY <1>1, ChecksElsewhere DEF Preflight, Batch, TypeInv, TypeOK
<1>2. ASSUME NEW p \in Paths, StageEntry(s, p) PROVE ChecksStand'
  BY <1>2, ChecksElsewhere DEF StageEntry, Settle
<1>3. CASE StageManifest(s)
  BY <1>3, ChecksElsewhere DEF StageManifest, Settle
<1>4. CASE WriteJournal(s) /\ ~Throw(s)
  BY <1>4, ChecksElsewhere DEF WriteJournal, Goto, TypeInv, TypeOK
<1>7. CASE CommitBegin(s)
  <2>1. /\ pc' = [pc EXCEPT ![s] = "apply"] /\ cur' = cur
        /\ todo' = [todo EXCEPT ![s] = {p \in Writes(t) : FileState(t, p) # "new"}]
        /\ UNCHANGED <<files, manifest, base, old, new>>
        /\ ~AnyOther(t) /\ manifest.rev = base[t]
    BY <1>7, <1>0 DEF CommitBegin, Batch, CommitRefused
  <2>2. todo'[s] \subseteq Writes(t) /\ Writes(t) \subseteq Paths /\ pc'[s] = "apply"
    BY <2>1 DEF TypeInv, TypeOK, Writes
  <2>3. \A p \in todo'[s] : FileState(t, p)' # "other"
    BY <2>1, <2>2 DEF AnyOther, FileState
  <2> QED
    BY <1>b, <1>0, <2>1, <2>2, <2>3 DEF ChecksStand
<1>8. ASSUME NEW p \in Paths, ApplyEntry(s, p) PROVE ChecksStand'
  <2>1. new[t][p] \in Contents
    BY <1>0 DEF TypeInv, TypeOK
  <2> QED
    BY <1>8, <1>0, <1>c, <2>1 DEF ApplyEntry, Settle
<1>9. CASE ApplyManifest(s) /\ ~Throw(s)
  BY <1>9, ChecksElsewhere DEF ApplyManifest, Goto, TypeInv, TypeOK
<1>12. CASE RollbackBegin(s)
  <2>1. /\ pc' = [pc EXCEPT ![s] = "restore"] /\ cur' = cur
        /\ todo' = [todo EXCEPT ![s] = {p \in Writes(t) : FileState(t, p) # "old"}]
        /\ UNCHANGED <<files, manifest, base, old, new>>
        /\ ~AnyOther(t)
    BY <1>12, <1>0 DEF RollbackBegin, Batch, RollbackRefused
  <2>2. todo'[s] \subseteq Writes(t) /\ Writes(t) \subseteq Paths /\ pc'[s] = "restore"
    BY <2>1 DEF TypeInv, TypeOK, Writes
  <2>3. \A p \in todo'[s] : FileState(t, p)' # "other"
    BY <2>1, <2>2 DEF AnyOther, FileState
  <2> QED
    BY <1>b, <1>0, <2>1, <2>2, <2>3 DEF ChecksStand
<1>13. ASSUME NEW p \in Paths, RestoreEntry(s, p), ~Throw(s) PROVE ChecksStand'
  <2>1. old[t][p] \in Contents
    BY <1>0 DEF TypeInv, TypeOK
  <2> QED
    BY <1>13, <1>0, <1>c, <2>1 DEF RestoreEntry, Settle
<1>14. ASSUME CommitFinish(s) \/ CommitVerify(s) \/ RollbackVerify(s)
              \/ CommitThrow(s) \/ RollbackThrow(s) \/ Throw(s)
       PROVE  Leave(s)
  BY <1>14 DEF CommitFinish, CommitVerify, RollbackVerify, CommitThrow, RollbackThrow, Throw
<1> QED
  BY <1>a, <1>1, <1>2, <1>3, <1>4, <1>7, <1>8, <1>9, <1>12, <1>13, <1>14 DEF CallStep

LEMMA ChecksNext ==
    ASSUME OneSession
    PROVE  TypeInv /\ ChecksStand /\ [Next]_vars => ChecksStand'
<1> SUFFICES ASSUME TypeInv, ChecksStand, [Next]_vars PROVE ChecksStand'
  OBVIOUS
<1> USE DEF disk, input, work, call
<1>1. ASSUME NEW s \in Sessions, CallStep(s) PROVE ChecksStand'
  BY <1>1, ChecksCallStep
<1>2. ASSUME NEW s \in Sessions, Crash(s) PROVE ChecksStand'
  BY <1>2, ChecksElsewhere DEF Crash, Throw, Leave, TypeInv, TypeOK
<1>3. ASSUME NEW s \in Sessions, NEW t \in Tx, Call(s, t) PROVE ChecksStand'
  BY <1>3, ChecksElsewhere DEF Call, TypeInv, TypeOK
<1>4. ASSUME NEW s \in Sessions, NEW t \in Tx, NEW action \in {"commit", "rollback"},
             Recover(s, t, action)
      PROVE  ChecksStand'
  BY <1>4, ChecksElsewhere DEF Recover, TypeInv, TypeOK
<1>5. ASSUME NEW p \in Paths, Edit(p) PROVE ChecksStand'
  BY <1>5 DEF Edit, ChecksStand
<1>6. CASE UNCHANGED vars
  BY <1>6 DEF vars, ChecksStand, FileState
<1> QED
  BY <1>1, <1>2, <1>3, <1>4, <1>5, <1>6 DEF Next

\* The files a step of a running call may change are those of its batch.
LEMMA OnlyBatchWritten ==
    ASSUME TypeInv, OneSession, [Next]_vars, NEW s \in Sessions,
           pc[s] \in {"apply", "restore"}, NEW p \in Paths, files'[p] # files[p]
    PROVE  p \in todo[s]
<1> USE DEF disk, input, work, call
<1>1. ASSUME NEW r \in Sessions, CallStep(r) PROVE p \in todo[s]
  <2>1. r = s
    BY DEF OneSession
  <2>2. ASSUME NEW q \in Paths, ApplyEntry(r, q) PROVE p \in todo[s]
    BY <2>1, <2>2 DEF ApplyEntry, TypeInv, TypeOK
  <2>3. ASSUME NEW q \in Paths, RestoreEntry(r, q) PROVE p \in todo[s]
    BY <2>1, <2>3 DEF RestoreEntry, Throw, TypeInv, TypeOK
  <2> QED
    BY <1>1, <2>2, <2>3
    DEF CallStep, Preflight, StageEntry, StageManifest, WriteJournal, CommitThrow,
        CommitFinish, CommitBegin, ApplyManifest, CommitVerify, RollbackThrow,
        RollbackBegin, RollbackVerify, Throw
<1> QED
  BY <1>1 DEF Next, Crash, Throw, Call, Recover, Edit, vars

\* The manifest is only written at the end of a commit.
LEMMA OnlyCommitInstalls ==
    ASSUME TypeInv, [Next]_vars, manifest' # manifest
    PROVE  \E s \in Sessions : pc[s] = "apply" /\ manifest' = NewManifest(cur[s])
<1>1. ASSUME NEW s \in Sessions, CallStep(s)
      PROVE  \E r \in Sessions : pc[r] = "apply" /\ manifest' = NewManifest(cur[r])
  <2>1. CASE ApplyManifest(s)
    BY <2>1 DEF ApplyManifest, Throw, disk
  <2>2. CASE RollbackThrow(s) \/ RollbackBegin(s) \/ (\E p \in Paths : RestoreEntry(s, p)) \/ RollbackVerify(s)
    BY <2>2 DEF RollbackThrow, RollbackBegin, RestoreEntry, RollbackVerify, Throw, disk, work
  <2>3. CASE \/ Preflight(s) \/ (\E p \in Paths : StageEntry(s, p)) \/ StageManifest(s)
             \/ WriteJournal(s)
    BY <2>3 DEF Preflight, StageEntry, StageManifest, WriteJournal, Throw, disk, work
  <2>4. CASE \/ CommitThrow(s) \/ CommitFinish(s) \/ CommitBegin(s)
             \/ (\E p \in Paths : ApplyEntry(s, p)) \/ CommitVerify(s)
    BY <2>4 DEF CommitThrow, CommitFinish, CommitBegin, ApplyEntry, CommitVerify, Throw, disk, work
  <2> QED
    BY <1>1, <2>1, <2>2, <2>3, <2>4 DEF CallStep
<1> QED
  BY <1>1 DEF Next, Crash, Throw, Call, Recover, Edit, disk, input, work, call, vars

\* One session, even one that leaves journals pending and starts other
\* transactions, never overwrites a file it found changed by someone else:
\* commit and rollback check every entry before they write the first, and the
\* checks still stand when the last is written.
THEOREM ForeignContentsKept == ASSUME OneSession PROVE Spec => NoClobber
<1>1. Init => TypeInv /\ ChecksStand
  BY TypeInit, ChecksInit
<1>2. TypeInv /\ ChecksStand /\ [Next]_vars => (TypeInv /\ ChecksStand)'
  BY TypeNext, ChecksNext
<1>3. ASSUME TypeInv, ChecksStand, [Next]_vars
      PROVE  [\A s \in Sessions : pc[s] \in {"apply", "restore"} /\ pc'[s] = pc[s] =>
                \A p \in Paths : files'[p] # files[p] =>
                   FileState(cur[s], p) # "other"]_vars
  BY <1>3, OnlyBatchWritten DEF ChecksStand
<1> QED
  BY <1>1, <1>2, <1>3, PTL DEF Spec, NoClobber

\* For one session the manifest revision counts the installed manifests, also
\* when interrupted transactions are picked up in any order after later ones:
\* a commit that no longer finds the revision it was prepared for is refused.
THEOREM RevisionsInOrder == ASSUME OneSession PROVE Spec => RevisionAdvances
<1>1. Init => TypeInv /\ ChecksStand
  BY TypeInit, ChecksInit
<1>2. TypeInv /\ ChecksStand /\ [Next]_vars => (TypeInv /\ ChecksStand)'
  BY TypeNext, ChecksNext
<1>3. ASSUME TypeInv, ChecksStand, [Next]_vars
      PROVE  [manifest' # manifest => manifest'.rev = manifest.rev + 1]_vars
  <2>1. SUFFICES ASSUME manifest' # manifest PROVE manifest'.rev = manifest.rev + 1
    OBVIOUS
  <2>2. PICK s \in Sessions : pc[s] = "apply" /\ manifest' = NewManifest(cur[s])
    BY <1>3, <2>1, OnlyCommitInstalls
  <2> QED
    BY <1>3, <2>2 DEF ChecksStand, NewManifest
<1> QED
  BY <1>1, <1>2, <1>3, PTL DEF Spec, RevisionAdvances

----------------------------------------------------------------------------
(* Progress of a call, with any number of uncoordinated sessions *)

\* Steps that a call is away from its end.
StepRank == [called |-> 5, staging |-> 4, commit |-> 3, apply |-> 2, verify |-> 1,
             rollback |-> 2, restore |-> 1, idle |-> 0]

Untouched(s) ==
    pc'[s] = pc[s] /\ cur'[s] = cur[s] /\ todo'[s] = todo[s] /\ broken'[s] = broken[s]

Advanced(s) ==
    \/ StepRank[pc'[s]] < StepRank[pc[s]]
    \/ /\ pc'[s] = pc[s] /\ cur'[s] = cur[s]
       /\ todo'[s] \subseteq todo[s] /\ todo'[s] # todo[s]

\* No step leads a call back or adds to its batch, whatever other sessions,
\* crashes and edits do to the files in between: each step that touches a
\* running call reaches a later step of it or settles an entry of its batch.
CallAdvances == [][\A s \in Sessions : pc[s] # "idle" => Untouched(s) \/ Advanced(s)]_vars

LEMMA CallStepAdvances ==
    ASSUME TypeInv, NEW s \in Sessions, CallStep(s)
    PROVE  Advanced(s) /\ \A r \in Sessions \ {s} : Untouched(r)
<1> USE DEF TypeInv, TypeOK, Untouched
<1>a. ASSUME pc[s] # "idle", Leave(s)
      PROVE  Advanced(s) /\ \A r \in Sessions \ {s} : Untouched(r)
  BY <1>a DEF Leave, Advanced, StepRank, Steps
<1>b. ASSUME NEW e \in todo[s], NEW flag \in BOOLEAN, Settle(s, e, flag)
      PROVE  Advanced(s) /\ \A r \in Sessions \ {s} : Untouched(r)
  BY <1>b DEF Settle, Advanced
<1>1. CASE Preflight(s)
  BY <1>1, <1>a DEF Preflight, Throw, Batch, Advanced, StepRank
<1>2. ASSUME NEW p \in Paths, StageEntry(s, p)
      PROVE  Advanced(s) /\ \A r \in Sessions \ {s} : Untouched(r)
  BY <1>2, <1>b DEF StageEntry
<1>3. CASE StageManifest(s)
  BY <1>3, <1>b DEF StageManifest
<1>4. CASE WriteJournal(s)
  BY <1>4, <1>a DEF WriteJournal, Throw, Goto, Advanced, StepRank
<1>5. CASE \/ CommitThrow(s) \/ CommitFinish(s) \/ CommitVerify(s)
           \/ RollbackThrow(s) \/ RollbackVerify(s)
  BY <1>5, <1>a DEF CommitThrow, CommitFinish, CommitVerify, RollbackThrow, RollbackVerify, Throw
<1>6. CASE CommitBegin(s) \/ RollbackBegin(s)
  BY <1>6 DEF CommitBegin, RollbackBegin, Batch, Advanced, StepRank
<1>7. ASSUME NEW p \in Paths, ApplyEntry(s, p)
      PROVE  Advanced(s) /\ \A r \in Sessions \ {s} : Untouched(r)
  BY <1>7, <1>b DEF ApplyEntry
<1>8. CASE ApplyManifest(s)
  BY <1>8, <1>a DEF ApplyManifest, Throw, Goto, Advanced, StepRank
<1>9. ASSUME NEW p \in Paths, RestoreEntry(s, p)
      PROVE  Advanced(s) /\ \A r \in Sessions \ {s} : Untouched(r)
  BY <1>9, <1>a, <1>b DEF RestoreEntry, Throw
<1> QED
  BY <1>1, <1>2, <1>3, <1>4, <1>5, <1>6, <1>7, <1>8, <1>9 DEF CallStep

\* The progress behind CallsEnd: with finitely many paths a call has finitely
\* many steps left, and none of them is undone.
THEOREM CallsOnlyAdvance == Spec => CallAdvances
<1>1. ASSUME TypeInv, [Next]_vars
      PROVE  [\A s \in Sessions : pc[s] # "idle" => Untouched(s) \/ Advanced(s)]_vars
  <2> SUFFICES ASSUME NEW s \in Sessions, pc[s] # "idle" PROVE Untouched(s) \/ Advanced(s)
    OBVIOUS
  <2>1. ASSUME NEW r \in Sessions, CallStep(r) PROVE Untouched(s) \/ Advanced(s)
    BY <1>1, <2>1, CallStepAdvances
  <2>2. ASSUME NEW r \in Sessions, Crash(r) PROVE Untouched(s) \/ Advanced(s)
    <3>1. CASE r = s
      <4>1. pc'[s] = "idle" /\ pc[s] \in Steps \ {"idle"}
        BY <1>1, <2>2, <3>1 DEF Crash, Throw, Leave, TypeInv, TypeOK
      <4> QED BY <4>1 DEF Advanced, StepRank, Steps
    <3>2. CASE r # s
      BY <1>1, <2>2, <3>2 DEF Crash, Throw, Leave, TypeInv, TypeOK, Untouched
    <3> QED BY <3>1, <3>2
  <2>3. ASSUME NEW r \in Sessions, NEW t \in Tx, Call(r, t) PROVE Untouched(s) \/ Advanced(s)
    BY <1>1, <2>3 DEF Call, TypeInv, TypeOK, Untouched
  <2>4. ASSUME NEW r \in Sessions, NEW t \in Tx, NEW action \in {"commit", "rollback"},
               Recover(r, t, action)
        PROVE  Untouched(s) \/ Advanced(s)
    BY <1>1, <2>4 DEF Recover, TypeInv, TypeOK, Untouched
  <2>5. ASSUME NEW p \in Paths, Edit(p) PROVE Untouched(s) \/ Advanced(s)
    BY <2>5 DEF Edit, call, Untouched
  <2>6. CASE UNCHANGED vars
    BY <2>6 DEF vars, call, Untouched
  <2> QED
    BY <1>1, <2>1, <2>2, <2>3, <2>4, <2>5, <2>6 DEF Next
<1> QED
  BY <1>1, TypeInit, TypeNext, PTL DEF Spec, CallAdvances
=============================================================================
