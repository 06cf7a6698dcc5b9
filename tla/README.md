# TLA+ specifications of research-agent

research-agent keeps a research project as plain files on disk: a manifest (`research-project.json`), one JSON file per
record, and the artifacts. Tools called by a language model, slash commands of the user, and several processes at a time
read and write it; the network is reached only through a broker that asks the project's policy. This directory holds
specifications of the parts whose correctness depends on the order of steps, TLC configurations that check them on small
instances, and proofs that TLAPS checks for all instances. Paths below are relative to `packages/`.

## Contents

| Module | Models | Runs | Proofs |
|---|---|---|---|
| `ProjectTransactions` | `research-agent/src/project/transactions.ts`, its callers in `records.ts`, `/research-recover` | 4 | `ProjectTransactionsProofs` |
| `AtomicStore` | what the transactions promise their callers (abstract) | as a property | refinement in `ProjectTransactionsProofs` |
| `ProjectMigration` | `research-agent/src/project/migrate.ts`, the backup it takes, `/research-migrate` | 1 | `ProjectMigrationProofs` |
| `GovernedRequests` | operations, policy, approvals and HTTP broker of `research-agent/src`, `/research-policy` | 2 | `GovernedRequestsProofs` |
| `EvidenceRecords` | what evidence, claims and the document promise their readers (abstract) | as a property | refinement in `EvidenceLedgerProofs` |
| `EvidenceLedger` | `research-agent/src/tools/evidence.ts`, `evidence/commit.ts`, `tools/documents.ts`, the tool `commit_evidence` | 1 | `EvidenceLedgerProofs` |
| `ArtifactGates` | `research-agent/src/tools/artifacts.ts`, `artifacts/gates.ts`, the artifact tool, on top of `EvidenceRecords` | 1 | `ArtifactGatesProofs` |
| `AgentRun` | `agent/src/agent.ts`, `agent-loop.ts`, prompting in `coding-agent/src/core/agent-session.ts` | 1 | `AgentRunProofs` |
| `LiveSessions` | `server/src/sessions.ts`, `server/src/server.ts` | 1 | `LiveSessionsProofs` |
| `KeyedOperationQueue` | `agent/src/harness/session/keyed-operation-queue.ts` | 1 | `KeyedOperationQueueProofs` |

`MC*.tla` hold the symmetry sets and constant values of the configurations. `PROJECT.json` maps each definition to the
lines it stands for and lists runs, mutants, findings, hazards and theorems.

## Inventory

The repository is the research agent itself (`research-agent`, `research-agent-contracts`) on top of retained packages of
the Pi agent framework (`agent`, `ai`, `coding-agent`, `tui`, `client`, `server`, `protocol`, `storage`, `evals`).

**Project store** (`research-agent/src/project`). State: the manifest with its revision, record files, transaction
directories under `.research/transactions/{pending,committed,failed}`, migrations under `.research/migrations`, backups, a
derived index. Operations: initialise, open, commit or roll back a transaction, create and update records, migrate, roll a
migration back, back up, restore, doctor. Everything else in the program writes through it. Hard: no lock protects a
project, a process may die between any two file operations, and recovery is itself interruptible. Correct means: a
transaction is all or nothing, what is interrupted can be resolved, revisions only move forward, a migrated project can
go back without loss.

**Governance** (`research-agent/src/{security,access,kernel,tools/operations.ts}`, `extension/tools.ts`). State: operation and
approval records, the policy in the manifest, recorded cost. Operations: start and finish an operation, evaluate a
request against the policy, ask the user, record the approval, send with retries, record response and cost; edit the
policy. It runs as long chains of commits, with a dialog and network calls in between, while another process may change
policy or approvals. Correct means: nothing leaves the machine that the policy of that moment does not allow, nothing is
sent without a record, spend stays within the limit, a user who confirms a change gets the change that was shown.

**Research content** (`tools`, `evidence`, `citations`, `artifacts`, `literature`, `documents`, `analysis`, `knowledge`,
`exchange`, `domain`, `routing`). State: records of sources, evidence, claims, tasks, artifacts. Each operation reads
records one by one, outside any transaction, computes, and commits once or several times, each time with the revision it
opened last. Hard: other calls commit between the reads and the commits, and after a commit of several the rest may fail.
Correct means: evidence is not duplicated, replaced twice or kept when its text is gone, what a commit rests on still
holds when it succeeds, gates let only content out whose claims rest on active evidence.

**Interfaces** (`extension`, `sdk`, `rpc`, `adapters`). Commands, tools and remote calls that drive the above; adapters
run as child processes. The tools are registered with `executionMode: "sequential"`, so in one process a tool call
overlaps only with a command; two processes overlap freely.

**Agent framework** (`agent`, `coding-agent/src/core/agent-session.ts`, `client`, `server`, `protocol`, `storage`). State: the
running turn, steering and follow-up queues, retries, live sessions with their connections, leases, sessions on disk behind
operation queues. Hard: promise callbacks in any order, disposal against attachment, messages queued as a run ends,
overlapping prompts, listeners that throw. Correct means: messages arrive once and in order, a request follows the results
of all tool calls, an abort ends a run, a session has one runtime that is disposed once, everybody is answered. `ai`, the
rest of `coding-agent`, and `tui` are providers, host application and rendering.

PROJECT.json has the full list of components with the status of each, and the main hazards with their lines.

## The modules

### ProjectTransactions and AtomicStore

A transaction replaces, creates or deletes files and writes the manifest last. State: the files and the manifest, and for
each transaction its directory (`dir`), what its caller saw (`base`, `old`), what it installs (`new`), the manifest it
found (`manOld`) and which staged files are still there (`staged`); per process the step of its call (`pc`, `cur`, `todo`,
`broken`). A file's content is its hash.

`Call` is a writer that has read the project and computed its changes; `Preflight`, `StageEntry`, `StageManifest`,
`WriteJournal` are `prepareProjectTransaction`; `CommitRefused` .. `CommitVerify` are `commitPreparedTransaction`;
`RollbackRefused` .. `RollbackVerify` are `rollbackPreparedTransaction`; `Recover` is `/research-recover` with either choice.
`Batch` and `Settle` are `settleBatch`: entries run in any order, all settle before the first error is thrown. `Crash` stops
a process at any step; `Edit` is another program that changes a file.

`AtomicStore` has one step per transaction, `Apply`, possible only if the store still is what the caller saw. The
refinement mapping takes a pending transaction that is partly applied for the old contents, until its manifest is in
place; that moment is `Apply`.

### ProjectMigration

State: the manifest (schema, revision, writer), the lock file, the place of each migration's directory, its snapshots and
backup, and the step of each process. Actions follow the command: confirm, `AcquireLock`, `OpenAndDiscard`,
`ChoosePending` (resume or prepare), `CreateBackup`, `StageSnapshots`, `PublishPending`, `CommitCheck`, `CommitInstall`,
`CommitFinish`, `ReleaseLock`; and `Rollback*`, which takes no lock. `Update` is an ordinary transaction, `Crash` leaves the
lock file behind, `OperatorUnlock` is the removal of a stale lock that the error message asks for, allowed only when no
migrator is alive.

### GovernedRequests

State: policy, operation records (status, receipt, response, cost), approvals (which operation under which policy), what
was really sent, and per actor its step, its local variables and whether the revision in its hands is still the
project's. Every commit is one step that succeeds only with a current revision and makes everybody else's stale; that
is what AtomicStore promises, and ProjectTransactions shows when the promise holds. A tool call is `Begin`, `Create`,
`Start`, the effect with any number of broker calls (`GovernedRequest`, `Broker*`, the dialog, `RecordApproval`,
`LinkApproval`, `CommitReceipt`, `Send`, `Answered`, `CommitResponse`), `Finish`, and the conflict and failure paths of each.
`Edit*` are the chained commits of `/research-policy`. A policy has a rule for each class of action, the network default and
the hard limit of the budget, or none (`budgetHardLimit`, `Permitted`); an edit replaces all of it. A paid request costs 1.
The attempts end as the loop does: `Send` leaves it when the attempts are used up, and the response is committed.

### EvidenceRecords and EvidenceLedger

`EvidenceRecords` has one step per commit: a card is created (and the card it supersedes ceases to be active), invalidated,
a claim is created on active evidence, a link is added, the document is fetched or parsed again. A card's draft is what
`evidenceFingerprint` covers: the text it quotes (`None` for one taken from the abstract), the link it asks for, the card it
supersedes.

`EvidenceLedger` has the calls. Per call: its step and local variables (`call`), and whether the revision it opened is still
the project's (`fresh`; every commit empties it). `commit_evidence` is `StartEvidence`, for each claim `OpenClaim`,
`CheckClaim`, `CommitClaim`, for each card `ReadForCard`, `AddInputs`, `OpenCard`, `CheckCard`, `CommitCard`, `LinkClaim`, and the
conflicts of each, which reject one draft and go on, or end the call where the code does. `acquireDocument` and
`parseDocument` are `StartDocument`, `UpdateDocument` and the sweep of `invalidateStaleEvidenceForDocument`, one card a step
(`SweepCard`), which a conflict ends in the middle. `origin` and `inputs` are what the sweep asks: whether the operation that
extracted a card names the current text. `swept` is history: the last revision whose sweep finished.

The excerpt of a card is identified with the text it is in; the checks of quotation and locator inside `validateEvidenceCardDraft`
are the condition that the document has this text. `CheckClaim` may commit or return an existing claim with the same links,
because the fingerprint also covers the wording.

### ArtifactGates

On the records of `EvidenceRecords`, which `Others` changes at any time (composition by `R!Next`; `EvidenceLedger` shows
that the tools do nothing else). A generation names claims, cards and the document in any order, reads them in this order
and then what they rest on, one record a step (`Load`), lists the project's claims (`Loaded`), evaluates the gates
(`Evaluate`), asks the user for a submission candidate (`Confirm`), evaluates again and commits (`CreateArtifact`). A
validation reads the same records again, with the revisions the artifact names (`StartValidate`, `Load` or `LoadConflict`,
`Loaded`, `Validate`). `GateFails`, `GateWarns`, `GateStatus` and `Publishability` are `evaluateArtifactGates` and
`actualPublishability`, with an arbitrary outcome for sources, citations and files. `stood` and `outdated` are history:
the claims that stood in the project when the call read them, or when the validation began, and the claims it read after a
card of theirs that it took for active had ceased to be.

### AgentRun

Three layers run as one state machine at the granularity of awaits. `AgentSession.prompt` (`Preflight`, `RunPrompt`, the work
after a run: `PrepareRetry`, `BackoffEnds`, `AbortRetry`, `NoRetry`, `CheckQueued`, `Continue`, `Settle`); the agent
(`activeRun`, `queue`, `StartRun`, `FinishRun`, `RunFails`); the loop (`AddPrompt`, `Inject`, `FirstPoll`, `Answer`, `AnswerStops`,
`PollSteering`, `StopAfterTurn`, `PollFollowUp`, `RunEnds`) with its batches of tool calls (`PrepareCall`, `FailCall`, `BreakCalls`,
`ExecuteCalls`, `CallEnds`, `AddResult`, `CallsDone`). Messages of a queue carry the number with which they were sent; `delivered`
and `dropped` are history. Of the transcript two things are kept: the kind of its last message (`last`), which decides what
`continue()` does, and the results of the last answer's tool calls, also when the run ends (`tools`). `tools.cut` is set when a run
ends among the calls or aborted, so that results may be missing for good. A failing run adds its error message, or fails
again before it does; `PrepareRetry` takes the message away again, and what was before it is the last one.

### LiveSessions

State: connections with their stage, the maps `liveSessions` and `openingSessions`, the `LiveSession` objects (identified with
the request that creates them), the requests being executed and how far `close` has come. Every await is the border of two
steps: acquiring a runtime, its snapshot, its disposal, a request that shares an opening (`SharerContinues`) or waits for a
disposal (`AcquireAgain`). `MaybeDispose` is part of every action after which the code calls it. The backend and runtimes may
fail (`MaxFaults`), connections close at any time, and `Close` meets all of this. One behaviour is described here and
forbidden by no property: if the opener's connection goes away while a second request shares the opening, the second is
attached to a session whose disposal has begun, and its requests are refused as not live until it attaches again.

### KeyedOperationQueue

A promise is identified with the operation that settles it. State: for each operation its step, key, the operations
before it (history) and the promises it awaits; `tails`, `barrier`, the permit count and waiters, one call of `drain`.
`Enqueue`, `EnqueueBarrier`, `RunOperation` with `AcquirePermit`, `Settle` with `releasePermit`, `ForgetTail` (the cleanup
callback), `Drain`, `DrainReturns`. Promise callbacks run in any order.

## Runs

| Run | Instance | Shows |
|---|---|---|
| `transactions_recover_first` | 1 process, 2 files, 2 contents, 2 transactions, crashes anywhere | `ManifestImpliesFiles`, `RecoveryPossible`, and that the protocol implements `AtomicStore` |
| `transactions_one_session` | the same, pending journals may be ignored, 1 outside edit | `NoClobber`, `RevisionAdvances` |
| `transactions_two_sessions` | 2 processes, 1 file, fairness | `UnjournaledIsHarmless`, `CallsEnd` |
| `transactions_commit_choice` | violation | after an interrupted rollback the commit choice fails |
| `migration_concurrent` | 2 processes, 3 migrations, 2 updates, crashes, stale locks | `AtMostOnePending`, `BackedUp` |
| `requests_overlapping` | a tool call and 2 policy edits overlap, crashes, 2 attempts, 2 broker calls, 3 policies | `OneRecordedRequest`, `EgressAuthorised`, `PolicyReplacedAsShown` |
| `requests_serial` | one call at a time, no crash, 2 paid calls of 2 attempts, 1 policy edit, 4 policies with the limits 2, 3, 4 and none, fairness | `SpendWithinLimit`, `Accounted`, `ResponseRecorded` |
| `evidence` | 2 calls, 3 cards or 2 and a claim, 1 text, 1 update of the document | `RecordsHold` (the calls implement `EvidenceRecords`), `OneActivePerFingerprint`, `SupersededByOne`, `SweptIsCurrent` |
| `artifacts` | 1 generation from claims, a card and the document, 1 validation, 1 card, 2 claims, 2 relations, records changing throughout | `CreatedStood`, `ValidatedStood` |
| `agent` | 2 prompts, 2 steering messages one at a time and 1 follow-up, 2 tool calls an answer, 1 retry, fairness | `InOrder`, `NothingLost`, `OneSteeringMessage`, `ResultsBeforeRequest`, `SequentialAlone`, `IdleIsIdle`, `SteeringIsTaken`, `AbortEnds` |
| `sessions` | 2 connections, 1 session, 3 requests, 1 failure, fairness | `SingletonRuntime`, `OperationsAreServed`, `DisposedOnce`, `EventsReachAttached`, `NoneKeptForever`, `CloseReleasesAll`, `RequestsAnswered` |
| `queue` | 3 operations, 3 keys and barriers, 2 permits, fairness | `Serialised`, `PermitsConserved`, `DrainComplete`, `JobsSettle` |

Each module's `TypeOK` is proved as a theorem for all instances and is left out of the runs, as are `OneMigrator` and
`Exclusive`, which follow the same way. Every property has a mutant: a plausible bug in one definition (kept
beside it in the module and named as such) for which TLC finds the property violated.

The violation is a disagreement between documentation and code, quoted in `PROJECT.json`. TLC shows more of them when a constant
or a property is changed:

- A process that dies while it prepares a transaction leaves a pending directory without a journal
  (`transactions.ts:228`), which `/research-recover` offers and neither choice resolves: in `transactions_recover_first`,
  `AtRest` does not imply that no directory is `"preparing"`.
- With `RecoverFirst = FALSE`, `RecoveryPossible` fails: a second transaction over a half-applied one makes the first
  journal irresolvable. `docs/project-format.md:97` promises the choice of commit or rollback for interrupted work.
- With two sessions, `RollbackLossless` of ProjectMigration fails: another process commits between the hash check and the
  manifest write of `rollbackProjectMigration` (`migrate.ts:309-313`). It is proved for one.
- A crash between the manifest write and the journal move leaves a current project with a pending migration, and
  `/research-migrate` returns (`commands.ts:837`) before the branch that would complete it.
- With `Serial = FALSE` or `Crashes = TRUE` in `RequestsSerial.cfg`, `SpendWithinLimit` and `Accounted` fail, since the
  budget check reserves nothing and the cost is recorded with the response.
- Without `~overlapped`, `IdleIsIdle` fails: two prompts that both found the session idle, one of them refused by the
  agent, which then declares the session idle while the other one runs.
- Without `outdated`, `CreatedStood` fails: a request that names evidence before the claim reads the card as active, the
  card is invalidated, then the claim is read, and the gates pass although the claim did not rest on active evidence any
  more (`tools/artifacts.ts:283-306`). A later validation refuses such an artifact, since the card has another revision.
- `OneSteeringMessage` speaks of one run. `coding-agent/docs/rpc.md:348` says "Deliver one steering message per completed
  assistant turn (default)", and `coding-agent/README.md:232` that one-at-a-time "waits for response". With two messages
  queued, a run that adds the first and fails before the answer is retried, and the first poll of the retry adds the
  second to the same request (`agent-loop.ts:167`): counted over runs until an answer, `steered` reaches two.
- `ResultsBeforeRequest` fails without `tools.cut`: a run that is aborted or fails among its tool calls ends, and the next
  prompt or the retry sends a request without the results that are left. The providers' `transformMessages` puts "No
  result provided" in their place (`ai/src/api/transform-messages.ts:158-175`), outside this model.

**Bounds.** Two transactions suffice for a transaction over a pending one and for two writers from one revision; two files
give a half-applied state, two contents make replace, create and delete possible. `MaxEdits` bounds outside edits: one
edit is enough for foreign content. Two processes race for a lock, and with a third migration one can be pending, one
rolled back and one new. Two paid calls of two attempts against a limit of three are the smallest case in which retries
overshoot, and the edit may lower the limit below what has been spent or raise it to the exact cost; a second edit is
needed for one edit to replace what another one installed after its user looked; `MaxCalls` = 2 lets an effect call the
broker again after any outcome. Three operations over three keys with two permits make one wait for a permit, and two of
them conflict with the third; the proofs cover larger queues. Two calls are what a race over a fingerprint, a superseded
card or a sweep takes; with three cards two calls replace the same one, with two and a claim a card is linked, replaced or
escapes a sweep (`FewRecords`, `MaxRecords` = 3; then only cards of the full text are drafted, `FewDrafts`); a text and
its absence, with one update, make a card stale and current again. One claim of the project outside the artifact needs two
claims; one card is shared by both and may be invalidated between their reads; exploratory artifacts, of which nothing is
claimed, are left out (`Gated`), and a request that names the document names at most one other record (`FewNamed`). Two
steering messages and two polls, a follow-up, and a retry are the smallest case in which a message is overtaken or taken
twice; two tool calls give an order of results and a mixed batch; two prompts overlap, and once they have, an answer has
at most one call (`SmallBatches`). Three requests are an opener, a sharer and one after disposal; one failure is enough
for each error path. `CHECK_DEADLOCK FALSE` is used throughout because ids are used up: a project where nobody calls
anything more is a normal end.

**Fairness.** `FairSpec` of ProjectTransactions: a call that can take its next file-system step does, since node's file
operations complete; crashes and the start of calls are not forced. `LiveSpec` of GovernedRequests: file operations complete
and the service answers or fails. The transport sets no time limit of its own, so the second is an assumption about the
network, not something the code enforces; the user's answer, an abort and the start of calls are not assumed. `LiveSpec` of
KeyedOperationQueue: promise callbacks run and operations end; nobody is forced to enqueue or to drain. `LiveSpec` of AgentRun:
promises are continued, the model answers and honours the abort signal (an assumption about providers), tools end;
prompts, messages, aborts and failures are not forced. `SteeringIsTaken` excepts a user who cancels retries for ever.
`LiveSpec` of LiveSessions: continuations run, the backend and the runtimes answer, work ends, closed connections are
noticed; requests, failures and the close of the server are not forced. All are weak fairness.

## Proofs

| Theorem | Statement |
|---|---|
| `TypeCorrect` | the transaction state is well typed (any processes, files, contents, transactions) |
| `ManifestLast`, `RecoveryNeverStuck`, `TransactionsAreAtomic` | under `SerialUse`: the manifest is in place only with all its files; every journal can be resolved; the protocol implements `AtomicStore` |
| `PreparationIsHarmless` | `UnjournaledIsHarmless`, for any overlapping processes, recoveries, crashes and edits |
| `ForeignContentsKept`, `RevisionsInOrder` | `NoClobber` and `RevisionAdvances` under `OneSession`, pending journals ignored or not |
| `CallsOnlyAdvance` | a call never goes back nor adds to its batch, for any processes |
| `MigrationTypeCorrect`, `LockExcludes`, `PendingIsUnique`, `MigratedIsBackedUp` | the migration properties, for any number of processes and migrations |
| `RollbackIsLossless` | under `OneSession`: rollback undoes the migration and nothing else |
| `RequestsTypeCorrect`, `RequestIsRecorded`, `EgressIsAuthorised`, `PolicyIsReplacedAsShown` | the request properties for any number of overlapping calls and edits, with crashes |
| `LedgerInvariant`, `CallsAreAccounted`, `SpendIsLimited` | under `SerialUse` and with finitely many calls: the ledger is exact when a call has returned; what is sent costs no more than the limit |
| `LedgerIsBacked`, `RequestsWindDown`, `CommitsAlwaysPermitted` | with overlap and crashes: the ledger never holds more than was spent; a recorded request only gets nearer to its response; a stale revision is the only refusal a commit of a call meets |
| `LedgerTypes`, `NoDuplicateEvidence`, `OneSuccessor`, `NoStaleEvidenceAfterSweep`, `ToolsImplementRecords` | the ledger's properties and its refinement of `EvidenceRecords`, for any calls, cards, claims and texts |
| `GateTypes`, `ArtifactClaimsStood`, `ValidArtifactsStood` | the gates' properties for any artifacts, validations and records |
| `AgentTypeCorrect`, `IdleMeansIdle`, `RequestsHaveResults`, `SequentialToolsRunAlone`, `MessagesInOrder`, `NoMessageLost`, `OneSteeringPerRequest` | the agent's safety for any prompts, messages, tool calls, retries and modes |
| `BatchNeverStuck`, `AbortedRunsWindDown` | a batch of tool calls can always go on; an aborted run prepares no further tool call and only gets nearer to its end |
| `ActiveSessionGoesOn`, `SteeringGetsNearer` | while the session is marked active, a prompt call works, and if it runs so does the loop; without overlap and cancelled retries, its steps take the first steering message or get nearer to a poll |
| `SessionsTypeCorrect`, `RuntimeIsSingleton`, `OperationsKeepRuntime`, `DisposedAtMostOnce`, `EventsOnlyToAttached` | the sessions' safety for any connections, sessions, requests and failures |
| `CloseLeavesNoRuntime`, `UnneededIsNoticed`, `NobodyWaitsInCircle` | once `close` has taken the sessions no runtime is held; a session that nobody needs is about to be disposed; requests and `close` wait only for the backend and for runtimes |
| `QueueTypeCorrect`, `OrderIsKept`, `ConflictsExclude`, `PermitsAreConserved`, `DrainIsComplete` | the queue's safety for any operations, keys and limit |
| `QueueNeverStuck`, `JobsOnlyAdvance` | an operation can go on as long as one has not settled; no operation goes back |

*Transactions.* `SerialUse` says that sessions do not overlap, each resolves a pending journal before it writes, and nobody
else edits files; the code does not enforce this, and the properties fail without it (see Runs).
`SerialInv` adds to the types: at most one journal is pending; the current manifest belongs to a transaction that is
pending or committed; a pending transaction is either partly applied under the manifest it found, or completely applied
under its own; undoing what is pending gives the result of the last commit; and what a process knows at each step of its
call. The refinement proof takes each action to a step of AtomicStore or to a stutter.
Three properties need less. Until its journal is complete a transaction is known only to the process that prepares it
(`PreparedAlone`), and the writer of the current manifest had a journal (`ManifestJournaled`): this holds for any processes. For
one process (`OneSession`), also one that ignores pending journals, what commit and rollback checked at their start
holds for the entries that are left (`ChecksStand`). With two processes it does not, since the code takes no lock.

*Migration.* `MigrationInv` goes from the lock to the properties: a process in a locked step implies the lock file; so there
is one migrator; so between its choice and the rename nothing else becomes pending and the manifest stays the legacy one;
so snapshots, journal and backup of every migration agree.

*Requests.* `RequestInv`: as long as the broker's revision is current, its evaluation still allows the request
(`EvaluationStands`); as long as an edit's chain of revisions is unbroken, the policy is the one that was shown
(`ChainStands`); the loop counter equals what was sent, and nothing was sent without a receipt (`AttemptsCounted`). A commit
with a stale revision fails, so only current ones matter. `FoundInv` says what a call finds in its record at each step: the
status it gave it (`FoundStatus`), no request before the receipt, no response before its own. Nobody else writes the record, so
the checks of `operationTransitionPatch` and `commitOperationRunFile` never fail for what the record holds.

*Spending.* `SerialUse` (calls do not overlap and do not die) is what `SpendWithinLimit` and `Accounted` need: TLC
violates both as soon as calls may overlap, and as soon as they may die. `LedgerInv`: one call runs (`OneRunning`), so no
revision is stale; only while a request is in flight does the ledger lag behind what was sent (`LedgerFollows`), and then
what the broker found left of the budget covers every attempt (`BudgetHeld`). The limit is that of the policy in force: an
edit may lower it below what has been spent, so the property speaks of the step that spends, not of the state. Without
`SerialUse` an operation's recorded cost is still zero or what was sent, so the ledger never overstates. Both speak of
sums over operations, which `MapThenSumSet` defines by recursion over subsets. The proofs take a smallest subset for which
a claim fails (from the well-foundedness of strict inclusion among finite sets) instead of an induction principle with an
operator parameter, and so need `IsFiniteSet(Actors)`, without which there is no sum.

*Evidence.* `LedgerInv`: as long as the revision a call opened is current, what it has checked holds (a claim's evidence is
active, a draft is valid and nobody has committed the same), so a commit that succeeds is a step of `EvidenceRecords`. A sweep
for the document as it is has left no stale card among those it has examined, new cards are valid against the current
document, and a card never becomes stale without an update. `Succession` states `SupersededByOne` without counting.

*Gates.* A snapshot mixes moments, so the invariant speaks of a view: of each record what the call has read, or what it is
now if it has not been read. A claim that did not stand when it was read (when the validation began) cannot pass in this view
(`Verdicts`), unless what the call had seen of its cards was outdated then: cards only cease to be active, a card is stored
before a claim links it, and a claim that gains a link leaves its pinned revision. A card that is read before a claim was named by
the request itself, since dependencies come last; a validation reads again what the artifact pins, and a card that
has changed is a conflict.

*Agent.* `SessionOwns`: the active run belongs to the one prompt that is running, and without overlap the flag is set while
anybody works. `BatchInv`: which calls of a batch are prepared, running and answered, and that outside a batch results are missing only
after an abort or where a run was cut off. `MessageInv`: the messages of a queue are
the disjoint, ordered union of those delivered or dropped, taken and queued. `LoopTakes`: what the loop holds at each step, and
that it polls steering once between two requests of a run. `Numbered` bounds a batch by the calls of the answer, and `SignalOfRun` says
that without a run nothing is aborted: so an aborted run, which can neither answer nor start, has only steps that lower its rank,
shorten what it has taken, or lead a call of its batch on. For steering, `Flagged` (the flag is set only while a prompt call
works) gives `ActiveIsWorkedOn`. `SteeringStage` says how far a call is
from the next poll, in the session or in the loop; within a stage the retries used count, then the place (`SteeringOrder`),
then the messages and tool calls that are left. Cancelling a retry sets the count back and is left out.

*Sessions.* `SessionInv`: what the fields of a session's object say of each other (`Coherent`), that a ready session is in the map
until its disposal has settled or close has taken it, that until then its opening is the one in `openingSessions`, and what
`close` awaits. The number of disposals follows from the runtime's state. `ProgressInv` adds that a session being created has
its creator waiting (`Created`), that `close` awaits sessions that exist and then ready ones (`CloseWaits`), and
`UnneededIsAttended`: every action that ends a need for a session calls `maybeDispose`, or leaves a request or a termination
that will.

*Queue.* The code keeps one promise per key and one for barriers, not the order. `Guarded(i, S)` says that `i` has settled,
is in `S`, or precedes and conflicts with a member of `S`. `QueueInv`: every enqueued operation is guarded by the promise
kept for its key or by the barrier (`FindsEverything`), every operation's predecessors in conflict are guarded by what it awaits
(`AwaitsEverything`), and the same for a drain. With `Serialised` in the invariant, a settled guard means a settled operation,
which also justifies the cleanup of a tail. Permits are counted with the finite-set theorems. `Lined`: `earlier` is a strict
order and an operation awaits only what comes before it. So a first unsettled operation, which exists since there are finitely many,
awaits nothing; if it is queued for a permit, another one runs.

Only model-checked: liveness (`CallsEnd`, `ResponseRecorded`, `JobsSettle`, `SteeringIsTaken`, `AbortEnds`,
`NoneKeptForever`, `CloseReleasesAll`, `RequestsAnswered`), since the prover does not reach fairness and `ENABLED`. Every
invariant and action property of the runs has a theorem. For each liveness property a part that needs no fairness is
proved: nothing goes back and finitely much is left (`CallsOnlyAdvance` for `CallsEnd`, `RequestsWindDown` with
`CommitsAlwaysPermitted` for `ResponseRecorded`, `JobsOnlyAdvance` with `QueueNeverStuck` for `JobsSettle`,
`AbortedRunsWindDown` with `BatchNeverStuck` for `AbortEnds`, `SteeringGetsNearer` with `ActiveSessionGoesOn` for
`SteeringIsTaken`, as long as no prompts overlap), or somebody is able to do what has to be done (`NobodyWaitsInCircle`
for `RequestsAnswered`, `UnneededIsNoticed` for `NoneKeptForever`, `CloseLeavesNoRuntime` for `CloseReleasesAll`). The
definitions these theorems speak of (`NeverStuck`, `WaitsForSomebody`, `UnneededIsAttended`, `CloseLeavesNone`,
`BatchGoesOn`, `AbortWindsDown`, `ActiveIsWorkedOn`, `SteeringNearer`, `CommitsPermitted` and their invariants) hold on
the instances of `Queue.cfg`, `Sessions.cfg`, `Agent.cfg` and `RequestsOverlapping.cfg` too.

## Not modelled

The repository has some 180 000 lines, of which most are retained packages: model providers and their catalogues (`ai`), the
terminal library (`tui`), the host application's interactive mode, package manager, export and settings
(`coding-agent`), evaluation. They are request formats, parsing, rendering and configuration, mostly without state that
several actors share, and a module about them would restate their code. What is modelled is the state that concurrent
calls, processes and promises share; measured in lines it is a small part.

Of the research agent: contents of records and their schema validation, canonical JSON and hashing (contents are compared
as hashes), path resolution and symbolic links, rendering, parsing of documents and bibliographies, statistical analysis.
In ProjectTransactions a batch holds all entries (a transaction of more entries than the batch size runs several batches
in sequence), and hash check and replacement of one file are one step. `cancelled` operations do not occur in the code
modelled. All costs are in one currency, so the refusals of another one (`broker-http.ts:248`, `459-476`) do not occur.
Aborts and timeouts of the transport are the failing answer of the service. In EvidenceLedger: reviewed claims and cards
(nothing in the repository reviews one), drafts that name records which do not exist or that declare conflicting evidence,
cards of the level `fulltext_unlocated`. In ArtifactGates: manuscripts, whose gate is a report of its own, and which
artifact an output path supersedes. In AgentRun: compaction, messages of extensions, the display of the queues; tools that
still run after a failed batch has ended the run. In LiveSessions: the handshake, the encoding of messages and requests
that are refused at once.

Known hazards outside the modules: a client's lease released while another is acquired (`client/src/client.ts:243`); a frame
boundary on any byte (`protocol/src/framing.ts:124`); a file queued under its absolute path before it exists and under its
canonical path afterwards (`file-mutation-queue.ts:24`); the counting of attempts (`kernel/tasks.ts:40`); initialisation
interrupted before the manifest is there (`init.ts:61`); a backup whose manifest is older than its files (`backup.ts:129`), or
that a leftover transaction directory prevents for ever in a legacy project (`backup.ts:126`); two artifacts of one output path
that name the same predecessor (`tools/artifacts.ts:654`). Inside them, known and harmless to what is checked: the sweep asks
whether the card's operation had the current text, not whether the excerpt is in it (`evidence/commit.ts:511`); `clearQueue`
gives back a message that was taken and is still delivered (`agent-session.ts:1521`); an approval is stamped with the policy
found after the dialog (`extension/tools.ts:1319`), which authorises nothing in the same call.

## Plan

What would come next, in this order:

1. `SessionLeases` (`client/src/client.ts`), composed with `LiveSessions`: an acquired session is attached.
2. `ProjectLifecycle` (`init.ts`, `backup.ts`) and `Tasks` (`kernel/tasks.ts`): initialisation interrupted and retried, a backup
   beside a writer, attempts and cost.
3. The file broker on top of `GovernedRequests`.
4. As algorithms against reference definitions: the frame decoder over all cuts of a stream, and deduplication of sources.
