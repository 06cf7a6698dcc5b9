-------------------------- MODULE GovernedRequests --------------------------
(***************************************************************************)
(* Operations and the governed HTTP broker of the research agent           *)
(* (packages/research-agent/src: tools/operations.ts, extension/tools.ts,  *)
(* security/policy.ts, security/approval.ts, security/broker-http.ts) and  *)
(* the /research-policy command (extension/commands.ts).                   *)
(*                                                                         *)
(* A tool call runs as an operation: its record is created and started,    *)
(* its effect may send a request through the broker, and its record is     *)
(* finished.  The broker sends only what the project's policy and the      *)
(* recorded approvals allow, and only what the recorded spend leaves of    *)
(* the budget; a receipt is committed before the first attempt, and the    *)
(* response with its cost after the last.  A /research-policy command      *)
(* replaces the policy at the end of a chain of commits.                   *)
(*                                                                         *)
(* Every change of the project is a transaction that names the revision    *)
(* the caller opened.  The transaction is one step here (AtomicStore says  *)
(* what that means, ProjectTransactions when it is true), and revisions    *)
(* are kept as what an actor can tell: whether the revision in its hands   *)
(* is still the project's.  Requests cost 1 each when they are paid for.   *)
(***************************************************************************)
EXTENDS Naturals, FiniteSetsExt

CONSTANTS Ops,          \* operations, one per tool call
          Edits,        \* uses of /research-policy
          Policies,     \* policies the project may have
          Class,        \* the action class of an operation's request
          MaxAttempts,  \* intent.maxAttempts
          MaxCalls,     \* bound: requests the effect of an operation makes
          Serial,       \* one tool call or command at a time
          Crashes,      \* processes may die
          NoPolicy,
          NoLimit       \* policy.budgetHardLimit is null

Actors == Ops \cup Edits
Classes == {"paid_service_call", "public_network_read"}
Decisions == {"allow", "ask", "deny"}

ASSUME RequestConstants ==
    /\ Ops \cap Edits = {}
    /\ Policies \subseteq [rule : [Classes -> Decisions \cup {"none"}], network : Decisions,
                           budgetHardLimit : Nat \cup {NoLimit}]
    /\ NoPolicy \notin Policies
    /\ NoLimit \notin Nat
    /\ Class \in [Ops -> Classes]
    /\ MaxAttempts \in Nat \ {0}
    /\ MaxCalls \in Nat
    /\ Serial \in BOOLEAN
    /\ Crashes \in BOOLEAN

VARIABLES
    policy,     \* manifest.policy
    record,     \* the operation records
    approvals,  \* approvals given, each for one operation under one policy
    sent,       \* requests that left the machine
    hand,       \* the revision an actor opened, compared with the project's
    pc,         \* step an actor is at
    local       \* the variables of its call

project == <<policy, record, approvals>>
vars == <<project, sent, hand, pc, local>>

----------------------------------------------------------------------------
Finished == {"succeeded", "partially_succeeded", "failed_retryable",
             "failed_permanent", "blocked"}
Statuses == Finished \cup {"none", "planned", "running", "awaiting_approval"}
Records == [status : Statuses, request : BOOLEAN, response : BOOLEAN, cost : Nat]
NoRecord == [status |-> "none", request |-> FALSE, response |-> FALSE, cost |-> 0]

\* Steps that commit: the actor opens the project, then commits.
OpCommits == {"create", "start", "approval", "link", "receipt", "response", "finish"}
EditCommits == {"edit-create", "edit-await", "edit-approval", "edit-run",
                "edit-block", "edit-policy", "edit-finish"}
OpSteps == OpCommits \cup {"idle", "call", "broker", "confirm", "send", "await",
                           "effect", "done"}
EditSteps == EditCommits \cup {"idle", "edit-confirm", "done"}

\* OPERATION_TRANSITIONS without "cancelled", which this code never enters;
\* creating the record makes it planned.
Transitions(status) ==
    CASE status = "none" -> {"planned"}
      [] status = "planned" -> {"running", "awaiting_approval"}
      [] status = "running" -> {"awaiting_approval"} \cup Finished
      [] status = "awaiting_approval" -> {"running", "blocked"}
      [] status \in Finished -> {}

Locals ==
    [held : Policies \cup {NoPolicy},   \* policy the actor decides from
     wanted : Policies \cup {NoPolicy}, \* policy an edit will install
     result : Finished,                 \* what the effect will report
     approved : BOOLEAN,                \* the user's last answer
     asked : BOOLEAN,                   \* this call has asked the user
     calls : 0..MaxCalls,               \* broker calls of the effect
     attempt : 0..MaxAttempts]          \* counter of the retry loop
NoLocals ==
    [held |-> NoPolicy, wanted |-> NoPolicy, result |-> "succeeded", approved |-> FALSE,
     asked |-> FALSE, calls |-> 0, attempt |-> 0]

TypeOK ==
    /\ policy \in Policies
    /\ record \in [Actors -> Records]
    /\ approvals \subseteq Ops \X Policies
    /\ sent \in [Ops -> Nat]
    /\ hand \in [Actors -> {"none", "current", "stale"}]
    /\ pc \in [Actors -> OpSteps \cup EditSteps]
    /\ local \in [Actors -> Locals]

Init ==
    /\ policy \in Policies
    /\ record = [a \in Actors |-> NoRecord]
    /\ approvals = {}
    /\ sent = [o \in Ops |-> 0]
    /\ hand = [a \in Actors |-> "none"]
    /\ pc = [a \in Actors |-> "idle"]
    /\ local = [a \in Actors |-> NoLocals]

----------------------------------------------------------------------------
(* Policy and budget *)

\* approvalCoversRequest for an approval of scope "once".
Covered(o, p) == <<o, p>> \in approvals

\* evaluateActionPolicy for the two classes of request the adapters make.
\* Paid calls are always confirmed; a public read follows its rule and, when
\* there is none, the default network decision.  (Its check of the estimate
\* against the hard limit is implied by WithinBudget.)
Evaluate(p, class, covered) ==
    LET rule == p.rule[class]
        asking == IF covered THEN "allow" ELSE "ask"
    IN  CASE rule = "deny" -> "deny"
          [] rule # "deny" /\ (class = "paid_service_call" \/ rule = "ask") -> asking
          [] rule = "allow" /\ class # "paid_service_call" -> "allow"
          [] rule = "none" /\ class # "paid_service_call" ->
                IF p.network = "ask" THEN asking ELSE p.network

Paid(o) == Class[o] = "paid_service_call"
Cost(o, n) == IF Paid(o) THEN n ELSE 0

\* projectSpend: the sum of the costs in the operation records.
projectSpend == MapThenSumSet(LAMBDA a : record[a].cost, Actors)

\* Mutant: the estimate of a paid request covers its first attempt.
estimatedCostOfOne(o) == Cost(o, 1)

\* The estimate of a paid request, which covers every permitted attempt.
estimatedCost(o) == Cost(o, MaxAttempts)

\* The project's policy, which /research-policy replaces, may set a hard limit.
Permitted(amount) == policy.budgetHardLimit # NoLimit => amount <= policy.budgetHardLimit

WithinBudget(o) == Paid(o) => Permitted(projectSpend + estimatedCost(o))

----------------------------------------------------------------------------
(* Opening the project and committing to it *)

At(a, step) == pc[a] = step
Goto(a, step) == pc' = [pc EXCEPT ![a] = step]

\* The call returns, and its variables are gone.
Return(a) == Goto(a, "done") /\ local' = [local EXCEPT ![a] = NoLocals]

\* The committed manifest carries the next revision: every revision opened
\* before is stale, and the committer's own becomes what it says.
AdvanceRevision(a, mine) ==
    hand' = [b \in Actors |-> IF b = a THEN mine
                              ELSE IF hand[b] = "current" THEN "stale" ELSE hand[b]]

\* openProject before a commit.
Open(o) ==
    /\ pc[o] \in OpCommits
    /\ hand[o] = "none"
    /\ hand' = [hand EXCEPT ![o] = "current"]
    /\ UNCHANGED <<project, sent, pc, local>>

\* A commit of an operation at its step; the next commit opens again.
Commit(o, step) ==
    /\ At(o, step)
    /\ hand[o] = "current"
    /\ AdvanceRevision(o, "none")

SetStatus(a, status) ==
    /\ status \in Transitions(record[a].status)
    /\ record' = [record EXCEPT ![a].status = status]

Idle(a) == At(a, "idle") /\ (Serial => \A b \in Actors : pc[b] \in {"idle", "done"})

----------------------------------------------------------------------------
(* startOperation and finishOperation *)

Begin(o) ==
    /\ Idle(o)
    /\ Goto(o, "create")
    /\ UNCHANGED <<project, sent, hand, local>>

Create(o) ==
    /\ Commit(o, "create")
    /\ SetStatus(o, "planned")
    /\ Goto(o, "start")
    /\ UNCHANGED <<policy, approvals, sent, local>>

Start(o) ==
    /\ Commit(o, "start")
    /\ SetStatus(o, "running")
    /\ Goto(o, "effect")
    /\ UNCHANGED <<policy, approvals, sent, local>>

\* The effect of the tool returns, with or without having used the broker:
\* what the broker told it last, a partial success or a failure of its own.
EffectReturns(o) ==
    /\ At(o, "effect")
    /\ \E status \in {local[o].result, "failed_permanent"} \cup
                      (IF local[o].result = "succeeded" THEN {"partially_succeeded"} ELSE {}) :
           local' = [local EXCEPT ![o].result = status]
    /\ Goto(o, "finish")
    /\ UNCHANGED <<project, sent, hand>>

Finish(o) ==
    /\ Commit(o, "finish")
    /\ SetStatus(o, local[o].result)
    /\ Return(o)
    /\ UNCHANGED <<policy, approvals, sent>>

\* The revision is stale: startOperation and finishOperation report the
\* conflict and leave the record as it is.
LifecycleConflict(o) ==
    /\ pc[o] \in {"create", "start", "finish"}
    /\ hand[o] = "stale"
    /\ Return(o)
    /\ hand' = [hand EXCEPT ![o] = "none"]
    /\ UNCHANGED <<project, sent>>

----------------------------------------------------------------------------
(* governedRequest and the decisions of the broker *)

\* governedRequest takes the policy snapshot that both of its calls of the
\* broker must find unchanged.
GovernedRequest(o) ==
    /\ At(o, "effect")
    /\ local[o].calls < MaxCalls
    /\ local' = [local EXCEPT ![o].calls = @ + 1, ![o].asked = FALSE, ![o].held = policy]
    /\ Goto(o, "broker")
    /\ UNCHANGED <<project, sent, hand>>

\* The effect gets a failure; it goes on, and reports it when it returns.
Fail(o, status) ==
    /\ local' = [local EXCEPT ![o].result = status]
    /\ Goto(o, "effect")

\* Policy snapshot changed, or the operation has a request already.
BrokerRefuses(o) ==
    /\ At(o, "broker")
    /\ policy # local[o].held \/ record[o].request
    /\ Fail(o, "failed_permanent")
    /\ UNCHANGED <<project, sent, hand>>

\* The checks every later answer of the broker has passed.
BrokerAccepts(o) == At(o, "broker") /\ policy = local[o].held /\ ~record[o].request

Decision(o) == Evaluate(policy, Class[o], Covered(o, policy))

\* Over budget, denied, still without approval after asking, or the
\* credential cannot be resolved.
BrokerBlocks(o) ==
    /\ BrokerAccepts(o)
    /\ \/ ~WithinBudget(o)
       \/ Decision(o) = "deny"
       \/ Decision(o) = "ask" /\ local[o].asked
       \/ Decision(o) = "allow"  \* CREDENTIAL_UNAVAILABLE
    /\ Fail(o, "blocked")
    /\ UNCHANGED <<project, sent, hand>>

BrokerAsks(o) ==
    /\ BrokerAccepts(o)
    /\ WithinBudget(o)
    /\ Decision(o) = "ask"
    /\ ~local[o].asked
    /\ local' = [local EXCEPT ![o].asked = TRUE]
    /\ Goto(o, "confirm")
    /\ UNCHANGED <<project, sent, hand>>

\* The revision read here is the one the receipt must still find.
BrokerAllows(o) ==
    /\ BrokerAccepts(o)
    /\ WithinBudget(o)
    /\ Decision(o) = "allow"
    /\ hand' = [hand EXCEPT ![o] = "current"]
    /\ Goto(o, "receipt")
    /\ UNCHANGED <<project, sent, local>>

----------------------------------------------------------------------------
(* recordHttpApproval *)

\* The user answers, in their own time.
UserAnswers(o) ==
    /\ At(o, "confirm")
    /\ \E answer \in BOOLEAN : local' = [local EXCEPT ![o].approved = answer]
    /\ Goto(o, "approval")
    /\ UNCHANGED <<project, sent, hand>>

\* There is no user interface to ask with.
CannotAsk(o) ==
    /\ At(o, "confirm")
    /\ Fail(o, "blocked")
    /\ UNCHANGED <<project, sent, hand>>

\* The approval names the policy of the project after the answer.  A denial
\* of scope "once" is recorded and has no effect on later evaluations.
RecordApproval(o) ==
    /\ Commit(o, "approval")
    /\ approvals' = IF local[o].approved THEN approvals \cup {<<o, policy>>} ELSE approvals
    /\ Goto(o, "link")
    /\ UNCHANGED <<policy, record, sent, local>>

LinkApproval(o) ==
    /\ Commit(o, "link")
    /\ record[o].status = "running"
    /\ IF local[o].approved
         THEN Goto(o, "broker") /\ UNCHANGED local
         ELSE Fail(o, "blocked")
    /\ UNCHANGED <<project, sent>>

\* Mutant: a conflict of the receipt does not stop the request.
RequestConflictIgnored(o) ==
    /\ At(o, "receipt")
    /\ hand[o] = "stale"
    /\ hand' = [hand EXCEPT ![o] = "none"]
    /\ Goto(o, "send")
    /\ UNCHANGED <<project, sent, local>>

\* A stale revision on the way to the response is a DATA_CONFLICT.
RequestConflict(o) ==
    /\ pc[o] \in {"approval", "link", "receipt", "response"}
    /\ hand[o] = "stale"
    /\ hand' = [hand EXCEPT ![o] = "none"]
    /\ Fail(o, "failed_permanent")
    /\ UNCHANGED <<project, sent>>

----------------------------------------------------------------------------
(* Receipt, attempts, response *)

\* Mutant: the receipt is committed without the revision the broker read.
CommitReceiptBlindly(o) ==
    /\ At(o, "receipt")
    /\ AdvanceRevision(o, "none")
    /\ record' = [record EXCEPT ![o].request = TRUE]
    /\ local' = [local EXCEPT ![o].attempt = 0]
    /\ Goto(o, "send")
    /\ UNCHANGED <<policy, approvals, sent>>

\* Mutant: the response will be committed with the revision of the receipt
\* instead of the one the receipt produced.
CommitReceiptKeepsRevision(o) ==
    /\ At(o, "receipt")
    /\ hand[o] = "current"
    /\ AdvanceRevision(o, "stale")
    /\ record' = [record EXCEPT ![o].request = TRUE]
    /\ local' = [local EXCEPT ![o].attempt = 0]
    /\ Goto(o, "send")
    /\ UNCHANGED <<policy, approvals, sent>>

CommitReceipt(o) ==
    /\ Commit(o, "receipt")
    /\ record[o].status = "running" /\ ~record[o].request
    /\ record' = [record EXCEPT ![o].request = TRUE]
    /\ local' = [local EXCEPT ![o].attempt = 0]
    /\ Goto(o, "send")
    /\ UNCHANGED <<policy, approvals, sent>>

\* The head of the retry loop, which also ends it after the permitted attempts.
Send(o) ==
    /\ At(o, "send")
    /\ IF local[o].attempt < MaxAttempts
         THEN /\ local' = [local EXCEPT ![o].attempt = @ + 1]
              /\ sent' = [sent EXCEPT ![o] = @ + 1]
              /\ Goto(o, "await")
         ELSE Goto(o, "response") /\ UNCHANGED <<local, sent>>
    /\ UNCHANGED <<project, hand>>

\* A 2xx, or a status or transport error that is not retried.
Answered(o) ==
    /\ At(o, "await")
    /\ \E status \in {"succeeded", "failed_permanent", "blocked"} :
           local' = [local EXCEPT ![o].result = status]
    /\ Goto(o, "response")
    /\ UNCHANGED <<project, sent, hand>>

\* 408, 429, 5xx or a transport error: wait and try again, unless this was
\* the last permitted attempt.
Retryable(o) ==
    /\ At(o, "await")
    /\ local' = [local EXCEPT ![o].result = "failed_retryable"]
    /\ Goto(o, IF local[o].attempt = MaxAttempts THEN "response" ELSE "send")
    /\ UNCHANGED <<project, sent, hand>>

\* The signal fires before, during or after an attempt.
Aborted(o) ==
    /\ pc[o] \in {"send", "await"}
    /\ local' = [local EXCEPT ![o].result = "failed_permanent"]
    /\ Goto(o, "response")
    /\ UNCHANGED <<project, sent, hand>>

\* Mutant: only a request that was answered is charged.
CommitResponseFreeFailures(o) ==
    /\ Commit(o, "response")
    /\ record' = [record EXCEPT
                    ![o].response = TRUE,
                    ![o].cost = IF local[o].result = "succeeded" THEN @ + Cost(o, local[o].attempt) ELSE @]
    /\ Goto(o, "effect")
    /\ UNCHANGED <<policy, approvals, sent, local>>

\* The response file and the cost of every attempt, in one transaction.
CommitResponse(o) ==
    /\ Commit(o, "response")
    /\ record[o].status = "running" /\ record[o].request /\ ~record[o].response
    /\ record' = [record EXCEPT ![o].response = TRUE, ![o].cost = @ + Cost(o, local[o].attempt)]
    /\ Goto(o, "effect")
    /\ UNCHANGED <<policy, approvals, sent, local>>

----------------------------------------------------------------------------
(* /research-policy: a chain of commits, each expecting the revision the   *)
(* one before it produced, from the revision the command opened            *)

EditOpen(e) ==
    /\ Idle(e)
    /\ hand' = [hand EXCEPT ![e] = "current"]
    /\ \E p \in Policies \ {policy} :
           local' = [local EXCEPT ![e].held = policy, ![e].wanted = p]
    /\ Goto(e, "edit-create")
    /\ UNCHANGED <<project, sent>>

\* A link of the chain: the committed revision is the next one to expect.
EditCommit(e, step) ==
    /\ At(e, step)
    /\ hand[e] = "current"
    /\ AdvanceRevision(e, "current")

EditCreate(e) ==
    /\ EditCommit(e, "edit-create")
    /\ SetStatus(e, "planned")
    /\ Goto(e, "edit-await")
    /\ UNCHANGED <<policy, approvals, sent, local>>

EditAwait(e) ==
    /\ EditCommit(e, "edit-await")
    /\ SetStatus(e, "awaiting_approval")
    /\ Goto(e, "edit-confirm")
    /\ UNCHANGED <<policy, approvals, sent, local>>

EditConfirm(e) ==
    /\ At(e, "edit-confirm")
    /\ \E answer \in BOOLEAN : local' = [local EXCEPT ![e].approved = answer]
    /\ Goto(e, "edit-approval")
    /\ UNCHANGED <<project, sent, hand>>

\* The approval of an edit covers no request of an operation.
EditApproval(e) ==
    /\ EditCommit(e, "edit-approval")
    /\ Goto(e, IF local[e].approved THEN "edit-run" ELSE "edit-block")
    /\ UNCHANGED <<project, sent, local>>

EditBlock(e) ==
    /\ Commit(e, "edit-block")
    /\ SetStatus(e, "blocked")
    /\ Return(e)
    /\ UNCHANGED <<policy, approvals, sent>>

EditRun(e) ==
    /\ EditCommit(e, "edit-run")
    /\ SetStatus(e, "running")
    /\ Goto(e, "edit-policy")
    /\ UNCHANGED <<policy, approvals, sent, local>>

\* Mutant: the project is opened again instead of expecting the chain.
EditPolicyReopened(e) ==
    /\ At(e, "edit-policy")
    /\ AdvanceRevision(e, "current")
    /\ policy' = local[e].wanted
    /\ Goto(e, "edit-finish")
    /\ UNCHANGED <<record, approvals, sent, local>>

EditPolicy(e) ==
    /\ EditCommit(e, "edit-policy")
    /\ policy' = local[e].wanted
    /\ Goto(e, "edit-finish")
    /\ UNCHANGED <<record, approvals, sent, local>>

EditFinish(e) ==
    /\ Commit(e, "edit-finish")
    /\ SetStatus(e, "succeeded")
    /\ Return(e)
    /\ UNCHANGED <<policy, approvals, sent>>

\* The command throws and leaves its operation as it is.
EditConflict(e) ==
    /\ pc[e] \in EditCommits
    /\ hand[e] = "stale"
    /\ hand' = [hand EXCEPT ![e] = "none"]
    /\ Return(e)
    /\ UNCHANGED <<project, sent>>

----------------------------------------------------------------------------
\* The process dies; what it committed stays.
Crash(a) ==
    /\ Crashes
    /\ pc[a] \notin {"idle", "done"}
    /\ hand' = [hand EXCEPT ![a] = "none"]
    /\ Return(a)
    /\ UNCHANGED <<project, sent>>

\* Steps the program takes by itself.
OpStep(o) ==
    \/ Open(o) \/ Create(o) \/ Start(o) \/ EffectReturns(o) \/ Finish(o)
    \/ LifecycleConflict(o)
    \/ BrokerRefuses(o) \/ BrokerBlocks(o) \/ BrokerAsks(o) \/ BrokerAllows(o)
    \/ CannotAsk(o) \/ RecordApproval(o) \/ LinkApproval(o) \/ RequestConflict(o)
    \/ CommitReceipt(o) \/ Send(o) \/ CommitResponse(o)

\* Answers of the service.
ServiceStep(o) == Answered(o) \/ Retryable(o)

EditStep(e) ==
    \/ EditOpen(e) \/ EditCreate(e) \/ EditAwait(e) \/ EditConfirm(e) \/ EditApproval(e)
    \/ EditBlock(e) \/ EditRun(e) \/ EditPolicy(e) \/ EditFinish(e) \/ EditConflict(e)

Next ==
    \/ \E o \in Ops : \/ Begin(o) \/ GovernedRequest(o) \/ UserAnswers(o) \/ Aborted(o)
                      \/ OpStep(o) \/ ServiceStep(o)
    \/ \E e \in Edits : EditStep(e)
    \/ \E a \in Actors : Crash(a)

Spec == Init /\ [][Next]_vars

\* File system and service answer; users, the effect's decision to send
\* another request and cancellation are not assumed.
LiveSpec == Spec /\ \A o \in Ops : WF_vars(OpStep(o)) /\ WF_vars(ServiceStep(o))

----------------------------------------------------------------------------
(* Properties *)

\* A request receipt, without which nothing is sent, is committed only when
\* the project's policy and the approvals recorded under it allow the request
\* at that moment, whatever changed since the broker evaluated them
\* (requestGovernedHttp evaluates, then commits with the revision it read).
EgressAuthorised ==
    [][\A o \in Ops : ~record[o].request /\ record'[o].request => Decision(o) = "allow"]_vars

\* What left the machine belongs to one recorded request of the operation:
\* nothing is sent without a receipt, and an operation that calls the broker
\* again, or is denied and asks again, never exceeds the attempts of one intent
\* (commitOperationRunFile, OPERATION_HTTP_ALREADY_RECORDED).
OneRecordedRequest ==
    \A o \in Ops : /\ sent[o] > 0 => record[o].request
                   /\ sent[o] <= MaxAttempts

\* The policy is replaced only by an edit whose user approved the new policy
\* for the revision that is replaced: the policy in force is still the one the
\* command opened, patched and named by its revision in the dialog
\* (research-policy, commitManifestChange chains the revisions it commits).
PolicyReplacedAsShown ==
    [][policy' # policy =>
          \E e \in Edits : At(e, "edit-policy") /\ local[e].approved
                           /\ local[e].held = policy /\ policy' = local[e].wanted]_vars

\* What the requests sent really cost.
spent == MapThenSumSet(LAMBDA o : Cost(o, sent[o]), Ops)

\* Whenever a paid request is sent, a retry included, the real spend of all
\* requests stays within the hard limit then in force; edits may raise, lower or
\* lift the limit between calls (the budget check of requestGovernedHttp).
SpendWithinLimit == [][spent' > spent => Permitted(spent')]_vars

\* When a tool call or command has returned, its operation is in a terminal
\* status and the ledger holds exactly what it spent (finishOperation,
\* commitOperationRunFile, commitManifestChange).
Accounted ==
    \A a \in Actors : At(a, "done") =>
        /\ record[a].status \in Finished
        /\ a \in Ops => record[a].cost = Cost(a, sent[a])

\* A recorded request is followed by a recorded response: the attempt loop of
\* requestGovernedHttp ends and its outcome is committed.
ResponseRecorded == \A o \in Ops : record[o].request ~> record[o].response

----------------------------------------------------------------------------
(* The inductive invariant behind EgressAuthorised, PolicyReplacedAsShown  *)
(* and OneRecordedRequest                                                  *)

StepsApart == /\ \A o \in Ops : pc[o] \in OpSteps
              /\ \A e \in Edits : pc[e] \in EditSteps

\* As long as its revision is current, the broker's evaluation stands.
EvaluationStands ==
    \A o \in Ops : At(o, "receipt") =>
        /\ hand[o] # "none"
        /\ hand[o] = "current" => Decision(o) = "allow"

\* As long as its chain is unbroken, an edit replaces what its user was shown.
ChainStands ==
    \A e \in Edits :
        /\ pc[e] \in EditSteps \ {"idle", "done"} => local[e].wanted \in Policies
        /\ pc[e] \in EditSteps \ {"idle", "done", "edit-finish"} /\ hand[e] = "current"
              => local[e].held = policy
        /\ pc[e] \in {"edit-run", "edit-policy"} => local[e].approved

\* The counters of the attempt loop.
AttemptsCounted ==
    \A o \in Ops :
        /\ pc[o] \in {"send", "await"} => record[o].request /\ sent[o] = local[o].attempt
        /\ sent[o] <= MaxAttempts
        /\ ~record[o].request => sent[o] = 0

RequestInv == TypeOK /\ StepsApart /\ EvaluationStands /\ ChainStands /\ AttemptsCounted

----------------------------------------------------------------------------
(* The inductive invariant behind Accounted and SpendWithinLimit, when     *)
(* tool calls and commands do not overlap and no process dies              *)

SerialUse == Serial /\ ~Crashes

Running(a) == pc[a] \notin {"idle", "done"}
InFlight(o) == pc[o] \in {"send", "await", "response"}

OneRunning == \A a, b \in Actors : Running(a) /\ Running(b) => a = b

\* Nobody else commits during a call, so no revision gets stale.
NeverStale ==
    \A a \in Actors : hand[a] # "stale" /\ (hand[a] = "current" => Running(a))

\* The ledger lags behind what was sent only while a request is in flight.
Recorded(o) ==
    IF InFlight(o) THEN record[o].cost = 0 /\ sent[o] = local[o].attempt
    ELSE record[o].cost = Cost(o, sent[o])

LedgerFollows == (\A o \in Ops : Recorded(o)) /\ (\A e \in Edits : record[e].cost = 0)

\* What the broker found left of the budget is left until the response.
BudgetHeld == \A o \in Ops : At(o, "receipt") \/ InFlight(o) => WithinBudget(o)

ReturnedFinished == \A a \in Actors : At(a, "done") => record[a].status \in Finished

LedgerInv == OneRunning /\ NeverStale /\ LedgerFollows /\ BudgetHeld /\ ReturnedFinished
=============================================================================
