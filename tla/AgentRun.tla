------------------------------- MODULE AgentRun -------------------------------
(***************************************************************************)
(* The agent, its loop, and the session that drives them                   *)
(* (agent/src/agent.ts, agent/src/agent-loop.ts and the prompting part of  *)
(* coding-agent/src/core/agent-session.ts).                                *)
(*                                                                         *)
(* Calls of prompt(), queued messages, clearing the queues and aborting    *)
(* interleave with the loop at its awaits.  The answers of the model and   *)
(* the outcomes of tools are arbitrary; a listener or a hook may throw at  *)
(* any step of a run.  Messages of a queue are numbered in the order in    *)
(* which they are queued, tool calls in the order in which the model names *)
(* them.  Of the transcript only the kind of its last message is kept, and *)
(* which results the tool calls of its last answer have.                   *)
(* Compaction, messages of extensions and the display of the queues are    *)
(* left out.                                                               *)
(***************************************************************************)
EXTENDS Integers, Sequences

CONSTANTS Prompts,       \* calls of AgentSession.prompt
          MaxQueued,     \* queue -> bound of the messages put into it
          MaxToolCalls,  \* bound of the tool calls of one answer
          MaxRetries,    \* settings.maxRetries
          Mode,          \* queue -> steeringMode, followUpMode
          ToolExecution, \* the agent's toolExecution
          None

Queues == {"steering", "followUp"}

ASSUME AgentConstants ==
    /\ None \notin Prompts
    /\ MaxQueued \in [Queues -> Nat]
    /\ MaxToolCalls \in Nat
    /\ MaxRetries \in Nat
    /\ Mode \in [Queues -> {"all", "one-at-a-time"}]
    /\ ToolExecution \in {"sequential", "parallel"}

VARIABLES
    isAgentRunActive, \* the session's flag: it is not idle
    overlapped,       \* a prompt was run although the flag was set
    prompt,           \* prompt call -> its next step
    retryAttempt,
    activeRun,        \* the prompt call whose run the agent executes
    aborted,          \* the signal of the active run
    last,             \* kind of the last message of the transcript: a failure is an error
                      \* that follows another answer, a loneError the only message
    sent,             \* queue -> messages that were put into it
    queue,            \* queue -> its messages
    delivered,        \* queue -> messages that are in the transcript
    dropped,          \* queue -> messages that were cleared, or taken by a run that failed
    loop,             \* the variables of runLoop
    tools             \* the tool calls of the last answer and their results; they are cut if
                      \* its run failed among them or was aborted

vars == <<isAgentRunActive, overlapped, prompt, retryAttempt, activeRun, aborted, last,
          sent, queue, delivered, dropped, loop, tools>>
session == <<isAgentRunActive, overlapped, prompt, retryAttempt>>
messages == <<sent, queue, delivered, dropped>>

----------------------------------------------------------------------------
PromptPCs == {"new", "preflight", "running", "post", "backoff", "check", "continue", "settle", "done"}
LoopPCs == {"none", "begin", "prompts", "poll", "inject", "stream", "tools", "turnEnd", "followUp", "agentEnd"}
Errors == {"error", "failure", "loneError"}
Roles == {"none", "user", "assistant", "toolResult"} \cup Errors
Kinds == {"none", "sequential", "parallel", "truncated"}

LoopRecords ==
    [pc : LoopPCs, from : Queues, pending : Seq(Nat), skip : {"yes", "no"}, more : {"yes", "no"},
     steered : Nat]
ToolBatches ==
    [kind : Kinds, size : Nat, alone : SUBSET Nat, upto : Nat, next : Nat, prepared : SUBSET Nat,
     running : SUBSET Nat, results : Seq(Nat), cut : {"yes", "no"}]

TypeOK ==
    /\ isAgentRunActive \in BOOLEAN
    /\ overlapped \in BOOLEAN
    /\ prompt \in [Prompts -> PromptPCs]
    /\ retryAttempt \in 0..MaxRetries
    /\ activeRun \in Prompts \cup {None}
    /\ aborted \in BOOLEAN
    /\ last \in Roles
    /\ sent \in [Queues -> Nat]
    /\ queue \in [Queues -> Seq(Nat)]
    /\ delivered \in [Queues -> SUBSET Nat]
    /\ dropped \in [Queues -> SUBSET Nat]
    /\ loop \in LoopRecords
    /\ tools \in ToolBatches

NoLoop == [pc |-> "none", from |-> "steering", pending |-> <<>>, skip |-> "no", more |-> "yes", steered |-> 0]
NoTools == [kind |-> "none", size |-> 0, alone |-> {}, upto |-> 0, next |-> 1, prepared |-> {}, running |-> {},
            results |-> <<>>, cut |-> "no"]

Init ==
    /\ isAgentRunActive = FALSE
    /\ overlapped = FALSE
    /\ prompt = [p \in Prompts |-> "new"]
    /\ retryAttempt = 0
    /\ activeRun = None
    /\ aborted = FALSE
    /\ last \in {"none", "assistant"}
    /\ sent = [q \in Queues |-> 0]
    /\ queue = [q \in Queues |-> <<>>]
    /\ delivered = [q \in Queues |-> {}]
    /\ dropped = [q \in Queues |-> {}]
    /\ loop = NoLoop
    /\ tools = NoTools

Elements(s) == {s[i] : i \in DOMAIN s}

\* PendingMessageQueue.drain: what it returns and what it leaves.
Drained(q) == IF Mode[q] = "all" \/ queue[q] = <<>> THEN queue[q] ELSE <<Head(queue[q])>>
Remaining(q) == IF Mode[q] = "all" \/ queue[q] = <<>> THEN <<>> ELSE Tail(queue[q])

HasQueuedMessages == \E q \in Queues : queue[q] # <<>>

Goes(p, from, to) == prompt[p] = from /\ prompt' = [prompt EXCEPT ![p] = to]

----------------------------------------------------------------------------
(***************************************************************************)
(* Messages: AgentSession.steer, followUp and clearQueue.                  *)
(***************************************************************************)
\* Mutant: a message is put before the others.
EnqueueFirst(q) ==
    /\ sent[q] < MaxQueued[q]
    /\ sent' = [sent EXCEPT ![q] = @ + 1]
    /\ queue' = [queue EXCEPT ![q] = <<sent[q] + 1>> \o @]
    /\ UNCHANGED <<session, activeRun, aborted, last, delivered, dropped, loop, tools>>

Enqueue(q) ==
    /\ sent[q] < MaxQueued[q]
    /\ sent' = [sent EXCEPT ![q] = @ + 1]
    /\ queue' = [queue EXCEPT ![q] = Append(@, sent[q] + 1)]
    /\ UNCHANGED <<session, activeRun, aborted, last, delivered, dropped, loop, tools>>

ClearQueue ==
    /\ HasQueuedMessages
    /\ queue' = [q \in Queues |-> <<>>]
    /\ dropped' = [q \in Queues |-> dropped[q] \cup Elements(queue[q])]
    /\ UNCHANGED <<session, activeRun, aborted, last, sent, delivered, loop, tools>>

----------------------------------------------------------------------------
(***************************************************************************)
(* AgentSession.prompt.                                                    *)
(***************************************************************************)
\* The session is idle when it looks, and does other things before it runs.
Preflight(p) ==
    /\ ~isAgentRunActive
    /\ Goes(p, "new", "preflight")
    /\ UNCHANGED <<isAgentRunActive, overlapped, retryAttempt, activeRun, aborted, last, messages, loop, tools>>

\* No model, or no key for it.
PreflightFails(p) ==
    /\ Goes(p, "preflight", "done")
    /\ UNCHANGED <<isAgentRunActive, overlapped, retryAttempt, activeRun, aborted, last, messages, loop, tools>>

\* runWithLifecycle: taken is what continue() took from a queue to prompt with.
StartRun(p, pc, q, taken, skip) ==
    /\ activeRun = None
    /\ activeRun' = p
    /\ loop' = [NoLoop EXCEPT !.pc = pc, !.from = q, !.pending = taken, !.skip = skip]
    /\ UNCHANGED <<aborted, tools>>

\* Mutant: the session is not marked as active.
RunPromptUnmarked(p) ==
    /\ overlapped' = (overlapped \/ isAgentRunActive)
    /\ \/ /\ Goes(p, "preflight", "running")
          /\ StartRun(p, "begin", "steering", <<>>, "no")
       \/ /\ Goes(p, "preflight", "settle")
          /\ activeRun # None
          /\ UNCHANGED <<activeRun, aborted, loop, tools>>
    /\ UNCHANGED <<isAgentRunActive, retryAttempt, last, messages>>

\* _runAgentPrompt; the agent refuses a prompt while a run is active.
RunPrompt(p) ==
    /\ isAgentRunActive' = TRUE
    /\ overlapped' = (overlapped \/ isAgentRunActive)
    /\ \/ /\ Goes(p, "preflight", "running")
          /\ StartRun(p, "begin", "steering", <<>>, "no")
       \/ /\ Goes(p, "preflight", "settle")
          /\ activeRun # None
          /\ UNCHANGED <<activeRun, aborted, loop, tools>>
    /\ UNCHANGED <<retryAttempt, last, messages>>

\* The error a transcript ends with after another message, and that message.
ErrorAfter(role) ==
    IF role = "none" THEN "loneError" ELSE IF role \in {"user", "toolResult"} THEN "error" ELSE "failure"
Before(error) == [loneError |-> "none", error |-> "user", failure |-> "assistant"][error]

\* _handlePostAgentRun: an error is removed and retried after a while, some times.
PrepareRetry(p) ==
    /\ Goes(p, "post", "backoff")
    /\ last \in Errors
    /\ retryAttempt < MaxRetries
    /\ retryAttempt' = retryAttempt + 1
    /\ last' = Before(last)
    /\ UNCHANGED <<isAgentRunActive, overlapped, activeRun, aborted, messages, loop, tools>>

NoRetry(p) ==
    /\ Goes(p, "post", "check")
    /\ retryAttempt' = IF last \in Errors THEN 0 ELSE retryAttempt
    /\ UNCHANGED <<isAgentRunActive, overlapped, activeRun, aborted, last, messages, loop, tools>>

BackoffEnds(p) ==
    /\ Goes(p, "backoff", "continue")
    /\ UNCHANGED <<isAgentRunActive, overlapped, retryAttempt, activeRun, aborted, last, messages, loop, tools>>

AbortRetry(p) ==
    /\ Goes(p, "backoff", "check")
    /\ retryAttempt' = 0
    /\ UNCHANGED <<isAgentRunActive, overlapped, activeRun, aborted, last, messages, loop, tools>>

CheckQueued(p) ==
    /\ Goes(p, "check", IF HasQueuedMessages THEN "continue" ELSE "settle")
    /\ UNCHANGED <<isAgentRunActive, overlapped, retryAttempt, activeRun, aborted, last, messages, loop, tools>>

\* Mutant: the first poll of the loop is not skipped.
TakeQueuedAndPoll(p, q) ==
    /\ StartRun(p, "prompts", q, Drained(q), "no")
    /\ queue' = [queue EXCEPT ![q] = Remaining(q)]

\* Mutant: the run goes on without the messages.
TakeQueuedForgets(p, q) ==
    /\ StartRun(p, "prompts", q, <<>>, "no")
    /\ queue' = [queue EXCEPT ![q] = Remaining(q)]

\* The queue that continue() takes its prompts from after an answer.
TakeQueued(p, q) ==
    /\ StartRun(p, "prompts", q, Drained(q), IF q = "steering" THEN "yes" ELSE "no")
    /\ queue' = [queue EXCEPT ![q] = Remaining(q)]

\* Agent.continue
Continue(p) ==
    /\ Goes(p, "continue", "running")
    /\ \/ /\ last \in {"assistant"} \cup Errors
          /\ \E q \in Queues : /\ queue[q] # <<>>
                               /\ q = "followUp" => queue["steering"] = <<>>
                               /\ TakeQueued(p, q)
       \/ /\ last \in {"user", "toolResult"}
          /\ StartRun(p, "prompts", "steering", <<>>, "no")
          /\ UNCHANGED queue
    /\ UNCHANGED <<isAgentRunActive, overlapped, retryAttempt, last, sent, delivered, dropped>>

\* It throws if there is nothing to continue with, or a run is active.
ContinueRefused(p) ==
    /\ Goes(p, "continue", "settle")
    /\ activeRun # None \/ last = "none" \/ (last \in {"assistant"} \cup Errors /\ ~HasQueuedMessages)
    /\ UNCHANGED <<isAgentRunActive, overlapped, retryAttempt, activeRun, aborted, last, messages, loop, tools>>

\* _emitAgentSettled
Settle(p) ==
    /\ Goes(p, "settle", "done")
    /\ isAgentRunActive' = FALSE
    /\ UNCHANGED <<overlapped, retryAttempt, activeRun, aborted, last, messages, loop, tools>>

----------------------------------------------------------------------------
(***************************************************************************)
(* runLoop.                                                                *)
(***************************************************************************)
\* The prompt is in the transcript once its message_end is processed, after agent_start
\* and turn_start.
AddPrompt ==
    /\ loop.pc = "begin"
    /\ loop' = [loop EXCEPT !.pc = "poll"]
    /\ last' = "user"
    /\ UNCHANGED <<session, activeRun, aborted, messages, tools>>

\* The messages taken are put into the transcript one by one, those of continue()
\* before the first poll, later ones before the next request.
Inject ==
    LET m == Head(loop.pending) IN
    /\ loop.pc \in {"prompts", "inject"}
    /\ loop.pending # <<>>
    /\ loop' = [loop EXCEPT !.pending = Tail(@), !.steered = IF loop.from = "steering" THEN @ + 1 ELSE @]
    /\ delivered' = [delivered EXCEPT ![loop.from] = @ \cup {m}]
    /\ last' = "user"
    /\ UNCHANGED <<session, activeRun, aborted, sent, queue, dropped, tools>>

Injected ==
    /\ loop.pc \in {"prompts", "inject"}
    /\ loop.pending = <<>>
    /\ loop' = [loop EXCEPT !.pc = IF @ = "prompts" THEN "poll" ELSE "stream"]
    /\ UNCHANGED <<session, activeRun, aborted, last, messages, tools>>

\* The first poll of the steering queue.
FirstPoll ==
    /\ loop.pc = "poll"
    /\ IF loop.skip = "yes"
         THEN loop' = [loop EXCEPT !.pc = "inject", !.skip = "no"] /\ UNCHANGED queue
         ELSE /\ loop' = [loop EXCEPT !.pc = "inject", !.from = "steering", !.pending = Drained("steering")]
              /\ queue' = [queue EXCEPT !["steering"] = Remaining("steering")]
    /\ UNCHANGED <<session, activeRun, aborted, last, sent, delivered, dropped, tools>>

\* Mutant: sequential execution only if every tool asks for it.
ExecutionKindEvery(n, alone) ==
    IF ToolExecution = "sequential" \/ alone = 1..n THEN "sequential" ELSE "parallel"

\* executeToolCalls: one tool that must run alone makes the batch sequential.
ExecutionKind(n, alone) ==
    IF ToolExecution = "sequential" \/ alone # {} THEN "sequential" ELSE "parallel"

\* Mutant: the signal of the run does not reach the request.
AnswerInSpite(n, alone, truncated) ==
    /\ loop.pc = "stream"
    /\ loop' = [loop EXCEPT !.pc = IF n = 0 THEN "turnEnd" ELSE "tools", !.more = "no", !.steered = 0]
    /\ tools' = [NoTools EXCEPT !.kind = IF n = 0 THEN "none" ELSE IF truncated THEN "truncated" ELSE ExecutionKind(n, alone),
                                !.size = n, !.upto = n, !.alone = alone]
    /\ last' = "assistant"
    /\ retryAttempt' = 0
    /\ UNCHANGED <<isAgentRunActive, overlapped, prompt, activeRun, aborted, messages>>

\* The model answers, with tool calls or without; alone are the calls of tools
\* whose executionMode is sequential.
Answer(n, alone, truncated) ==
    /\ loop.pc = "stream"
    /\ ~aborted
    /\ loop' = [loop EXCEPT !.pc = IF n = 0 THEN "turnEnd" ELSE "tools", !.more = "no", !.steered = 0]
    /\ tools' = [NoTools EXCEPT !.kind = IF n = 0 THEN "none" ELSE IF truncated THEN "truncated" ELSE ExecutionKind(n, alone),
                                !.size = n, !.upto = n, !.alone = alone]
    /\ last' = "assistant"
    /\ retryAttempt' = 0
    /\ UNCHANGED <<isAgentRunActive, overlapped, prompt, activeRun, aborted, messages>>

\* An error, or the end of an aborted request, ends the run.
AnswerStops ==
    /\ loop.pc = "stream"
    /\ loop' = [loop EXCEPT !.pc = "agentEnd"]
    /\ \/ last' = "error" /\ UNCHANGED retryAttempt
       \/ aborted /\ last' = "assistant" /\ retryAttempt' = 0
    /\ UNCHANGED <<isAgentRunActive, overlapped, prompt, activeRun, aborted, messages, tools>>

\* Mutant: steering messages wait until there are no more tool calls.
PollSteeringLast ==
    LET ends == loop.more = "no" IN
    /\ loop.pc = "turnEnd"
    /\ IF ends
         THEN /\ loop' = [loop EXCEPT !.from = "steering", !.pending = Drained("steering"),
                                      !.pc = IF queue["steering"] # <<>> THEN "inject" ELSE "followUp"]
              /\ queue' = [queue EXCEPT !["steering"] = Remaining("steering")]
         ELSE loop' = [loop EXCEPT !.pc = "inject"] /\ UNCHANGED queue
    /\ UNCHANGED <<session, activeRun, aborted, last, sent, delivered, dropped, tools>>

\* After turn_end the steering queue is polled again.
PollSteering ==
    /\ loop.pc = "turnEnd"
    /\ loop' = [loop EXCEPT !.from = "steering", !.pending = Drained("steering"),
                            !.pc = IF loop.more = "yes" \/ queue["steering"] # <<>> THEN "inject" ELSE "followUp"]
    /\ queue' = [queue EXCEPT !["steering"] = Remaining("steering")]
    /\ UNCHANGED <<session, activeRun, aborted, last, sent, delivered, dropped, tools>>

\* shouldStopAfterTurn
StopAfterTurn ==
    /\ loop.pc = "turnEnd"
    /\ loop' = [loop EXCEPT !.pc = "agentEnd"]
    /\ UNCHANGED <<session, activeRun, aborted, last, messages, tools>>

PollFollowUp ==
    /\ loop.pc = "followUp"
    /\ loop' = [loop EXCEPT !.from = "followUp", !.pending = Drained("followUp"),
                            !.pc = IF queue["followUp"] # <<>> THEN "inject" ELSE "agentEnd"]
    /\ queue' = [queue EXCEPT !["followUp"] = Remaining("followUp")]
    /\ UNCHANGED <<session, activeRun, aborted, last, sent, delivered, dropped, tools>>

\* finishRun: the transcript stays as it is.
FinishRun ==
    /\ activeRun' = None
    /\ aborted' = FALSE
    /\ loop' = NoLoop
    /\ tools' = [NoTools EXCEPT !.size = tools.size, !.results = tools.results,
                                !.cut = IF loop.pc = "tools" \/ aborted THEN "yes" ELSE tools.cut]

\* The listeners of agent_end are done.
RunEnds ==
    /\ loop.pc = "agentEnd"
    /\ FinishRun
    /\ prompt' = [prompt EXCEPT ![activeRun] = "post"]
    /\ UNCHANGED <<isAgentRunActive, overlapped, retryAttempt, last, messages>>

\* A listener or a hook throws: handleRunFailure adds the message of an error, or of
\* an aborted run, and the session goes on from there unless a listener throws again,
\* before the message is added or after it.  Messages that the loop had taken are lost.
RunFails ==
    /\ loop.pc # "none"
    /\ FinishRun
    /\ dropped' = [dropped EXCEPT ![loop.from] = @ \cup Elements(loop.pending)]
    /\ \/ /\ last' = IF aborted THEN "assistant" ELSE ErrorAfter(last)
          /\ retryAttempt' = IF aborted THEN 0 ELSE retryAttempt
          /\ \E to \in {"post", "settle"} : prompt' = [prompt EXCEPT ![activeRun] = to]
       \/ /\ prompt' = [prompt EXCEPT ![activeRun] = "settle"]
          /\ UNCHANGED <<last, retryAttempt>>
    /\ UNCHANGED <<isAgentRunActive, overlapped, sent, queue, delivered>>

\* AgentSession.abort
Abort ==
    /\ activeRun # None
    /\ ~aborted
    /\ aborted' = TRUE
    /\ UNCHANGED <<session, activeRun, last, messages, loop, tools>>

----------------------------------------------------------------------------
(***************************************************************************)
(* executeToolCalls.                                                       *)
(***************************************************************************)
ToolStep ==
    /\ loop.pc = "tools"
    /\ UNCHANGED <<session, activeRun, aborted, messages>>

\* The result of a call that has ended; in a parallel batch it waits for the others.
ResultAdded(i) ==
    IF tools.kind = "parallel"
      THEN [results |-> tools.results, last |-> last]
      ELSE [results |-> Append(tools.results, i), last |-> "toolResult"]

\* In a sequential batch a call begins when the result of the one before is there.
MayBegin ==
    /\ tools.next <= tools.upto
    /\ tools.kind = "sequential" => tools.running = {}

\* A call that is not executed (unknown, blocked, aborted or truncated) has its
\* error as the result; an abort may come when the next call has begun already.
FailCall ==
    /\ ToolStep
    /\ MayBegin
    /\ tools' = [tools EXCEPT !.next = @ + 1, !.results = ResultAdded(tools.next).results]
    /\ last' = ResultAdded(tools.next).last
    /\ UNCHANGED loop

\* prepareToolCall: in a sequential batch the tool runs at once.
PrepareCall ==
    /\ ToolStep
    /\ MayBegin
    /\ tools.kind # "truncated"
    /\ ~aborted
    /\ tools' = IF tools.kind = "sequential"
                  THEN [tools EXCEPT !.next = @ + 1, !.running = {tools.next}]
                  ELSE [tools EXCEPT !.next = @ + 1, !.prepared = @ \cup {tools.next}]
    /\ UNCHANGED <<last, loop>>

\* An aborted run begins no further calls.
BreakCalls ==
    /\ ToolStep
    /\ MayBegin
    /\ aborted
    /\ tools.next > 1
    /\ tools.kind # "truncated"
    /\ tools' = [tools EXCEPT !.upto = tools.next - 1]
    /\ UNCHANGED <<last, loop>>

\* All calls of a parallel batch that were prepared run.
ExecuteCalls ==
    /\ ToolStep
    /\ tools.next > tools.upto
    /\ tools.prepared # {}
    /\ tools' = [tools EXCEPT !.running = tools.prepared, !.prepared = {}]
    /\ UNCHANGED <<last, loop>>

\* Mutant: results are added as the tools end.
CallEndsWithResult(i) ==
    /\ ToolStep
    /\ i \in tools.running
    /\ tools' = [tools EXCEPT !.running = @ \ {i}, !.results = Append(@, i)]
    /\ last' = "toolResult"
    /\ UNCHANGED loop

CallEnds(i) ==
    /\ ToolStep
    /\ i \in tools.running
    /\ tools' = [tools EXCEPT !.running = @ \ {i}, !.results = ResultAdded(i).results]
    /\ last' = ResultAdded(i).last
    /\ UNCHANGED loop

\* Once all tools have ended, their results are added in the order of the calls.
AddResult ==
    /\ ToolStep
    /\ tools.next > tools.upto
    /\ tools.prepared = {}
    /\ tools.running = {}
    /\ Len(tools.results) < tools.upto
    /\ tools' = [tools EXCEPT !.results = Append(@, Len(@) + 1)]
    /\ last' = "toolResult"
    /\ UNCHANGED loop

\* The turn ends; if all results say so, no further request is needed.
CallsDone(terminate) ==
    /\ ToolStep
    /\ Len(tools.results) = tools.upto
    /\ tools.kind = "truncated" => ~terminate
    /\ loop' = [loop EXCEPT !.pc = "turnEnd", !.more = IF terminate THEN "no" ELSE "yes"]
    /\ tools' = [NoTools EXCEPT !.size = tools.size, !.results = tools.results]
    /\ UNCHANGED last

----------------------------------------------------------------------------
SessionStep(p) ==
    \/ RunPrompt(p) \/ PrepareRetry(p) \/ NoRetry(p) \/ BackoffEnds(p) \/ CheckQueued(p)
    \/ Continue(p) \/ ContinueRefused(p) \/ Settle(p)

LoopStep ==
    \/ AddPrompt \/ Inject \/ Injected \/ FirstPoll \/ AnswerStops \/ PollSteering \/ StopAfterTurn \/ PollFollowUp
    \/ RunEnds
    \/ \E n \in 0..MaxToolCalls : \E alone \in SUBSET (1..n), truncated \in BOOLEAN : Answer(n, alone, truncated)
    \/ FailCall \/ PrepareCall \/ BreakCalls \/ ExecuteCalls \/ AddResult
    \/ \E i \in 1..MaxToolCalls : CallEnds(i)
    \/ \E terminate \in BOOLEAN : CallsDone(terminate)

Next ==
    \/ \E q \in Queues : Enqueue(q)
    \/ \E p \in Prompts : Preflight(p) \/ PreflightFails(p) \/ AbortRetry(p) \/ SessionStep(p)
    \/ ClearQueue \/ Abort \/ RunFails \/ LoopStep

Spec == Init /\ [][Next]_vars

\* Promises are continued, the model answers and tools end; nobody is forced to
\* prompt, to queue, to clear or to abort, and nothing has to fail.
LiveSpec == Spec /\ WF_vars(LoopStep) /\ \A p \in Prompts : WF_vars(SessionStep(p))

----------------------------------------------------------------------------
(***************************************************************************)
(* Properties.                                                             *)
(***************************************************************************)
Queued(q) == Elements(queue[q])
Pending(q) == IF loop.from = q THEN Elements(loop.pending) ELSE {}

\* Messages of a queue reach the transcript in the order in which they were queued
\* and none twice, whichever of the polls and of continue() takes them.
InOrder ==
    \A q \in Queues :
        /\ \A i, j \in DOMAIN queue[q] : i < j => queue[q][i] < queue[q][j]
        /\ loop.from = q => \A i, j \in DOMAIN loop.pending : i < j => loop.pending[i] < loop.pending[j]
        /\ \A m \in delivered[q], n \in Pending(q) \cup Queued(q) : m < n
        /\ \A m \in Pending(q), n \in Queued(q) : m < n

\* No message disappears: it is queued, taken by the loop or delivered, unless it was
\* cleared, or a run failed that had taken it.
NothingLost ==
    \A q \in Queues : 1..sent[q] = Queued(q) \cup Pending(q) \cup delivered[q] \cup dropped[q]

\* In the mode one-at-a-time a run adds at most one steering message before an answer,
\* also if it was started with one by continue().  A run that ends without an answer
\* leaves its message in the transcript, where the next run adds another one.
OneSteeringMessage == Mode["steering"] = "one-at-a-time" => loop.steered <= 1

\* A request that was not aborted follows the results of the tool calls of the answer
\* before it, without a gap and in the order of the calls, however the tools have run.
\* The last ones are missing only if an earlier run, whose answer it was, failed among
\* its calls or was aborted.
ResultsBeforeRequest ==
    loop.pc = "stream" /\ ~aborted =>
        /\ tools.results = [i \in 1..Len(tools.results) |-> i]
        /\ Len(tools.results) = tools.size \/ tools.cut = "yes"

\* A tool that must run alone does not run beside another one of its batch.
SequentialAlone == \A i \in tools.running \cap tools.alone : tools.running = {i}

Busy == {p \in Prompts : prompt[p] \in {"running", "post", "backoff", "check", "continue"}}

\* The session calls itself idle while a prompt is being worked on only if another
\* prompt has been run beside it, having looked at the flag before it was set.
IdleIsIdle == ~isAgentRunActive /\ ~overlapped => Busy = {}

RetriesAborted == \E p \in Prompts : AbortRetry(p)

\* While the session works, a steering message does not stay in its queue, however
\* many tools the model calls and however often runs fail, unless the user keeps on
\* cancelling the retries.
SteeringIsTaken ==
    []<><<RetriesAborted>>_vars \/ \A n \in 1..MaxQueued["steering"] :
        n \in Queued("steering") /\ isAgentRunActive ~> n \notin Queued("steering") \/ ~isAgentRunActive

\* A run that is aborted ends.
AbortEnds == aborted /\ activeRun # None ~> activeRun = None

----------------------------------------------------------------------------
(***************************************************************************)
(* What AbortEnds rests on, stated without fairness.                       *)
(***************************************************************************)
\* A batch of tool calls can go on: a call begins, the prepared calls run, a tool ends, a
\* result is added, or all of them are there.
BatchGoesOn ==
    loop.pc = "tools" =>
        \/ MayBegin
        \/ tools.running \cap (1..MaxToolCalls) # {}
        \/ tools.next > tools.upto /\ tools.prepared # {}
        \/ /\ tools.next > tools.upto /\ tools.prepared = {} /\ tools.running = {}
           /\ Len(tools.results) < tools.upto
        \/ Len(tools.results) = tools.upto

\* How many steps an aborted run is away from its end.
RunRank == [tools |-> 7, turnEnd |-> 6, begin |-> 5, prompts |-> 5, poll |-> 4, followUp |-> 4, inject |-> 3,
            stream |-> 2, agentEnd |-> 1, none |-> 0]

NotBegun(b) == b.upto + 1 - b.next

\* The batch has fewer calls that have not begun, do not run, or have no result.
BatchNearer ==
    \/ NotBegun(tools') < NotBegun(tools)
    \/ /\ NotBegun(tools') = NotBegun(tools)
       /\ \/ tools.prepared # {} /\ tools'.prepared = {} /\ tools'.running = tools.prepared
          \/ /\ tools'.prepared = tools.prepared
             /\ tools'.running \subseteq tools.running /\ tools'.running # tools.running
          \/ /\ tools'.prepared = tools.prepared /\ tools'.running = tools.running
             /\ Len(tools'.results) = Len(tools.results) + 1 /\ Len(tools.results) < tools.upto

\* An aborted run winds down: it prepares no tool call, makes no request after the one in
\* hand or the next, and each of its steps leads it on, settles a message or a tool call.
AbortWindsDown ==
    [][aborted /\ aborted' =>
          \/ UNCHANGED <<loop, tools>>
          \/ RunRank[loop'.pc] < RunRank[loop.pc]
          \/ /\ loop'.pc = loop.pc /\ tools' = tools
             /\ Len(loop'.pending) < Len(loop.pending)
          \/ /\ loop' = loop /\ loop.pc = "tools"
             /\ tools'.prepared \subseteq tools.prepared
             /\ BatchNearer]_vars

----------------------------------------------------------------------------
(***************************************************************************)
(* What SteeringIsTaken rests on, stated without fairness.                 *)
(***************************************************************************)
\* A prompt call that has run and has not settled.
Working(p) == prompt[p] \in {"running", "post", "backoff", "check", "continue", "settle"}

\* The flag of the session is not left behind: if it is set, a prompt call will clear it, and
\* that call can go on: if it runs then so does the loop.
ActiveIsWorkedOn ==
    isAgentRunActive => \E p \in Prompts :
        /\ Working(p)
        /\ prompt[p] = "running" => activeRun = p /\ loop.pc # "none"

\* Where a prompt call is, in the session or in the loop.
Place(p) == IF prompt[p] = "running" THEN loop.pc ELSE prompt[p]

\* How far a call is from the next poll of the steering queue: behind one and before a
\* request (4 and 3), behind an answer (2), after a run or at the beginning of one (1), or
\* about to take steering messages in continue(), or to settle (0).
StageOf(place, skip, role) ==
    CASE place = "followUp" -> 4
      [] place \in {"inject", "stream"} -> 3
      [] place \in {"begin", "prompts", "poll"} -> IF skip = "yes" THEN 3 ELSE 1
      [] place \in {"tools", "turnEnd"} -> 2
      [] place = "post" -> IF role = "assistant" THEN 0 ELSE 1
      [] place \in {"check", "continue"} -> IF role \in {"user", "toolResult"} THEN 1 ELSE 0
      [] place = "settle" -> 0
      [] OTHER -> 1

\* The order of the places of a stage; an error is retried, or there is no retry.
PlaceOrder == [agentEnd |-> 9, post |-> 8, backoff |-> 7, check |-> 6, continue |-> 5, begin |-> 4, prompts |-> 4,
               poll |-> 3, inject |-> 2, stream |-> 1, tools |-> 2, turnEnd |-> 1, followUp |-> 1, settle |-> 0]
OrderOf(place, role) == IF place = "post" /\ role \in Errors THEN 0 ELSE PlaceOrder[place]

SteeringStage(p) == StageOf(Place(p), loop.skip, last)
SteeringOrder(p) == OrderOf(Place(p), last)

\* The call is in a nearer stage, or has used a retry, or is at a nearer place, or has put a
\* message into the transcript, or led a tool call on.
PollNearer(p) ==
    \/ SteeringStage(p)' < SteeringStage(p)
    \/ SteeringStage(p)' = SteeringStage(p) /\ retryAttempt' > retryAttempt
    \/ /\ SteeringStage(p)' = SteeringStage(p) /\ retryAttempt' = retryAttempt
       /\ \/ SteeringOrder(p)' < SteeringOrder(p)
          \/ /\ SteeringOrder(p)' = SteeringOrder(p)
             /\ \/ tools' = tools /\ Len(loop'.pending) < Len(loop.pending)
                \/ loop' = loop /\ loop.pc = "tools" /\ BatchNearer

\* While the session works, and no prompts overlap, every step of a prompt call takes the
\* first steering message or brings the call nearer to a poll, whatever fails and however
\* often it is retried, unless the user cancels the retry.
SteeringNearer ==
    [][ /\ isAgentRunActive /\ isAgentRunActive' /\ ~overlapped'
        /\ queue["steering"] # <<>> /\ queue'["steering"] # <<>>
        /\ ~RetriesAborted
        => \A p \in Prompts : Working(p) =>
             \/ prompt'[p] = prompt[p] /\ UNCHANGED <<retryAttempt, last, loop, tools>>
             \/ Head(queue'["steering"]) > Head(queue["steering"])
             \/ PollNearer(p)]_vars

=============================================================================
