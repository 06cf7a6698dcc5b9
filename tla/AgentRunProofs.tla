---------------------------- MODULE AgentRunProofs ----------------------------
(***************************************************************************)
(* Proofs about AgentRun, for any prompts, messages, tool calls and modes. *)
(*                                                                         *)
(* The inductive invariant is a conjunction of four parts: which prompt    *)
(* call the active run belongs to and what the session's flag says about   *)
(* it (SessionOwns), how far the batch of tool calls has come (BatchInv),  *)
(* where every message is (MessageInv), and what the loop holds at each of *)
(* its steps (LoopTakes).  For progress two parts join them: the calls of  *)
(* a batch are those of the answer (Numbered), and only a run is aborted   *)
(* (SignalOfRun); the session's flag is set only while a call works        *)
(* (Flagged).                                                              *)
(***************************************************************************)
EXTENDS AgentRun, SequenceTheorems, TLAPS

SessionOwns ==
    /\ \A p \in Prompts : (prompt[p] = "running") <=> (activeRun = p)
    /\ (activeRun = None) <=> (loop.pc = "none")
    /\ ~overlapped => \A p \in Prompts : Working(p) => isAgentRunActive
    /\ ~overlapped => \A p, q \in Prompts : Working(p) /\ Working(q) => p = q

----------------------------------------------------------------------------
(***************************************************************************)
(* Types.                                                                  *)
(***************************************************************************)
\* What a sequence of numbers holds are numbers.
LEMMA ElementsType ==
    ASSUME NEW s \in Seq(Nat)
    PROVE  Elements(s) \subseteq Nat
BY DEF Elements

\* What drain returns and leaves are sequences of messages.
LEMMA DrainTypes ==
    ASSUME TypeOK, NEW q \in Queues
    PROVE  Drained(q) \in Seq(Nat) /\ Remaining(q) \in Seq(Nat)
<1>1. queue[q] \in Seq(Nat)
  BY DEF TypeOK
<1>. QED
  BY <1>1 DEF Drained, Remaining

\* Updates of the loop's variables keep their types.
LEMMA LoopUpdates ==
    ASSUME NEW l \in LoopRecords, NEW s \in Seq(Nat), NEW n \in Nat
    PROVE  [l EXCEPT !.pending = s, !.steered = n] \in LoopRecords
BY DEF LoopRecords

\* So do updates of a batch.
LEMMA BatchUpdates ==
    ASSUME NEW b \in ToolBatches, NEW n \in Nat
    PROVE  /\ \A r \in Seq(Nat) : [b EXCEPT !.next = n, !.results = r] \in ToolBatches
           /\ \A S \in SUBSET Nat : [b EXCEPT !.next = n, !.running = S] \in ToolBatches
           /\ \A S \in SUBSET Nat : [b EXCEPT !.next = n, !.prepared = S] \in ToolBatches
           /\ [b EXCEPT !.upto = n] \in ToolBatches
           /\ \A k \in Kinds, S \in SUBSET Nat :
                [b EXCEPT !.kind = k, !.size = n, !.upto = n, !.alone = S] \in ToolBatches
BY DEF ToolBatches

\* Init sets all variables to values of their types.
LEMMA InitTypes == Init => TypeOK
<1>. SUFFICES ASSUME Init PROVE TypeOK
  OBVIOUS
<1>1. NoLoop \in LoopRecords
  BY DEF NoLoop, LoopRecords, LoopPCs, Queues
<1>2. NoTools \in ToolBatches
  BY DEF NoTools, ToolBatches, Kinds
<1>3. <<>> \in Seq(Nat)
  OBVIOUS
<1>4. retryAttempt \in 0..MaxRetries
  BY AgentConstants DEF Init
<1>5. isAgentRunActive \in BOOLEAN /\ overlapped \in BOOLEAN /\ aborted \in BOOLEAN
  BY DEF Init
<1>. QED
  BY <1>1, <1>2, <1>3, <1>4, <1>5 DEF Init, TypeOK, PromptPCs, Roles, Errors

\* Every step of a session or of the loop keeps the types.
LEMMA StepTypes == TypeOK /\ [Next]_vars => TypeOK'
<1>. SUFFICES ASSUME TypeOK, [Next]_vars PROVE TypeOK'
  OBVIOUS
<1>. USE AgentConstants
<1>a. NoLoop \in LoopRecords
  BY DEF NoLoop, LoopRecords, LoopPCs, Queues
<1>b. NoTools \in ToolBatches
  BY DEF NoTools, ToolBatches, Kinds
<1>e. <<>> \in Seq(Nat) /\ "steering" \in Queues
  BY DEF Queues
<1>c. ASSUME NEW p \in Prompts, NEW pc \in {"begin", "prompts"}, NEW q \in Queues, NEW taken \in Seq(Nat),
             NEW skip \in {"yes", "no"}, StartRun(p, pc, q, taken, skip)
      PROVE  activeRun' \in Prompts \cup {None} /\ aborted' \in BOOLEAN
             /\ loop' \in LoopRecords /\ tools' \in ToolBatches
  BY <1>c DEF StartRun, NoLoop, LoopRecords, LoopPCs, Queues, TypeOK
<1>1. ASSUME NEW q \in Queues, Enqueue(q) PROVE TypeOK'
  <2>1. queue[q] \in Seq(Nat) /\ sent[q] \in Nat
    BY DEF TypeOK
  <2>2. Append(queue[q], sent[q] + 1) \in Seq(Nat)
    BY <2>1
  <2>. QED
    BY <1>1, <2>1, <2>2 DEF Enqueue, TypeOK, session
<1>2. ASSUME ClearQueue PROVE TypeOK'
  <2>1. \A q \in Queues : Elements(queue[q]) \subseteq Nat
    BY ElementsType DEF TypeOK
  <2>. QED
    BY <1>2, <2>1 DEF ClearQueue, TypeOK, session
<1>3. ASSUME NEW p \in Prompts,
             Preflight(p) \/ PreflightFails(p) \/ AbortRetry(p) \/ PrepareRetry(p) \/ NoRetry(p)
               \/ BackoffEnds(p) \/ CheckQueued(p) \/ ContinueRefused(p) \/ Settle(p)
      PROVE  TypeOK'
  <2>1. prompt' \in [Prompts -> PromptPCs]
    BY <1>3 DEF Preflight, PreflightFails, AbortRetry, PrepareRetry, NoRetry, BackoffEnds, CheckQueued,
                ContinueRefused, Settle, Goes, TypeOK, PromptPCs
  <2>2. retryAttempt' \in 0..MaxRetries
    BY <1>3 DEF Preflight, PreflightFails, AbortRetry, PrepareRetry, NoRetry, BackoffEnds, CheckQueued,
                ContinueRefused, Settle, TypeOK
  <2>3. isAgentRunActive' \in BOOLEAN /\ UNCHANGED <<overlapped, activeRun, aborted, messages, loop, tools>>
    BY <1>3, Zenon DEF Preflight, PreflightFails, AbortRetry, PrepareRetry, NoRetry, BackoffEnds, CheckQueued,
                ContinueRefused, Settle, TypeOK
  <2>4. last' \in Roles
    <3>1. \A e \in Errors : Before(e) \in Roles
      BY DEF Errors, Roles, Before
    <3>2. (last \in Errors /\ last' = Before(last)) \/ last' = last
      BY <1>3, Zenon DEF Preflight, PreflightFails, AbortRetry, PrepareRetry, NoRetry, BackoffEnds, CheckQueued,
                  ContinueRefused, Settle
    <3>3. last \in Roles
      BY DEF TypeOK
    <3>. QED
      BY <3>1, <3>2, <3>3
  <2>. QED
    BY <2>1, <2>2, <2>3, <2>4 DEF TypeOK, messages
<1>4. ASSUME NEW p \in Prompts, RunPrompt(p) PROVE TypeOK'
  <2>1. prompt' \in [Prompts -> PromptPCs]
    BY <1>4 DEF RunPrompt, Goes, TypeOK, PromptPCs
  <2>2. activeRun' \in Prompts \cup {None} /\ aborted' \in BOOLEAN
        /\ loop' \in LoopRecords /\ tools' \in ToolBatches
    <3>1. CASE StartRun(p, "begin", "steering", <<>>, "no")
      BY <3>1, <1>c, <1>e
    <3>2. CASE UNCHANGED <<activeRun, aborted, loop, tools>>
      BY <3>2 DEF TypeOK
    <3>. QED
      BY <1>4, <3>1, <3>2 DEF RunPrompt
  <2>. QED
    BY <1>4, <2>1, <2>2 DEF RunPrompt, TypeOK, messages
<1>5. ASSUME NEW p \in Prompts, Continue(p) PROVE TypeOK'
  <2>1. prompt' \in [Prompts -> PromptPCs]
    BY <1>5 DEF Continue, Goes, TypeOK, PromptPCs
  <2>2. activeRun' \in Prompts \cup {None} /\ aborted' \in BOOLEAN
        /\ loop' \in LoopRecords /\ tools' \in ToolBatches /\ queue' \in [Queues -> Seq(Nat)]
    <3>1. CASE StartRun(p, "prompts", "steering", <<>>, "no") /\ UNCHANGED queue
      BY <3>1, <1>c, <1>e DEF TypeOK
    <3>2. ASSUME NEW q \in Queues, TakeQueued(p, q)
          PROVE  activeRun' \in Prompts \cup {None} /\ aborted' \in BOOLEAN
                 /\ loop' \in LoopRecords /\ tools' \in ToolBatches /\ queue' \in [Queues -> Seq(Nat)]
      BY <3>2, <1>c, DrainTypes DEF TakeQueued, TypeOK
    <3>. QED
      BY <3>1, <3>2, <1>5 DEF Continue
  <2>. QED
    BY <1>5, <2>1, <2>2 DEF Continue, TypeOK
<1>6. ASSUME Inject PROVE TypeOK'
  <2>1. loop.pending \in Seq(Nat) /\ loop.pending # <<>> /\ loop.steered \in Nat /\ loop.from \in Queues
    BY <1>6 DEF Inject, TypeOK, LoopRecords
  <2>2. Head(loop.pending) \in Nat /\ Tail(loop.pending) \in Seq(Nat)
    BY <2>1
  <2>3. loop' \in LoopRecords
    <3>. DEFINE n == IF loop.from = "steering" THEN loop.steered + 1 ELSE loop.steered
    <3>1. n \in Nat
      BY <2>1
    <3>2. loop' = [loop EXCEPT !.pending = Tail(loop.pending), !.steered = n]
      BY <1>6 DEF Inject
    <3>3. loop \in LoopRecords
      BY DEF TypeOK
    <3>. HIDE DEF n
    <3>. QED
      BY <3>1, <3>2, <3>3, <2>2, LoopUpdates
  <2>. QED
    BY <1>6, <2>1, <2>2, <2>3 DEF Inject, TypeOK, Roles, Errors, session
<1>7. ASSUME AddPrompt \/ Injected PROVE TypeOK'
  BY <1>7 DEF AddPrompt, Injected, TypeOK, LoopRecords, LoopPCs, Roles, session, messages
<1>8. ASSUME FirstPoll \/ PollSteering \/ PollFollowUp PROVE TypeOK'
  <2>1. \A q \in Queues : Drained(q) \in Seq(Nat) /\ Remaining(q) \in Seq(Nat)
    BY DrainTypes
  <2>2. loop' \in LoopRecords
    <3>1. loop \in LoopRecords /\ "steering" \in Queues /\ "followUp" \in Queues
      BY DEF TypeOK, Queues
    <3>2. CASE FirstPoll
      BY <2>1, <3>1, <3>2 DEF FirstPoll, LoopRecords, LoopPCs
    <3>3. CASE PollSteering
      BY <2>1, <3>1, <3>3 DEF PollSteering, LoopRecords, LoopPCs
    <3>4. CASE PollFollowUp
      BY <2>1, <3>1, <3>4 DEF PollFollowUp, LoopRecords, LoopPCs
    <3>. QED
      BY <1>8, <3>2, <3>3, <3>4
  <2>3. queue' \in [Queues -> Seq(Nat)]
    BY <1>8, <2>1 DEF FirstPoll, PollSteering, PollFollowUp, TypeOK, Queues
  <2>. QED
    BY <1>8, <2>2, <2>3 DEF FirstPoll, PollSteering, PollFollowUp, TypeOK, session
<1>9. ASSUME NEW n \in 0..MaxToolCalls, NEW alone \in SUBSET (1..n), NEW truncated \in BOOLEAN,
             Answer(n, alone, truncated)
      PROVE  TypeOK'
  <2>1. loop' \in LoopRecords
    BY <1>9 DEF Answer, TypeOK, LoopRecords, LoopPCs
  <2>2. tools' \in ToolBatches
    <3>1. PICK k \in Kinds : tools' = [NoTools EXCEPT !.kind = k, !.size = n, !.upto = n, !.alone = alone]
      BY <1>9 DEF Answer, Kinds, ExecutionKind
    <3>2. n \in Nat /\ alone \in SUBSET Nat
      OBVIOUS
    <3>. QED
      BY <3>1, <3>2, <1>b, BatchUpdates
  <2>. QED
    BY <1>9, <2>1, <2>2 DEF Answer, TypeOK, Roles, Errors, messages
<1>10. ASSUME AnswerStops \/ StopAfterTurn PROVE TypeOK'
  <2>1. loop' \in LoopRecords
    <3>1. loop' = [loop EXCEPT !.pc = "agentEnd"]
      BY <1>10 DEF AnswerStops, StopAfterTurn
    <3>2. loop \in LoopRecords
      BY DEF TypeOK
    <3>. QED
      BY <3>1, <3>2 DEF LoopRecords, LoopPCs
  <2>. QED
    BY <1>10, <2>1 DEF AnswerStops, StopAfterTurn, TypeOK, Roles, Errors, messages, session
<1>f. ASSUME FinishRun PROVE activeRun' \in Prompts \cup {None} /\ aborted' \in BOOLEAN
                             /\ loop' \in LoopRecords /\ tools' \in ToolBatches
  <2>1. tools.size \in Nat /\ tools.results \in Seq(Nat) /\ tools.cut \in {"yes", "no"}
    BY DEF TypeOK, ToolBatches
  <2>2. \A n \in Nat, r \in Seq(Nat), c \in {"yes", "no"} :
          [NoTools EXCEPT !.size = n, !.results = r, !.cut = c] \in ToolBatches
    BY <1>b DEF ToolBatches
  <2>3. tools' \in ToolBatches
    BY <1>f, <2>1, <2>2 DEF FinishRun
  <2>. QED
    BY <1>f, <1>a, <2>3 DEF FinishRun
<1>11. ASSUME RunEnds PROVE TypeOK'
  BY <1>11, <1>f DEF RunEnds, TypeOK, PromptPCs, messages
<1>12. ASSUME RunFails PROVE TypeOK'
  <2>1. Elements(loop.pending) \subseteq Nat /\ loop.from \in Queues
    BY ElementsType DEF TypeOK, LoopRecords
  <2>2. retryAttempt' \in 0..MaxRetries /\ last' \in Roles
    <3>1. 0 \in 0..MaxRetries /\ retryAttempt \in 0..MaxRetries /\ last \in Roles
      BY DEF TypeOK
    <3>2. retryAttempt' \in {0, retryAttempt}
      BY <1>12, Zenon DEF RunFails
    <3>3. last' \in {"assistant", "error", "failure", "loneError", last}
      BY <1>12, Zenon DEF RunFails, ErrorAfter
    <3>. QED
      BY <3>1, <3>2, <3>3 DEF Roles, Errors
  <2>3. prompt' \in [Prompts -> PromptPCs]
    BY <1>12 DEF RunFails, TypeOK, PromptPCs
  <2>. QED
    BY <1>12, <2>1, <2>2, <2>3, <1>f DEF RunFails, TypeOK
<1>13. ASSUME Abort PROVE TypeOK'
  BY <1>13 DEF Abort, TypeOK, session, messages
<1>14. ASSUME FailCall \/ PrepareCall \/ BreakCalls \/ ExecuteCalls \/ AddResult \/ \E i \in 1..MaxToolCalls : CallEnds(i)
       PROVE  TypeOK'
  <2>1. tools.results \in Seq(Nat) /\ tools.next \in Nat /\ tools.upto \in Nat
    BY DEF TypeOK, ToolBatches
  <2>2. Append(tools.results, tools.next) \in Seq(Nat) /\ Append(tools.results, Len(tools.results) + 1) \in Seq(Nat)
        /\ \A i \in 1..MaxToolCalls : Append(tools.results, i) \in Seq(Nat)
    BY <2>1
  <2>5. tools \in ToolBatches
    BY DEF TypeOK
  <2>6. tools.next + 1 \in Nat
    BY <2>1
  <2>3. tools' \in ToolBatches
    <3>1. CASE FailCall
      <4>1. PICK s \in Seq(Nat) : tools' = [tools EXCEPT !.next = tools.next + 1, !.results = s]
        BY <3>1, <2>1, <2>2 DEF FailCall, ResultAdded
      <4>. QED
        BY <4>1, <2>1, <2>5, <2>6, BatchUpdates
    <3>2. CASE PrepareCall
      <4>1. tools.prepared \cup {tools.next} \in SUBSET Nat /\ {tools.next} \in SUBSET Nat /\ tools.next + 1 \in Nat
        BY <2>1 DEF TypeOK, ToolBatches
      <4>. QED
        BY <3>2, <4>1, <2>5, BatchUpdates DEF PrepareCall
    <3>3. CASE BreakCalls
      <4>1. tools.next - 1 \in Nat
        BY <3>3, <2>1 DEF BreakCalls
      <4>. QED
        BY <3>3, <4>1, <2>5, BatchUpdates DEF BreakCalls
    <3>4. CASE ExecuteCalls
      BY <3>4 DEF ExecuteCalls, TypeOK, ToolBatches
    <3>5. CASE AddResult
      BY <3>5, <2>2 DEF AddResult, TypeOK, ToolBatches
    <3>6. ASSUME NEW i \in 1..MaxToolCalls, CallEnds(i) PROVE tools' \in ToolBatches
      BY <3>6, <2>1, <2>2 DEF CallEnds, ResultAdded, TypeOK, ToolBatches
    <3>. QED
      BY <1>14, <3>1, <3>2, <3>3, <3>4, <3>5, <3>6
  <2>4. UNCHANGED <<session, activeRun, aborted, messages, loop>>
    BY <1>14 DEF FailCall, PrepareCall, BreakCalls, ExecuteCalls, AddResult, CallEnds, ToolStep
  <2>7. last' \in {last, "toolResult"}
    BY <1>14 DEF FailCall, PrepareCall, BreakCalls, ExecuteCalls, AddResult, CallEnds, ResultAdded
  <2>. QED
    BY <2>3, <2>4, <2>7 DEF TypeOK, Roles, session, messages
<1>15. ASSUME NEW terminate \in BOOLEAN, CallsDone(terminate) PROVE TypeOK'
  <2>1. loop' \in LoopRecords
    BY <1>15 DEF CallsDone, TypeOK, LoopRecords, LoopPCs
  <2>2. tools' \in ToolBatches
    BY <1>15 DEF CallsDone, NoTools, TypeOK, ToolBatches, Kinds
  <2>. QED
    BY <1>15, <2>1, <2>2 DEF CallsDone, ToolStep, TypeOK, session, messages
<1>16. CASE UNCHANGED vars
  BY <1>16 DEF vars, TypeOK
<1>. QED
  BY <1>1, <1>2, <1>3, <1>4, <1>5, <1>6, <1>7, <1>8, <1>9, <1>10, <1>11, <1>12, <1>13, <1>14, <1>15, <1>16
     DEF Next, SessionStep, LoopStep

----------------------------------------------------------------------------
(***************************************************************************)
(* The session, its prompt calls and the active run.                       *)
(***************************************************************************)
\* Steps of the loop other than its end concern no prompt call.
LEMMA LoopKeepsOwner ==
    ASSUME TypeOK, SessionOwns, UNCHANGED <<isAgentRunActive, overlapped, prompt, activeRun>>,
           (loop.pc = "none") <=> (loop'.pc = "none")
    PROVE  SessionOwns'
BY DEF SessionOwns, Working

\* Nobody is working on anything initially.
LEMMA InitOwns == Init => SessionOwns
BY AgentConstants DEF Init, SessionOwns, Working, NoLoop

\* A prompt call of the session that is not the active run moves on.
LEMMA PromptMoves ==
    ASSUME TypeOK, SessionOwns, NEW p \in Prompts, NEW from \in PromptPCs, NEW to \in PromptPCs,
           Goes(p, from, to), from \notin {"running", "done"}, to # "running",
           UNCHANGED <<overlapped, activeRun, loop>>,
           from \in {"new", "preflight"} => to \in {"preflight", "done"},
           (isAgentRunActive' = isAgentRunActive) \/ (from = "settle" /\ to = "done")
    PROVE  SessionOwns'
<1>1. prompt' = [prompt EXCEPT ![p] = to] /\ prompt[p] = from /\ prompt \in [Prompts -> PromptPCs]
  BY DEF Goes, TypeOK
<1>2. \A q \in Prompts : prompt'[q] = IF q = p THEN to ELSE prompt[q]
  BY <1>1
<1>3. \A q \in Prompts : (prompt'[q] = "running") <=> (activeRun' = q)
  BY <1>1, <1>2 DEF SessionOwns
<1>4. \A q \in Prompts : Working(q)' => Working(q)
  BY <1>1, <1>2 DEF Working, PromptPCs
<1>5. ASSUME ~overlapped' PROVE \A q \in Prompts : Working(q)' => isAgentRunActive'
  <2>. SUFFICES ASSUME NEW q \in Prompts, Working(q)' PROVE isAgentRunActive'
    OBVIOUS
  <2>1. isAgentRunActive
    BY <1>4, <1>5 DEF SessionOwns
  <2>2. CASE from = "settle" /\ to = "done"
    <3>1. Working(p) /\ ~Working(p)'
      BY <2>2, <1>1, <1>2 DEF Working
    <3>. QED
      BY <3>1, <1>4, <1>5 DEF SessionOwns
  <2>. QED
    BY <2>1, <2>2
<1>6. ASSUME ~overlapped' PROVE \A q, r \in Prompts : Working(q)' /\ Working(r)' => q = r
  BY <1>4, <1>6 DEF SessionOwns
<1>7. (activeRun' = None) <=> (loop'.pc = "none")
  BY DEF SessionOwns
<1>. QED
  BY <1>3, <1>5, <1>6, <1>7 DEF SessionOwns

\* The active run ends, and its prompt call goes on.
LEMMA OwnerMoves ==
    ASSUME TypeOK, SessionOwns, loop.pc # "none", FinishRun, NEW to \in {"post", "settle"},
           prompt' = [prompt EXCEPT ![activeRun] = to], UNCHANGED <<isAgentRunActive, overlapped>>
    PROVE  SessionOwns'
<1>1. activeRun \in Prompts /\ prompt[activeRun] = "running"
  BY DEF SessionOwns, TypeOK
<1>2. \A q \in Prompts : prompt'[q] = IF q = activeRun THEN to ELSE prompt[q]
  BY <1>1 DEF TypeOK
<1>3. activeRun' = None /\ loop'.pc = "none"
  BY DEF FinishRun, NoLoop
<1>4. \A q \in Prompts : prompt'[q] # "running" /\ (Working(q)' <=> Working(q))
  BY <1>1, <1>2 DEF SessionOwns, Working
<1>. QED
  BY <1>3, <1>4, AgentConstants DEF SessionOwns

\* A prompt call has its run started.
LEMMA OwnerStarts ==
    ASSUME TypeOK, SessionOwns, NEW p \in Prompts, NEW from \in {"preflight", "continue"}, Goes(p, from, "running"),
           activeRun = None, activeRun' = p, loop'.pc # "none",
           from = "continue" => UNCHANGED <<isAgentRunActive, overlapped>>,
           from = "preflight" => isAgentRunActive' = TRUE /\ overlapped' = (overlapped \/ isAgentRunActive)
    PROVE  SessionOwns'
<1>1. prompt[p] = from
  BY DEF Goes
<1>2. \A q \in Prompts : prompt'[q] = IF q = p THEN "running" ELSE prompt[q]
  BY DEF Goes, TypeOK
<1>3. \A q \in Prompts : (prompt'[q] = "running") <=> (activeRun' = q)
  BY <1>2, AgentConstants DEF SessionOwns
<1>4. CASE from = "continue"
  <2>1. \A q \in Prompts : Working(q)' => Working(q)
    BY <1>1, <1>2, <1>4 DEF Working
  <2>. QED
    BY <1>3, <1>4, <2>1, AgentConstants DEF SessionOwns
<1>5. CASE from = "preflight"
  <2>1. \A q \in Prompts : q # p => (Working(q)' <=> Working(q))
    BY <1>2 DEF Working
  <2>2. ~overlapped' => \A q \in Prompts : ~Working(q)
    BY <1>5 DEF SessionOwns
  <2>3. ~overlapped' => \A q, r \in Prompts : Working(q)' /\ Working(r)' => q = r
    BY <2>1, <2>2
  <2>4. isAgentRunActive'
    BY <1>5
  <2>. QED
    BY <1>3, <2>3, <2>4, AgentConstants DEF SessionOwns
<1>. QED
  BY <1>4, <1>5

\* Every step keeps the owner of the run and what the flag says.
LEMMA StepOwns == TypeOK /\ SessionOwns /\ [Next]_vars => SessionOwns'
<1>. SUFFICES ASSUME TypeOK, SessionOwns, [Next]_vars PROVE SessionOwns'
  OBVIOUS
<1>1. ASSUME \/ \E q \in Queues : Enqueue(q)
             \/ ClearQueue \/ Abort \/ UNCHANGED vars
             \/ FailCall \/ PrepareCall \/ BreakCalls \/ ExecuteCalls \/ AddResult
             \/ \E i \in 1..MaxToolCalls : CallEnds(i)
      PROVE  SessionOwns'
  <2>1. UNCHANGED <<isAgentRunActive, overlapped, prompt, activeRun, loop>>
    BY <1>1 DEF Enqueue, ClearQueue, Abort, vars, FailCall, PrepareCall, BreakCalls, ExecuteCalls, AddResult,
                CallEnds, ToolStep, session
  <2>. QED
    BY <2>1, LoopKeepsOwner
<1>2. ASSUME \/ AddPrompt \/ Inject \/ Injected \/ FirstPoll \/ AnswerStops \/ PollSteering \/ StopAfterTurn
             \/ PollFollowUp
             \/ \E n \in 0..MaxToolCalls : \E alone \in SUBSET (1..n), truncated \in BOOLEAN : Answer(n, alone, truncated)
             \/ \E terminate \in BOOLEAN : CallsDone(terminate)
      PROVE  SessionOwns'
  <2>1. UNCHANGED <<isAgentRunActive, overlapped, prompt, activeRun>>
    BY <1>2 DEF AddPrompt, Inject, Injected, FirstPoll, AnswerStops, PollSteering, StopAfterTurn, PollFollowUp, Answer,
                CallsDone, ToolStep, session
  <2>2. loop.pc # "none" /\ loop'.pc # "none"
    BY <1>2 DEF AddPrompt, Inject, Injected, FirstPoll, AnswerStops, PollSteering, StopAfterTurn, PollFollowUp, Answer,
                CallsDone, ToolStep, TypeOK, LoopRecords
  <2>. QED
    BY <2>1, <2>2, LoopKeepsOwner
<1>3. ASSUME NEW p \in Prompts,
             Preflight(p) \/ PreflightFails(p) \/ AbortRetry(p) \/ PrepareRetry(p) \/ NoRetry(p)
               \/ BackoffEnds(p) \/ CheckQueued(p) \/ ContinueRefused(p)
      PROVE  SessionOwns'
  <2>1. PICK from \in PromptPCs, to \in PromptPCs :
          /\ Goes(p, from, to)
          /\ from \notin {"running", "done"}
          /\ to # "running"
          /\ from \in {"new", "preflight"} => to \in {"preflight", "done"}
    BY <1>3 DEF Preflight, PreflightFails, AbortRetry, PrepareRetry, NoRetry, BackoffEnds, CheckQueued,
                ContinueRefused, PromptPCs
  <2>2. UNCHANGED <<isAgentRunActive, overlapped, activeRun, loop>>
    BY <1>3 DEF Preflight, PreflightFails, AbortRetry, PrepareRetry, NoRetry, BackoffEnds, CheckQueued,
                ContinueRefused
  <2>3. isAgentRunActive' = isAgentRunActive
    BY <2>2
  <2>. QED
    BY <2>1, <2>2, <2>3, PromptMoves
<1>4. ASSUME NEW p \in Prompts, Settle(p) PROVE SessionOwns'
  <2>1. Goes(p, "settle", "done") /\ UNCHANGED <<overlapped, activeRun, loop>>
    BY <1>4 DEF Settle
  <2>. QED
    BY <2>1, PromptMoves DEF PromptPCs
<1>5. ASSUME NEW p \in Prompts, RunPrompt(p) PROVE SessionOwns'
  <2>1. isAgentRunActive' = TRUE /\ overlapped' = (overlapped \/ isAgentRunActive)
    BY <1>5 DEF RunPrompt
  <2>2. CASE Goes(p, "preflight", "running") /\ StartRun(p, "begin", "steering", <<>>, "no")
    <3>1. activeRun = None /\ activeRun' = p /\ loop'.pc # "none"
      BY <2>2 DEF StartRun, NoLoop
    <3>. QED
      BY <2>1, <2>2, <3>1, OwnerStarts
  <2>3. CASE Goes(p, "preflight", "settle") /\ activeRun # None /\ UNCHANGED <<activeRun, loop>>
    <3>1. prompt[p] = "preflight" /\ \A q \in Prompts : prompt'[q] = IF q = p THEN "settle" ELSE prompt[q]
      BY <2>3 DEF Goes, TypeOK
    <3>2. activeRun \in Prompts /\ Working(activeRun)
      BY <2>3 DEF SessionOwns, Working, TypeOK
    <3>3. overlapped'
      BY <2>1, <3>2 DEF SessionOwns
    <3>4. \A q \in Prompts : (prompt'[q] = "running") <=> (activeRun' = q)
      BY <2>3, <3>1 DEF SessionOwns
    <3>5. (activeRun' = None) <=> (loop'.pc = "none")
      BY <2>3 DEF SessionOwns
    <3>. QED
      BY <3>3, <3>4, <3>5 DEF SessionOwns
  <2>. QED
    BY <1>5, <2>2, <2>3 DEF RunPrompt
<1>6. ASSUME NEW p \in Prompts, Continue(p) PROVE SessionOwns'
  <2>1. Goes(p, "continue", "running") /\ UNCHANGED <<isAgentRunActive, overlapped>>
    BY <1>6 DEF Continue
  <2>2. activeRun = None /\ activeRun' = p /\ loop'.pc # "none"
    BY <1>6 DEF Continue, TakeQueued, StartRun, NoLoop
  <2>. QED
    BY <2>1, <2>2, OwnerStarts
<1>7. ASSUME RunEnds \/ RunFails PROVE SessionOwns'
  <2>1. /\ loop.pc # "none"
        /\ FinishRun
        /\ \E to \in {"post", "settle"} : prompt' = [prompt EXCEPT ![activeRun] = to]
        /\ UNCHANGED <<isAgentRunActive, overlapped>>
    BY <1>7 DEF RunEnds, RunFails
  <2>. QED
    BY <2>1, OwnerMoves
<1>. QED
  BY <1>1, <1>2, <1>3, <1>4, <1>5, <1>6, <1>7 DEF Next, SessionStep, LoopStep

\* TypeOK, for any prompt calls, messages and tool calls.
THEOREM AgentTypeCorrect == Spec => []TypeOK
<1>. QED
  BY InitTypes, StepTypes, PTL DEF Spec

\* The owner of the run is known and the flag agrees with it at all times.
THEOREM AgentOwnership == Spec => [](TypeOK /\ SessionOwns)
<1>. QED
  BY InitTypes, StepTypes, InitOwns, StepOwns, PTL DEF Spec

\* The session's isIdle is true while a prompt is being worked on only if prompt()
\* calls have overlapped.
THEOREM IdleMeansIdle == Spec => []IdleIsIdle
<1>1. SessionOwns => IdleIsIdle
  BY DEF SessionOwns, IdleIsIdle, Busy, Working
<1>. QED
  BY <1>1, AgentOwnership, PTL

----------------------------------------------------------------------------
(***************************************************************************)
(* Tool calls and their results.                                           *)
(***************************************************************************)
InCallOrder(s) == s = [i \in 1..Len(s) |-> i]

OneByOne(b) ==
    /\ b.prepared = {}
    /\ b.running = {} => Len(b.results) = b.next - 1
    /\ b.running # {} => b.running = {b.next - 1} /\ Len(b.results) = b.next - 2

Together(b) ==
    /\ b.alone = {}
    /\ Len(b.results) # 0 => b.next > b.upto /\ b.prepared = {} /\ b.running = {}

Progress(b) ==
    /\ b.upto <= b.size
    /\ b.next <= b.upto + 1
    /\ b.kind \in {"sequential", "truncated", "parallel"}
    /\ b.kind \in {"sequential", "truncated"} => OneByOne(b)
    /\ b.kind = "truncated" => b.running = {}
    /\ b.kind = "parallel" => Together(b)

BatchInv ==
    /\ InCallOrder(tools.results)
    /\ loop.pc = "tools" => Progress(tools) /\ (~aborted => tools.upto = tools.size)
    /\ loop.pc # "tools" => tools.running = {} /\ (Len(tools.results) = tools.size \/ aborted \/ tools.cut = "yes")

\* Numbering goes on with the next number.
LEMMA OrderExtends ==
    ASSUME NEW s \in Seq(Nat), InCallOrder(s), NEW n \in Nat, n = Len(s) + 1
    PROVE  InCallOrder(Append(s, n)) /\ Len(Append(s, n)) = n /\ Append(s, n) \in Seq(Nat)
BY DEF InCallOrder

\* A batch in progress keeps its shape when one of its calls moves on.
LEMMA BatchSteps ==
    ASSUME TypeOK, BatchInv, loop.pc = "tools",
           FailCall \/ PrepareCall \/ BreakCalls \/ ExecuteCalls \/ AddResult \/ \E i \in 1..MaxToolCalls : CallEnds(i)
    PROVE  BatchInv'
<1>. USE DEF BatchInv, OneByOne, Together, Progress
<1>1. UNCHANGED <<loop, aborted>>
  BY DEF FailCall, PrepareCall, BreakCalls, ExecuteCalls, AddResult, CallEnds, ToolStep
<1>2. /\ tools.results \in Seq(Nat) /\ tools.next \in Nat /\ tools.upto \in Nat /\ tools.size \in Nat
      /\ tools = [kind |-> tools.kind, size |-> tools.size, alone |-> tools.alone, upto |-> tools.upto,
                  next |-> tools.next, prepared |-> tools.prepared, running |-> tools.running,
                  results |-> tools.results, cut |-> tools.cut]
  BY DEF TypeOK, ToolBatches
<1>3. Len(tools.results) \in Nat
  BY <1>2
<1>s. SUFFICES InCallOrder(tools'.results) /\ Progress(tools') /\ (~aborted => tools'.upto = tools'.size)
  BY <1>1
<1>4. CASE FailCall
  <2>1. tools.next <= tools.upto /\ (tools.kind = "sequential" => tools.running = {})
    BY <1>4 DEF FailCall, MayBegin
  <2>2. CASE tools.kind = "parallel"
    <3>1. tools' = [tools EXCEPT !.next = tools.next + 1, !.results = tools.results]
      BY <1>4, <2>2 DEF FailCall, ResultAdded
    <3>. QED
      BY <1>2, <1>3, <2>1, <2>2, <3>1
  <2>3. CASE tools.kind # "parallel"
    <3>1. tools' = [tools EXCEPT !.next = tools.next + 1, !.results = Append(tools.results, tools.next)]
      BY <1>4, <2>3 DEF FailCall, ResultAdded
    <3>2. tools.next = Len(tools.results) + 1
      BY <1>2, <1>3, <2>1, <2>3
    <3>3. InCallOrder(Append(tools.results, tools.next)) /\ Len(Append(tools.results, tools.next)) = tools.next
      BY <1>2, <3>2, OrderExtends
    <3>. QED
      BY <1>2, <1>3, <2>1, <2>3, <3>1, <3>2, <3>3
  <2>. QED
    BY <2>2, <2>3
<1>5. CASE PrepareCall
  <2>1. tools.next <= tools.upto /\ (tools.kind = "sequential" => tools.running = {}) /\ tools.kind # "truncated"
    BY <1>5 DEF PrepareCall, MayBegin
  <2>2. CASE tools.kind = "sequential"
    <3>1. tools' = [tools EXCEPT !.next = tools.next + 1, !.running = {tools.next}]
      BY <1>5, <2>2 DEF PrepareCall
    <3>. QED
      BY <1>2, <1>3, <2>1, <2>2, <3>1
  <2>3. CASE tools.kind = "parallel"
    <3>1. tools' = [tools EXCEPT !.next = tools.next + 1, !.prepared = tools.prepared \cup {tools.next}]
      BY <1>5, <2>3 DEF PrepareCall
    <3>. QED
      BY <1>2, <1>3, <2>1, <2>3, <3>1
  <2>. QED
    BY <2>1, <2>2, <2>3
<1>6. CASE BreakCalls
  <2>1. /\ tools.next <= tools.upto
        /\ tools.next > 1
        /\ aborted
        /\ tools' = [tools EXCEPT !.upto = tools.next - 1]
    BY <1>6 DEF BreakCalls, MayBegin
  <2>. QED
    BY <1>2, <1>3, <2>1
<1>7. CASE ExecuteCalls
  <2>1. /\ tools.next > tools.upto
        /\ tools.prepared # {}
        /\ tools' = [tools EXCEPT !.running = tools.prepared, !.prepared = {}]
    BY <1>7 DEF ExecuteCalls
  <2>2. tools.kind = "parallel" /\ Len(tools.results) = 0
    BY <2>1
  <2>. QED
    BY <1>2, <1>3, <2>1, <2>2
<1>8. CASE AddResult
  <2>1. /\ tools.next > tools.upto
        /\ tools.prepared = {}
        /\ tools.running = {}
        /\ Len(tools.results) < tools.upto
        /\ tools' = [tools EXCEPT !.results = Append(tools.results, Len(tools.results) + 1)]
    BY <1>8 DEF AddResult
  <2>2. tools.kind = "parallel"
    BY <1>2, <1>3, <2>1
  <2>3. InCallOrder(Append(tools.results, Len(tools.results) + 1))
    BY <1>2, <1>3, OrderExtends
  <2>. QED
    BY <1>2, <1>3, <2>1, <2>2, <2>3
<1>9. ASSUME NEW i \in 1..MaxToolCalls, CallEnds(i)
      PROVE  InCallOrder(tools'.results) /\ Progress(tools') /\ (~aborted => tools'.upto = tools'.size)
  <2>a. i \in Nat
    BY AgentConstants
  <2>1. i \in tools.running /\ i \in Nat
    BY <1>9, <2>a DEF CallEnds
  <2>2. CASE tools.kind = "parallel"
    <3>1. tools' = [tools EXCEPT !.running = tools.running \ {i}, !.results = tools.results]
      BY <1>9, <2>2 DEF CallEnds, ResultAdded
    <3>. QED
      BY <1>2, <1>3, <2>1, <2>2, <3>1
  <2>3. CASE tools.kind # "parallel"
    <3>1. tools' = [tools EXCEPT !.running = tools.running \ {i}, !.results = Append(tools.results, i)]
      BY <1>9, <2>3 DEF CallEnds, ResultAdded
    <3>2. tools.kind = "sequential" /\ tools.running = {i} /\ i = tools.next - 1 /\ i = Len(tools.results) + 1
      BY <1>2, <1>3, <2>1, <2>3
    <3>3. InCallOrder(Append(tools.results, i)) /\ Len(Append(tools.results, i)) = i
      BY <1>2, <2>1, <3>2, OrderExtends
    <3>4. tools.running \ {i} = {}
      BY <3>2
    <3>. QED
      BY <1>2, <1>3, <3>1, <3>2, <3>3, <3>4
  <2>. QED
    BY <2>2, <2>3
<1>. QED
  BY <1>4, <1>5, <1>6, <1>7, <1>8, <1>9

\* Where no call is in progress, a step that keeps the batch keeps the results.
LEMMA BatchRests ==
    ASSUME TypeOK, BatchInv, UNCHANGED tools, loop.pc # "tools", loop'.pc # "tools", aborted => aborted'
    PROVE  BatchInv'
BY DEF BatchInv

\* A run that ends leaves the results in the transcript, and cuts what it interrupts.
LEMMA FinishKeepsResults ==
    ASSUME BatchInv, FinishRun
    PROVE  BatchInv'
<1>1. /\ loop'.pc # "tools" /\ tools'.running = {} /\ tools'.results = tools.results /\ tools'.size = tools.size
      /\ tools'.cut = IF loop.pc = "tools" \/ aborted THEN "yes" ELSE tools.cut
  BY DEF FinishRun, NoLoop, NoTools
<1>. QED
  BY <1>1 DEF BatchInv

\* Every step keeps the results in order and the batch in shape.
LEMMA StepBatch == TypeOK /\ SessionOwns /\ BatchInv /\ [Next]_vars => BatchInv'
<1>. SUFFICES ASSUME TypeOK, SessionOwns, BatchInv, [Next]_vars PROVE BatchInv'
  OBVIOUS
<1>1. ASSUME \/ \E q \in Queues : Enqueue(q)
             \/ ClearQueue \/ Abort \/ UNCHANGED vars
             \/ \E p \in Prompts : \/ Preflight(p) \/ PreflightFails(p) \/ AbortRetry(p) \/ PrepareRetry(p)
                                   \/ NoRetry(p) \/ BackoffEnds(p) \/ CheckQueued(p) \/ ContinueRefused(p)
                                   \/ Settle(p)
      PROVE  BatchInv'
  <2>1. UNCHANGED <<loop, tools>> /\ (aborted => aborted')
    BY <1>1 DEF Enqueue, ClearQueue, Abort, vars, Preflight, PreflightFails, AbortRetry, PrepareRetry, NoRetry,
                BackoffEnds, CheckQueued, ContinueRefused, Settle
  <2>. QED
    BY <2>1 DEF BatchInv
<1>2. ASSUME NEW p \in Prompts, RunPrompt(p) \/ Continue(p) PROVE BatchInv'
  <2>1. CASE UNCHANGED <<aborted, loop, tools>>
    BY <2>1 DEF BatchInv
  <2>2. ASSUME NEW pc \in {"begin", "prompts"}, NEW q, NEW taken, NEW skip, StartRun(p, pc, q, taken, skip)
        PROVE  BatchInv'
    <3>1. loop.pc # "tools" /\ loop'.pc # "tools" /\ UNCHANGED <<aborted, tools>>
      BY <2>2 DEF StartRun, NoLoop, SessionOwns
    <3>. QED
      BY <3>1, BatchRests
  <2>. QED
    BY <1>2, <2>1, <2>2 DEF RunPrompt, Continue, TakeQueued
<1>3. ASSUME AddPrompt \/ Inject \/ Injected \/ FirstPoll \/ AnswerStops \/ PollSteering \/ StopAfterTurn \/ PollFollowUp
      PROVE  BatchInv'
  <2>1. UNCHANGED <<aborted, tools>>
    BY <1>3 DEF AddPrompt, Inject, Injected, FirstPoll, AnswerStops, PollSteering, StopAfterTurn, PollFollowUp
  <2>2. loop.pc # "tools" /\ loop'.pc # "tools"
    BY <1>3 DEF AddPrompt, Inject, Injected, FirstPoll, AnswerStops, PollSteering, StopAfterTurn, PollFollowUp, TypeOK,
                LoopRecords
  <2>. QED
    BY <2>1, <2>2, BatchRests
<1>4. ASSUME NEW n \in 0..MaxToolCalls, NEW alone \in SUBSET (1..n), NEW truncated \in BOOLEAN,
             Answer(n, alone, truncated)
      PROVE  BatchInv'
  <2>1. n \in Nat
    BY AgentConstants
  <2>. DEFINE k == IF n = 0 THEN "none" ELSE IF truncated THEN "truncated" ELSE ExecutionKind(n, alone)
  <2>2. /\ tools' = [NoTools EXCEPT !.kind = k, !.size = n, !.upto = n, !.alone = alone]
        /\ n # 0 => k \in {"sequential", "truncated", "parallel"}
        /\ k = "parallel" => alone = {}
    <3>1. tools' = [NoTools EXCEPT !.kind = k, !.size = n, !.upto = n, !.alone = alone]
      BY <1>4 DEF Answer
    <3>2. (n # 0 => k \in {"sequential", "truncated", "parallel"}) /\ (k = "parallel" => alone = {})
      BY DEF ExecutionKind
    <3>. QED
      BY <3>1, <3>2
  <2>. HIDE DEF k
  <2>3. loop'.pc = (IF n = 0 THEN "turnEnd" ELSE "tools") /\ UNCHANGED aborted
    BY <1>4 DEF Answer, TypeOK, LoopRecords
  <2>4. InCallOrder(tools'.results) /\ tools'.running = {} /\ Len(tools'.results) = 0
        /\ tools'.size = n /\ tools'.upto = n /\ tools'.next = 1 /\ tools'.prepared = {}
        /\ tools'.kind = k /\ tools'.alone = alone
    BY <2>2 DEF NoTools, InCallOrder
  <2>5. n # 0 => Progress(tools')
    BY <2>1, <2>2, <2>4 DEF Progress, OneByOne, Together
  <2>. QED
    BY <2>1, <2>3, <2>4, <2>5 DEF BatchInv
<1>5. ASSUME RunEnds \/ RunFails PROVE BatchInv'
  BY <1>5, FinishKeepsResults DEF RunEnds, RunFails
<1>6. ASSUME FailCall \/ PrepareCall \/ BreakCalls \/ ExecuteCalls \/ AddResult \/ \E i \in 1..MaxToolCalls : CallEnds(i)
      PROVE  BatchInv'
  <2>1. loop.pc = "tools"
    BY <1>6 DEF FailCall, PrepareCall, BreakCalls, ExecuteCalls, AddResult, CallEnds, ToolStep
  <2>. QED
    BY <1>6, <2>1, BatchSteps
<1>7. ASSUME NEW terminate \in BOOLEAN, CallsDone(terminate) PROVE BatchInv'
  <2>1. loop.pc = "tools" /\ UNCHANGED aborted /\ Len(tools.results) = tools.upto
    BY <1>7 DEF CallsDone, ToolStep
  <2>2. loop'.pc = "turnEnd"
    BY <1>7 DEF CallsDone, TypeOK, LoopRecords
  <2>3. tools'.running = {} /\ tools'.size = tools.size /\ tools'.results = tools.results
    BY <1>7 DEF CallsDone, NoTools
  <2>. QED
    BY <2>1, <2>2, <2>3 DEF BatchInv
<1>. QED
  BY <1>1, <1>2, <1>3, <1>4, <1>5, <1>6, <1>7 DEF Next, SessionStep, LoopStep

\* No calls initially.
LEMMA InitBatch == Init => BatchInv
BY DEF Init, BatchInv, NoTools, NoLoop, InCallOrder

\* The batch of tool calls is in shape at all times.
THEOREM BatchInvariant == Spec => []BatchInv
<1>. QED
  BY AgentOwnership, InitBatch, StepBatch, PTL DEF Spec

\* A request that was not aborted has the results of the calls before it, in order and
\* without a gap, and all of them unless an earlier run failed among the calls or was
\* aborted.
THEOREM RequestsHaveResults == Spec => []ResultsBeforeRequest
<1>1. BatchInv => ResultsBeforeRequest
  BY DEF BatchInv, ResultsBeforeRequest, InCallOrder
<1>. QED
  BY <1>1, BatchInvariant, PTL

\* A tool whose executionMode is sequential runs beside no other of its batch.
THEOREM SequentialToolsRunAlone == Spec => []SequentialAlone
<1>1. BatchInv => SequentialAlone
  BY DEF BatchInv, Progress, OneByOne, Together, SequentialAlone
<1>. QED
  BY <1>1, BatchInvariant, PTL

----------------------------------------------------------------------------
(***************************************************************************)
(* Sequences of messages.                                                  *)
(***************************************************************************)
Sorted(s) == \A i, j \in DOMAIN s : i < j => s[i] < s[j]
Below(S, T) == \A m \in S, n \in T : m < n

\* A queue, what the loop has taken of it, and where its other messages are.
QueueOK(que, pen, del, drp, n) ==
    /\ Sorted(que)
    /\ Sorted(pen)
    /\ Below(del, Elements(pen) \cup Elements(que))
    /\ Below(Elements(pen), Elements(que))
    /\ 1..n = Elements(que) \cup Elements(pen) \cup del \cup drp

\* The empty sequence and a single message.
LEMMA ShortSequences ==
    /\ Elements(<<>>) = {} /\ Sorted(<<>>)
    /\ \A n \in Nat : Elements(<<n>>) = {n} /\ Sorted(<<n>>)
BY DEF Elements, Sorted

\* A message that is higher than the others is put at the end.
LEMMA AppendSorted ==
    ASSUME NEW s \in Seq(Nat), NEW n \in Nat
    PROVE  /\ Elements(Append(s, n)) = Elements(s) \cup {n}
           /\ Sorted(s) /\ Below(Elements(s), {n}) => Sorted(Append(s, n))
<1>1. Len(Append(s, n)) = Len(s) + 1 /\ DOMAIN Append(s, n) = 1..(Len(s) + 1) /\ DOMAIN s = 1..Len(s) /\ Len(s) \in Nat
  OBVIOUS
<1>2. \A i \in 1..Len(s) : Append(s, n)[i] = s[i]
  OBVIOUS
<1>3. Append(s, n)[Len(s) + 1] = n
  OBVIOUS
<1>4. Elements(Append(s, n)) = Elements(s) \cup {n}
  BY <1>1, <1>2, <1>3 DEF Elements
<1>5. ASSUME Sorted(s), Below(Elements(s), {n}) PROVE Sorted(Append(s, n))
  <2>. SUFFICES ASSUME NEW i \in 1..(Len(s) + 1), NEW j \in 1..(Len(s) + 1), i < j
                PROVE  Append(s, n)[i] < Append(s, n)[j]
    BY <1>1 DEF Sorted
  <2>1. i \in 1..Len(s) /\ Append(s, n)[i] = s[i] /\ s[i] \in Elements(s)
    BY <1>1, <1>2 DEF Elements
  <2>2. CASE j \in 1..Len(s)
    BY <1>1, <1>2, <1>5, <2>1, <2>2 DEF Sorted
  <2>3. CASE j = Len(s) + 1
    BY <1>3, <1>5, <2>1, <2>3 DEF Below
  <2>. QED
    BY <1>1, <2>2, <2>3
<1>. QED
  BY <1>4, <1>5

\* The first message of a sorted sequence is below the others.
LEMMA HeadBelowTail ==
    ASSUME NEW s \in Seq(Nat), s # <<>>
    PROVE  /\ Elements(s) = {Head(s)} \cup Elements(Tail(s))
           /\ Sorted(s) => Sorted(Tail(s)) /\ Below({Head(s)}, Elements(Tail(s)))
<1>1. Len(s) \in Nat \ {0} /\ DOMAIN s = 1..Len(s) /\ Head(s) = s[1]
  OBVIOUS
<1>2. Tail(s) \in Seq(Nat) /\ Len(Tail(s)) = Len(s) - 1 /\ DOMAIN Tail(s) = 1..(Len(s) - 1)
  OBVIOUS
<1>3. \A i \in 1..(Len(s) - 1) : Tail(s)[i] = s[i + 1]
  OBVIOUS
<1>4. Elements(s) = {Head(s)} \cup Elements(Tail(s))
  <2>1. \A i \in 1..Len(s) : i = 1 \/ (i - 1 \in 1..(Len(s) - 1) /\ s[i] = Tail(s)[i - 1])
    BY <1>1, <1>3
  <2>2. \A i \in 1..(Len(s) - 1) : i + 1 \in 1..Len(s)
    BY <1>1
  <2>3. ASSUME NEW i \in 1..Len(s) PROVE s[i] \in {Head(s)} \cup Elements(Tail(s))
    <3>1. CASE i = 1
      BY <1>1, <3>1
    <3>2. CASE i # 1
      <4>1. i - 1 \in DOMAIN Tail(s) /\ s[i] = Tail(s)[i - 1]
        BY <1>2, <2>1, <3>2
      <4>. QED
        BY <4>1 DEF Elements
    <3>. QED
      BY <3>1, <3>2
  <2>4. {Head(s)} \cup Elements(Tail(s)) \subseteq Elements(s)
    BY <1>1, <1>2, <1>3, <2>2 DEF Elements
  <2>5. Elements(s) = {s[i] : i \in 1..Len(s)}
    BY <1>1 DEF Elements
  <2>. QED
    BY <2>3, <2>4, <2>5
<1>5. ASSUME Sorted(s) PROVE Sorted(Tail(s)) /\ Below({Head(s)}, Elements(Tail(s)))
  <2>1. \A i \in 1..(Len(s) - 1) : i + 1 \in DOMAIN s /\ 1 < i + 1 /\ 1 \in DOMAIN s
    BY <1>1
  <2>2. Below({Head(s)}, Elements(Tail(s)))
    BY <1>1, <1>2, <1>3, <1>5, <2>1 DEF Below, Sorted, Elements
  <2>3. \A i, j \in 1..(Len(s) - 1) : i < j => i + 1 < j + 1
    BY <1>1
  <2>4. Sorted(Tail(s))
    BY <1>2, <1>3, <1>5, <2>1, <2>3 DEF Sorted
  <2>. QED
    BY <2>2, <2>4
<1>. QED
  BY <1>4, <1>5

\* What drain returns comes before what it leaves.
LEMMA DrainSplits ==
    ASSUME TypeOK, NEW q \in Queues, Sorted(queue[q])
    PROVE  /\ Elements(queue[q]) = Elements(Drained(q)) \cup Elements(Remaining(q))
           /\ Sorted(Drained(q)) /\ Sorted(Remaining(q))
           /\ Below(Elements(Drained(q)), Elements(Remaining(q)))
           /\ Mode[q] = "one-at-a-time" => Len(Drained(q)) <= 1
           /\ queue[q] = <<>> => Drained(q) = <<>>
<1>1. queue[q] \in Seq(Nat)
  BY DEF TypeOK
<1>2. CASE queue[q] = <<>>
  BY <1>2, ShortSequences DEF Drained, Remaining, Below
<1>3. CASE queue[q] # <<>> /\ Mode[q] = "all"
  BY <1>3, ShortSequences DEF Drained, Remaining, Below
<1>4. CASE queue[q] # <<>> /\ Mode[q] # "all"
  <2>1. Drained(q) = <<Head(queue[q])>> /\ Remaining(q) = Tail(queue[q]) /\ Head(queue[q]) \in Nat
    BY <1>1, <1>4 DEF Drained, Remaining
  <2>2. Elements(Drained(q)) = {Head(queue[q])} /\ Sorted(Drained(q))
    BY <2>1, ShortSequences
  <2>3. Len(Drained(q)) = 1
    BY <2>1
  <2>4. Elements(queue[q]) = {Head(queue[q])} \cup Elements(Tail(queue[q]))
        /\ Sorted(Tail(queue[q])) /\ Below({Head(queue[q])}, Elements(Tail(queue[q])))
    BY <1>1, <1>4, HeadBelowTail
  <2>5. Len(Drained(q)) <= 1
    BY <2>3
  <2>. QED
    BY <1>4, <2>1, <2>2, <2>4, <2>5
<1>. QED
  BY <1>2, <1>3, <1>4

\* A message is queued.
LEMMA QueueGrows ==
    ASSUME NEW que \in Seq(Nat), NEW pen \in Seq(Nat), NEW del, NEW drp, NEW n \in Nat, QueueOK(que, pen, del, drp, n)
    PROVE  QueueOK(Append(que, n + 1), pen, del, drp, n + 1)
<1>1. \A m \in Elements(que) \cup Elements(pen) \cup del \cup drp : m \in 1..n
  BY DEF QueueOK
<1>2. Below(Elements(que), {n + 1}) /\ Below(Elements(pen), {n + 1}) /\ Below(del, {n + 1})
  BY <1>1 DEF Below
<1>3. Elements(Append(que, n + 1)) = Elements(que) \cup {n + 1} /\ Sorted(Append(que, n + 1))
  BY <1>2, AppendSorted DEF QueueOK
<1>4. 1..(n + 1) = 1..n \cup {n + 1}
  OBVIOUS
<1>. QED
  BY <1>2, <1>3, <1>4 DEF QueueOK, Below

\* A message that was taken is delivered.
LEMMA QueueDelivers ==
    ASSUME NEW que \in Seq(Nat), NEW pen \in Seq(Nat), pen # <<>>, NEW del, NEW drp, NEW n \in Nat,
           QueueOK(que, pen, del, drp, n)
    PROVE  QueueOK(que, Tail(pen), del \cup {Head(pen)}, drp, n)
<1>1. Elements(pen) = {Head(pen)} \cup Elements(Tail(pen)) /\ Sorted(Tail(pen)) /\ Below({Head(pen)}, Elements(Tail(pen)))
  BY HeadBelowTail DEF QueueOK
<1>. QED
  BY <1>1 DEF QueueOK, Below

\* Messages that drain returns are taken.
LEMMA QueueDrains ==
    ASSUME NEW que, NEW pen, NEW rest, NEW del, NEW drp, NEW n, QueueOK(que, <<>>, del, drp, n),
           Elements(que) = Elements(pen) \cup Elements(rest), Sorted(pen), Sorted(rest),
           Below(Elements(pen), Elements(rest))
    PROVE  QueueOK(rest, pen, del, drp, n)
BY ShortSequences DEF QueueOK, Below

\* A queue is cleared, and messages that were taken are dropped.
LEMMA QueueDrops ==
    ASSUME NEW que, NEW pen, NEW del, NEW drp, NEW n, QueueOK(que, pen, del, drp, n)
    PROVE  /\ QueueOK(<<>>, pen, del, drp \cup Elements(que), n)
           /\ QueueOK(que, <<>>, del, drp \cup Elements(pen), n)
BY ShortSequences DEF QueueOK, Below

----------------------------------------------------------------------------
(***************************************************************************)
(* Messages.                                                               *)
(***************************************************************************)
Taken(q) == IF loop.from = q THEN loop.pending ELSE <<>>

MessageInv == \A q \in Queues : QueueOK(queue[q], Taken(q), delivered[q], dropped[q], sent[q])

\* The loop holds messages only where it injects them.
HoldsToInject == loop.pc \notin {"prompts", "inject"} => loop.pending = <<>>

\* Steering messages the loop has injected since the last answer, or will inject.
SteeringCount ==
    /\ loop.steered + Len(Taken("steering")) <= 1
    /\ loop.pc = "prompts" /\ loop.skip = "no" => loop.steered = 0 /\ Taken("steering") = <<>>
    /\ loop.pc = "begin" \/ (loop.pc = "poll" /\ loop.skip = "no") => loop.steered = 0
    /\ loop.pc \in {"tools", "turnEnd", "followUp"} => loop.steered = 0

LoopTakes == HoldsToInject /\ (Mode["steering"] = "one-at-a-time" => SteeringCount)

\* Steps that leave the queues and what the loop has taken of them.
LEMMA QuietKeeps ==
    ASSUME MessageInv, UNCHANGED messages, \A q \in Queues : Taken(q)' = Taken(q)
    PROVE  MessageInv'
BY DEF MessageInv, messages

\* A poll of a queue by a loop that holds no messages.
LEMMA PollKeeps ==
    ASSUME TypeOK, MessageInv, NEW q \in Queues, loop.pending = <<>>, loop'.from = q, loop'.pending = Drained(q),
           queue' = [queue EXCEPT ![q] = Remaining(q)], UNCHANGED <<sent, delivered, dropped>>
    PROVE  MessageInv'
<1>. SUFFICES ASSUME NEW r \in Queues PROVE QueueOK(queue'[r], Taken(r)', delivered[r], dropped[r], sent[r])
  BY DEF MessageInv
<1>1. QueueOK(queue[r], <<>>, delivered[r], dropped[r], sent[r])
  BY DEF MessageInv, Taken
<1>2. CASE r = q
  <2>1. Sorted(queue[q])
    BY <1>1, <1>2 DEF QueueOK
  <2>2. queue'[q] = Remaining(q) /\ Taken(q)' = Drained(q)
    BY DEF TypeOK, Taken
  <2>. QED
    BY <1>1, <1>2, <2>1, <2>2, DrainSplits, QueueDrains
<1>3. CASE r # q
  BY <1>1, <1>3 DEF TypeOK, Taken
<1>. QED
  BY <1>2, <1>3

\* Nothing was sent initially.
LEMMA InitMessages == Init => MessageInv /\ LoopTakes
<1>. SUFFICES ASSUME Init PROVE MessageInv /\ LoopTakes
  OBVIOUS
<1>1. \A q \in Queues : queue[q] = <<>> /\ Taken(q) = <<>> /\ delivered[q] = {} /\ dropped[q] = {} /\ sent[q] = 0
  BY DEF Init, NoLoop, Taken
<1>2. 1..0 = {} /\ Len(<<>>) = 0
  OBVIOUS
<1>3. MessageInv
  BY <1>1, <1>2, ShortSequences DEF MessageInv, QueueOK, Below
<1>4. LoopTakes
  BY <1>1, <1>2 DEF Init, NoLoop, LoopTakes, HoldsToInject, SteeringCount, Queues
<1>. QED
  BY <1>3, <1>4

\* No step loses a message or changes the order of messages.
LEMMA StepMessages == TypeOK /\ SessionOwns /\ LoopTakes /\ MessageInv /\ [Next]_vars => MessageInv'
<1>. SUFFICES ASSUME TypeOK, SessionOwns, LoopTakes, MessageInv, [Next]_vars PROVE MessageInv'
  OBVIOUS
<1>. USE AgentConstants
<1>a. \A q \in Queues : queue[q] \in Seq(Nat) /\ Taken(q) \in Seq(Nat) /\ sent[q] \in Nat
  BY DEF TypeOK, LoopRecords, Taken
<1>b. loop.from \in Queues /\ "steering" \in Queues /\ "followUp" \in Queues
  BY DEF TypeOK, LoopRecords, Queues
<1>c. loop.pc \notin {"prompts", "inject"} => loop.pending = <<>>
  BY DEF LoopTakes, HoldsToInject
<1>d. ASSUME NEW p \in Prompts, NEW pc, StartRun(p, pc, "steering", <<>>, "no"), UNCHANGED messages PROVE MessageInv'
  <2>1. loop.pending = <<>>
    BY <1>c, <1>d DEF StartRun, SessionOwns
  <2>2. loop'.pending = <<>>
    BY <1>d DEF StartRun, NoLoop
  <2>. QED
    BY <1>d, <2>1, <2>2, QuietKeeps DEF Taken
<1>1. ASSUME NEW q \in Queues, Enqueue(q) PROVE MessageInv'
  <2>. SUFFICES ASSUME NEW r \in Queues PROVE QueueOK(queue'[r], Taken(r), delivered[r], dropped[r], sent'[r])
    BY <1>1 DEF MessageInv, Enqueue, Taken
  <2>1. CASE r = q
    BY <1>1, <1>a, <2>1, QueueGrows DEF Enqueue, MessageInv, TypeOK
  <2>2. CASE r # q
    BY <1>1, <2>2 DEF Enqueue, MessageInv, TypeOK
  <2>. QED
    BY <2>1, <2>2
<1>2. ASSUME ClearQueue PROVE MessageInv'
  <2>. SUFFICES ASSUME NEW r \in Queues
                PROVE  QueueOK(<<>>, Taken(r), delivered[r], dropped[r] \cup Elements(queue[r]), sent[r])
    BY <1>2 DEF MessageInv, ClearQueue, Taken
  <2>. QED
    BY QueueDrops DEF MessageInv
<1>3. ASSUME NEW p \in Prompts,
             Preflight(p) \/ PreflightFails(p) \/ AbortRetry(p) \/ PrepareRetry(p) \/ NoRetry(p)
               \/ BackoffEnds(p) \/ CheckQueued(p) \/ ContinueRefused(p) \/ Settle(p)
      PROVE  MessageInv'
  <2>1. UNCHANGED <<messages, loop>>
    BY <1>3, Zenon DEF Preflight, PreflightFails, AbortRetry, PrepareRetry, NoRetry, BackoffEnds, CheckQueued,
                       ContinueRefused, Settle
  <2>. QED
    BY <2>1, QuietKeeps DEF Taken
<1>4. ASSUME NEW p \in Prompts, RunPrompt(p) PROVE MessageInv'
  <2>1. CASE UNCHANGED loop
    BY <1>4, <2>1, QuietKeeps DEF RunPrompt, Taken
  <2>. QED
    BY <1>4, <1>d, <2>1 DEF RunPrompt
<1>5. ASSUME NEW p \in Prompts, Continue(p) PROVE MessageInv'
  <2>1. ASSUME NEW q \in Queues, TakeQueued(p, q) PROVE MessageInv'
    <3>1. loop.pending = <<>>
      BY <1>c, <2>1 DEF TakeQueued, StartRun, SessionOwns
    <3>2. loop'.from = q /\ loop'.pending = Drained(q)
      BY <2>1 DEF TakeQueued, StartRun, NoLoop
    <3>. QED
      BY <1>5, <2>1, <3>1, <3>2, PollKeeps DEF Continue, TakeQueued
  <2>2. CASE StartRun(p, "prompts", "steering", <<>>, "no") /\ UNCHANGED queue
    BY <1>5, <1>d, <2>2 DEF Continue, messages
  <2>. QED
    BY <1>5, <2>1, <2>2 DEF Continue
<1>6. ASSUME Inject PROVE MessageInv'
  <2>. SUFFICES ASSUME NEW r \in Queues PROVE QueueOK(queue[r], Taken(r)', delivered'[r], dropped[r], sent[r])
    BY <1>6 DEF MessageInv, Inject
  <2>1. loop'.from = loop.from /\ loop'.pending = Tail(loop.pending) /\ loop.pending # <<>>
    BY <1>6 DEF Inject, TypeOK, LoopRecords
  <2>2. CASE r = loop.from
    <3>1. delivered'[r] = delivered[r] \cup {Head(loop.pending)}
      BY <1>6, <1>b, <2>2 DEF Inject, TypeOK
    <3>2. Taken(r) = loop.pending /\ Taken(r)' = Tail(loop.pending)
      BY <2>1, <2>2 DEF Taken
    <3>3. loop.pending \in Seq(Nat) /\ queue[r] \in Seq(Nat) /\ sent[r] \in Nat
      BY <1>a, <3>2
    <3>4. QueueOK(queue[r], loop.pending, delivered[r], dropped[r], sent[r])
      BY <3>2 DEF MessageInv
    <3>5. QueueOK(queue[r], Tail(loop.pending), delivered[r] \cup {Head(loop.pending)}, dropped[r], sent[r])
      BY <2>1, <3>3, <3>4, QueueDelivers
    <3>. QED
      BY <3>1, <3>2, <3>5
  <2>3. CASE r # loop.from
    BY <1>6, <1>b, <2>1, <2>3 DEF Inject, TypeOK, MessageInv, Taken
  <2>. QED
    BY <2>2, <2>3
<1>7. ASSUME FirstPoll PROVE MessageInv'
  <2>1. CASE loop.skip = "yes"
    <3>1. loop'.from = loop.from /\ loop'.pending = loop.pending /\ UNCHANGED messages
      BY <1>7, <2>1 DEF FirstPoll, messages, TypeOK, LoopRecords
    <3>. QED
      BY <3>1, QuietKeeps DEF Taken
  <2>2. CASE loop.skip # "yes"
    <3>1. loop'.from = "steering" /\ loop'.pending = Drained("steering")
      BY <1>7, <2>2 DEF FirstPoll, TypeOK, LoopRecords
    <3>2. loop.pending = <<>>
      BY <1>7, <1>c DEF FirstPoll
    <3>. QED
      BY <1>7, <1>b, <2>2, <3>1, <3>2, PollKeeps DEF FirstPoll
  <2>. QED
    BY <2>1, <2>2
<1>8. ASSUME PollSteering PROVE MessageInv'
  <2>1. loop'.from = "steering" /\ loop'.pending = Drained("steering")
    BY <1>8 DEF PollSteering, TypeOK, LoopRecords
  <2>2. loop.pending = <<>>
    BY <1>8, <1>c DEF PollSteering
  <2>. QED
    BY <1>8, <1>b, <2>1, <2>2, PollKeeps DEF PollSteering
<1>9. ASSUME PollFollowUp PROVE MessageInv'
  <2>1. loop'.from = "followUp" /\ loop'.pending = Drained("followUp")
    BY <1>9 DEF PollFollowUp, TypeOK, LoopRecords
  <2>2. loop.pending = <<>>
    BY <1>9, <1>c DEF PollFollowUp
  <2>. QED
    BY <1>9, <1>b, <2>1, <2>2, PollKeeps DEF PollFollowUp
<1>10. ASSUME \/ AddPrompt \/ Injected \/ AnswerStops \/ StopAfterTurn
              \/ \E n \in 0..MaxToolCalls : \E alone \in SUBSET (1..n), truncated \in BOOLEAN : Answer(n, alone, truncated)
              \/ \E terminate \in BOOLEAN : CallsDone(terminate)
       PROVE  MessageInv'
  <2>1. loop'.from = loop.from /\ loop'.pending = loop.pending
    <3>1. \/ \E pc : loop' = [loop EXCEPT !.pc = pc]
          \/ \E pc : loop' = [loop EXCEPT !.pc = pc, !.more = "no", !.steered = 0]
          \/ \E pc, more : loop' = [loop EXCEPT !.pc = pc, !.more = more]
      BY <1>10 DEF AddPrompt, Injected, AnswerStops, StopAfterTurn, Answer, CallsDone
    <3>2. loop \in LoopRecords
      BY DEF TypeOK
    <3>. QED
      BY <3>1, <3>2 DEF LoopRecords
  <2>2. UNCHANGED messages
    BY <1>10 DEF AddPrompt, Injected, AnswerStops, StopAfterTurn, Answer, CallsDone, ToolStep
  <2>. QED
    BY <2>1, <2>2, QuietKeeps DEF Taken
<1>11. ASSUME RunEnds PROVE MessageInv'
  <2>1. loop.pending = <<>> /\ loop'.pending = <<>> /\ UNCHANGED messages
    BY <1>11, <1>c DEF RunEnds, FinishRun, NoLoop
  <2>. QED
    BY <2>1, QuietKeeps DEF Taken
<1>12. ASSUME RunFails PROVE MessageInv'
  <2>. SUFFICES ASSUME NEW r \in Queues PROVE QueueOK(queue[r], <<>>, delivered[r], dropped'[r], sent[r])
    BY <1>12 DEF MessageInv, RunFails, FinishRun, NoLoop, Taken
  <2>1. CASE r = loop.from
    <3>1. dropped'[r] = dropped[r] \cup Elements(Taken(r))
      BY <1>12, <1>b, <2>1 DEF RunFails, TypeOK, Taken
    <3>2. QueueOK(queue[r], Taken(r), delivered[r], dropped[r], sent[r])
      BY DEF MessageInv
    <3>3. QueueOK(queue[r], <<>>, delivered[r], dropped[r] \cup Elements(Taken(r)), sent[r])
      BY <3>2, QueueDrops
    <3>. QED
      BY <3>1, <3>3
  <2>2. CASE r # loop.from
    BY <1>12, <1>b, <2>2 DEF RunFails, TypeOK, MessageInv, Taken
  <2>. QED
    BY <2>1, <2>2
<1>13. ASSUME \/ Abort \/ FailCall \/ PrepareCall \/ BreakCalls \/ ExecuteCalls \/ AddResult
              \/ \E i \in 1..MaxToolCalls : CallEnds(i)
              \/ UNCHANGED vars
       PROVE  MessageInv'
  <2>1. UNCHANGED <<messages, loop>>
    BY <1>13 DEF Abort, FailCall, PrepareCall, BreakCalls, ExecuteCalls, AddResult, CallEnds, ToolStep, vars, messages
  <2>. QED
    BY <2>1, QuietKeeps DEF Taken
<1>. QED
  BY <1>1, <1>2, <1>3, <1>4, <1>5, <1>6, <1>7, <1>8, <1>9, <1>10, <1>11, <1>12, <1>13 DEF Next, SessionStep, LoopStep

\* The first part of LoopTakes.
LEMMA StepHolds == TypeOK /\ SessionOwns /\ HoldsToInject /\ [Next]_vars => HoldsToInject'
<1>. SUFFICES ASSUME TypeOK, SessionOwns, HoldsToInject, [Next]_vars PROVE HoldsToInject'
  OBVIOUS
<1>a. loop \in LoopRecords
  BY DEF TypeOK
<1>1. CASE \/ \E p \in Prompts : RunPrompt(p) \/ Continue(p)
           \/ RunEnds \/ RunFails
  <2>0. \A p, pc, q, taken, skip : StartRun(p, pc, q, taken, skip) => loop'.pc = pc /\ loop'.pending = taken
    BY DEF StartRun, NoLoop
  <2>1. (loop' = loop) \/ (loop'.pc = "prompts") \/ (loop'.pending = <<>>)
    <3>1. ASSUME NEW p \in Prompts, RunPrompt(p) PROVE (loop' = loop) \/ (loop'.pending = <<>>)
      BY <2>0, <3>1 DEF RunPrompt
    <3>2. ASSUME NEW p \in Prompts, Continue(p) PROVE loop'.pc = "prompts"
      BY <2>0, <3>2 DEF Continue, TakeQueued
    <3>3. CASE RunEnds \/ RunFails
      BY <3>3 DEF RunEnds, RunFails, FinishRun, NoLoop
    <3>. QED
      BY <1>1, <3>1, <3>2, <3>3
  <2>. QED
    BY <2>1 DEF HoldsToInject
<1>2. CASE Inject
  <2>1. loop'.pc = loop.pc /\ loop.pc \in {"prompts", "inject"}
    BY <1>2, <1>a DEF Inject, LoopRecords
  <2>. QED
    BY <2>1 DEF HoldsToInject
<1>3. CASE AddPrompt \/ Injected \/ FirstPoll
  BY <1>3, <1>a DEF AddPrompt, Injected, FirstPoll, LoopRecords, HoldsToInject
<1>4. CASE PollSteering \/ PollFollowUp
  <2>1. \A q \in Queues : queue[q] = <<>> => Drained(q) = <<>>
    BY DEF Drained
  <2>. QED
    BY <1>4, <1>a, <2>1 DEF PollSteering, PollFollowUp, LoopRecords, HoldsToInject, Queues
<1>5. CASE \/ AnswerStops \/ StopAfterTurn
           \/ \E n \in 0..MaxToolCalls : \E alone \in SUBSET (1..n), truncated \in BOOLEAN : Answer(n, alone, truncated)
           \/ \E terminate \in BOOLEAN : CallsDone(terminate)
  <2>1. loop'.pending = loop.pending /\ loop.pc \notin {"prompts", "inject"}
    BY <1>5, <1>a DEF AnswerStops, StopAfterTurn, Answer, CallsDone, ToolStep, LoopRecords
  <2>. QED
    BY <2>1 DEF HoldsToInject
<1>6. CASE \/ \E q \in Queues : Enqueue(q)
           \/ ClearQueue \/ Abort \/ FailCall \/ PrepareCall \/ BreakCalls \/ ExecuteCalls \/ AddResult
           \/ \E i \in 1..MaxToolCalls : CallEnds(i)
           \/ UNCHANGED vars
  <2>1. UNCHANGED loop
    BY <1>6 DEF Enqueue, ClearQueue, Abort, FailCall, PrepareCall, BreakCalls, ExecuteCalls, AddResult, CallEnds, ToolStep, vars
  <2>. QED
    BY <2>1 DEF HoldsToInject
<1>7. CASE \E p \in Prompts : Preflight(p) \/ PreflightFails(p) \/ AbortRetry(p) \/ PrepareRetry(p) \/ NoRetry(p)
               \/ BackoffEnds(p) \/ CheckQueued(p) \/ ContinueRefused(p) \/ Settle(p)
  <2>1. UNCHANGED loop
    BY <1>7, Zenon DEF Preflight, PreflightFails, AbortRetry, PrepareRetry, NoRetry, BackoffEnds, CheckQueued,
                       ContinueRefused, Settle
  <2>. QED
    BY <2>1 DEF HoldsToInject
<1>. QED
  BY <1>1, <1>2, <1>3, <1>4, <1>5, <1>6, <1>7 DEF Next, SessionStep, LoopStep

\* The second part, in the mode one-at-a-time.
LEMMA StepCount ==
    ASSUME TypeOK, SessionOwns, HoldsToInject, MessageInv, Mode["steering"] = "one-at-a-time", SteeringCount, [Next]_vars
    PROVE  SteeringCount'
<1>a. loop \in LoopRecords /\ loop.steered \in Nat /\ Taken("steering") \in Seq(Nat) /\ Len(Taken("steering")) \in Nat
  BY DEF TypeOK, LoopRecords, Taken
<1>b. Drained("steering") \in Seq(Nat) /\ Len(Drained("steering")) <= 1 /\ Len(Drained("steering")) \in Nat
      /\ (queue["steering"] = <<>> => Drained("steering") = <<>>)
  <2>1. "steering" \in Queues /\ Sorted(queue["steering"])
    BY DEF Queues, MessageInv, QueueOK
  <2>. QED
    BY <2>1, DrainTypes, DrainSplits
<1>c. Len(<<>>) = 0 /\ <<>> \in Seq(Nat)
  OBVIOUS
<1>1. CASE \E p \in Prompts : RunPrompt(p) \/ Continue(p)
  <2>1. CASE UNCHANGED loop
    BY <2>1 DEF SteeringCount, Taken
  <2>2. ASSUME NEW p \in Prompts, NEW pc \in {"begin", "prompts"}, StartRun(p, pc, "steering", <<>>, "no")
        PROVE  SteeringCount'
    BY <2>2, <1>c DEF StartRun, NoLoop, SteeringCount, Taken
  <2>3. ASSUME NEW p \in Prompts, TakeQueued(p, "steering") PROVE SteeringCount'
    BY <2>3, <1>b, <1>c DEF TakeQueued, StartRun, NoLoop, SteeringCount, Taken
  <2>4. ASSUME NEW p \in Prompts, TakeQueued(p, "followUp") PROVE SteeringCount'
    BY <2>4, <1>c DEF TakeQueued, StartRun, NoLoop, SteeringCount, Taken
  <2>. QED
    BY <1>1, <2>1, <2>2, <2>3, <2>4 DEF RunPrompt, Continue, Queues
<1>2. CASE RunEnds \/ RunFails
  BY <1>2, <1>c DEF RunEnds, RunFails, FinishRun, NoLoop, SteeringCount, Taken
<1>3. CASE Inject
  <2>1. loop'.pc = loop.pc /\ loop'.from = loop.from /\ loop'.skip = loop.skip /\ loop'.pending = Tail(loop.pending)
        /\ loop.pending # <<>> /\ loop.pending \in Seq(Nat)
        /\ loop'.steered = IF loop.from = "steering" THEN loop.steered + 1 ELSE loop.steered
    BY <1>3, <1>a DEF Inject, LoopRecords
  <2>2. loop.pc \in {"prompts", "inject"}
    BY <1>3 DEF Inject
  <2>3. CASE loop.from = "steering"
    <3>1. Taken("steering") = loop.pending /\ Taken("steering")' = Tail(loop.pending)
      BY <2>1, <2>3 DEF Taken
    <3>2. Len(Tail(loop.pending)) = Len(loop.pending) - 1
      BY <2>1
    <3>3. loop.pc = "prompts" => loop.skip # "no"
      BY <2>1, <3>1 DEF SteeringCount
    <3>. QED
      BY <1>a, <2>1, <2>2, <2>3, <3>1, <3>2, <3>3 DEF SteeringCount
  <2>4. CASE loop.from # "steering"
    <3>1. Taken("steering") = <<>> /\ Taken("steering")' = <<>> /\ loop'.steered = loop.steered
      BY <2>1, <2>4 DEF Taken
    <3>. QED
      BY <2>1, <2>2, <3>1 DEF SteeringCount
  <2>. QED
    BY <2>3, <2>4
<1>4. CASE AddPrompt \/ Injected
  <2>1. loop'.from = loop.from /\ loop'.skip = loop.skip /\ loop'.pending = loop.pending /\ loop'.steered = loop.steered
        /\ \/ loop.pc \in {"begin", "prompts"} /\ loop'.pc = "poll"
           \/ loop.pc = "inject" /\ loop'.pc = "stream"
    BY <1>4, <1>a DEF AddPrompt, Injected, LoopRecords
  <2>2. Taken("steering")' = Taken("steering")
    BY <2>1 DEF Taken
  <2>. QED
    BY <2>1, <2>2 DEF SteeringCount
<1>5. CASE FirstPoll
  <2>1. loop'.pc = "inject" /\ loop'.steered = loop.steered
    BY <1>5, <1>a DEF FirstPoll, LoopRecords
  <2>2. CASE loop.skip = "yes"
    <3>1. Taken("steering")' = Taken("steering")
      BY <1>5, <1>a, <2>2 DEF FirstPoll, LoopRecords, Taken
    <3>. QED
      BY <2>1, <3>1 DEF SteeringCount
  <2>3. CASE loop.skip # "yes"
    <3>1. Taken("steering")' = Drained("steering")
      BY <1>5, <1>a, <2>3 DEF FirstPoll, LoopRecords, Taken
    <3>2. loop.steered = 0
      BY <1>5, <1>a, <2>3 DEF FirstPoll, LoopRecords, SteeringCount
    <3>. QED
      BY <1>b, <2>1, <3>1, <3>2 DEF SteeringCount
  <2>. QED
    BY <2>2, <2>3
<1>6. CASE PollSteering
  <2>1. loop'.pc \in {"inject", "followUp"} /\ loop'.steered = loop.steered /\ Taken("steering")' = Drained("steering")
    BY <1>6, <1>a DEF PollSteering, LoopRecords, Taken
  <2>2. loop.steered = 0
    BY <1>6 DEF PollSteering, SteeringCount
  <2>. QED
    BY <1>b, <2>1, <2>2 DEF SteeringCount
<1>7. CASE PollFollowUp
  <2>1. loop'.pc \in {"inject", "agentEnd"} /\ loop'.steered = loop.steered /\ Taken("steering")' = <<>>
    BY <1>7, <1>a DEF PollFollowUp, LoopRecords, Taken
  <2>2. loop.steered = 0
    BY <1>7 DEF PollFollowUp, SteeringCount
  <2>. QED
    BY <1>c, <2>1, <2>2 DEF SteeringCount
<1>8. ASSUME NEW n \in 0..MaxToolCalls, NEW alone \in SUBSET (1..n), NEW truncated \in BOOLEAN,
             Answer(n, alone, truncated)
      PROVE  SteeringCount'
  <2>1. loop'.pc \in {"turnEnd", "tools"} /\ loop'.steered = 0 /\ Taken("steering")' = Taken("steering")
    BY <1>8, <1>a DEF Answer, LoopRecords, Taken
  <2>. QED
    BY <1>a, <2>1 DEF SteeringCount
<1>9. CASE AnswerStops \/ StopAfterTurn \/ \E terminate \in BOOLEAN : CallsDone(terminate)
  <2>1. loop'.steered = loop.steered /\ Taken("steering")' = Taken("steering")
        /\ (loop'.pc = "agentEnd" \/ (loop.pc = "tools" /\ loop'.pc = "turnEnd"))
    BY <1>9, <1>a DEF AnswerStops, StopAfterTurn, CallsDone, ToolStep, LoopRecords, Taken
  <2>. QED
    BY <2>1 DEF SteeringCount
<1>10. CASE \/ \E q \in Queues : Enqueue(q)
            \/ ClearQueue \/ Abort \/ FailCall \/ PrepareCall \/ BreakCalls \/ ExecuteCalls \/ AddResult
            \/ \E i \in 1..MaxToolCalls : CallEnds(i)
            \/ UNCHANGED vars
  <2>1. UNCHANGED loop
    BY <1>10 DEF Enqueue, ClearQueue, Abort, FailCall, PrepareCall, BreakCalls, ExecuteCalls, AddResult, CallEnds, ToolStep, vars
  <2>. QED
    BY <2>1 DEF SteeringCount, Taken
<1>11. CASE \E p \in Prompts : Preflight(p) \/ PreflightFails(p) \/ AbortRetry(p) \/ PrepareRetry(p) \/ NoRetry(p)
               \/ BackoffEnds(p) \/ CheckQueued(p) \/ ContinueRefused(p) \/ Settle(p)
  <2>1. UNCHANGED loop
    BY <1>11, Zenon DEF Preflight, PreflightFails, AbortRetry, PrepareRetry, NoRetry, BackoffEnds, CheckQueued,
                        ContinueRefused, Settle
  <2>. QED
    BY <2>1 DEF SteeringCount, Taken
<1>. QED
  BY <1>1, <1>2, <1>3, <1>4, <1>5, <1>6, <1>7, <1>8, <1>9, <1>10, <1>11 DEF Next, SessionStep, LoopStep

----------------------------------------------------------------------------
\* Where every message is, and what the loop holds at each of its steps.
THEOREM MessageInvariant == Spec => [](MessageInv /\ LoopTakes)
<1>1. TypeOK /\ SessionOwns /\ MessageInv /\ LoopTakes /\ [Next]_vars => (MessageInv /\ LoopTakes)'
  <2>. SUFFICES ASSUME TypeOK, SessionOwns, MessageInv, LoopTakes, [Next]_vars PROVE MessageInv' /\ LoopTakes'
    OBVIOUS
  <2>1. MessageInv'
    BY StepMessages
  <2>2. HoldsToInject /\ HoldsToInject'
    BY StepHolds DEF LoopTakes
  <2>3. Mode["steering"] = "one-at-a-time" => SteeringCount'
    BY <2>2, StepCount DEF LoopTakes
  <2>. QED
    BY <2>1, <2>2, <2>3 DEF LoopTakes
<1>. QED
  BY <1>1, InitMessages, AgentTypeCorrect, AgentOwnership, PTL DEF Spec

\* Messages of a queue reach the transcript in their order, whoever takes them.
THEOREM MessagesInOrder == Spec => []InOrder
<1>1. MessageInv => InOrder
  <2>. SUFFICES ASSUME MessageInv, NEW q \in Queues
                PROVE  /\ Sorted(queue[q])
                       /\ (loop.from = q) => Sorted(loop.pending)
                       /\ Below(delivered[q], Pending(q) \cup Queued(q))
                       /\ Below(Pending(q), Queued(q))
    BY DEF InOrder, Sorted, Below
  <2>1. Pending(q) = Elements(Taken(q))
    BY ShortSequences DEF Pending, Taken
  <2>. QED
    BY <2>1 DEF MessageInv, QueueOK, Queued, Taken
<1>. QED
  BY <1>1, MessageInvariant, PTL

\* A message is queued, taken, delivered or dropped.
THEOREM NoMessageLost == Spec => []NothingLost
<1>1. MessageInv => NothingLost
  <2>. SUFFICES ASSUME MessageInv, NEW q \in Queues
                PROVE  1..sent[q] = Queued(q) \cup Pending(q) \cup delivered[q] \cup dropped[q]
    BY DEF NothingLost
  <2>1. Pending(q) = Elements(Taken(q))
    BY ShortSequences DEF Pending, Taken
  <2>. QED
    BY <2>1 DEF MessageInv, QueueOK, Queued
<1>. QED
  BY <1>1, MessageInvariant, PTL

\* In the mode one-at-a-time a run adds at most one steering message before an answer.
THEOREM OneSteeringPerRequest == Spec => []OneSteeringMessage
<1>1. TypeOK /\ LoopTakes => OneSteeringMessage
  <2>. SUFFICES ASSUME TypeOK, LoopTakes, Mode["steering"] = "one-at-a-time" PROVE loop.steered <= 1
    BY DEF OneSteeringMessage
  <2>1. loop.steered \in Nat /\ Len(Taken("steering")) \in Nat
    BY DEF TypeOK, LoopRecords, Taken
  <2>. QED
    BY <2>1 DEF LoopTakes, SteeringCount
<1>. QED
  BY <1>1, MessageInvariant, AgentTypeCorrect, PTL

----------------------------------------------------------------------------
(***************************************************************************)
(* Progress: what AbortEnds rests on.                                      *)
(***************************************************************************)
\* The calls of a batch are calls of the answer, and no more results than calls are due.
Numbered ==
    loop.pc = "tools" =>
        /\ tools.size <= MaxToolCalls /\ tools.next >= 1
        /\ tools.prepared \cup tools.running \subseteq 1..tools.size
        /\ Len(tools.results) <= tools.upto

\* Only a run can be aborted, and the signal goes with it.
SignalOfRun == activeRun = None => ~aborted

\* The fields of a batch, for the provers.
BatchFields(b) ==
    /\ b.results \in Seq(Nat) /\ b.next \in Nat /\ b.upto \in Nat /\ b.size \in Nat
    /\ b.prepared \in SUBSET Nat /\ b.running \in SUBSET Nat /\ Len(b.results) \in Nat
    /\ b = [kind |-> b.kind, size |-> b.size, alone |-> b.alone, upto |-> b.upto, next |-> b.next,
            prepared |-> b.prepared, running |-> b.running, results |-> b.results, cut |-> b.cut]

\* The fields of the current batch have their types.
LEMMA CurrentBatch ==
    ASSUME TypeOK
    PROVE  BatchFields(tools)
<1>1. /\ tools.results \in Seq(Nat) /\ tools.next \in Nat /\ tools.upto \in Nat /\ tools.size \in Nat
      /\ tools.prepared \in SUBSET Nat /\ tools.running \in SUBSET Nat
      /\ tools = [kind |-> tools.kind, size |-> tools.size, alone |-> tools.alone, upto |-> tools.upto,
                  next |-> tools.next, prepared |-> tools.prepared, running |-> tools.running,
                  results |-> tools.results, cut |-> tools.cut]
  BY DEF TypeOK, ToolBatches
<1>. QED
  BY <1>1 DEF BatchFields

\* What each step of a batch does to it.
LEMMA BatchMoves ==
    ASSUME TypeOK, BatchInv, Numbered, loop.pc = "tools",
           FailCall \/ PrepareCall \/ BreakCalls \/ ExecuteCalls \/ AddResult \/ \E i \in 1..MaxToolCalls : CallEnds(i)
    PROVE  /\ loop' = loop /\ aborted' = aborted
           /\ Numbered'
           /\ BatchNearer /\ (aborted => tools'.prepared \subseteq tools.prepared)
<1>1. UNCHANGED <<loop, aborted>>
  BY DEF FailCall, PrepareCall, BreakCalls, ExecuteCalls, AddResult, CallEnds, ToolStep
<1>2. BatchFields(tools) /\ MaxToolCalls \in Nat
  BY CurrentBatch, AgentConstants
<1>3. Progress(tools)
  BY DEF BatchInv
<1>. USE <1>2, <1>3 DEF BatchFields, Progress, Numbered, BatchNearer, NotBegun
<1>s. SUFFICES /\ tools'.size <= MaxToolCalls /\ tools'.next >= 1
               /\ tools'.prepared \cup tools'.running \subseteq 1..tools'.size
               /\ Len(tools'.results) <= tools'.upto
               /\ BatchNearer /\ (aborted => tools'.prepared \subseteq tools.prepared)
  BY <1>1
<1>4. CASE FailCall
  <2>1. tools.next <= tools.upto /\ (tools.kind = "sequential" => tools.running = {})
    BY <1>4 DEF FailCall, MayBegin
  <2>2. PICK r : /\ tools' = [tools EXCEPT !.next = tools.next + 1, !.results = r]
                 /\ r = IF tools.kind = "parallel" THEN tools.results ELSE Append(tools.results, tools.next)
    BY <1>4 DEF FailCall, ResultAdded
  <2>3. Len(r) <= tools.upto
    <3>1. CASE tools.kind = "parallel"
      BY <2>2, <3>1
    <3>2. CASE tools.kind # "parallel"
      <4>1. tools.running = {} /\ Len(tools.results) = tools.next - 1
        BY <2>1, <3>2 DEF OneByOne
      <4>2. Len(r) = Len(tools.results) + 1
        BY <2>2, <3>2
      <4>. QED
        BY <2>1, <4>1, <4>2
    <3>. QED
      BY <3>1, <3>2
  <2>4. /\ tools'.size = tools.size /\ tools'.upto = tools.upto /\ tools'.next = tools.next + 1
        /\ tools'.prepared = tools.prepared /\ tools'.running = tools.running /\ tools'.results = r
    BY <2>2
  <2>. QED
    BY <2>1, <2>3, <2>4
<1>5. CASE PrepareCall
  <2>1. tools.next <= tools.upto /\ ~aborted
    BY <1>5 DEF PrepareCall, MayBegin
  <2>2. \/ tools' = [tools EXCEPT !.next = tools.next + 1, !.running = {tools.next}]
        \/ tools' = [tools EXCEPT !.next = tools.next + 1, !.prepared = tools.prepared \cup {tools.next}]
    BY <1>5 DEF PrepareCall
  <2>3. tools.next \in 1..tools.size
    BY <2>1
  <2>4. /\ tools'.size = tools.size /\ tools'.upto = tools.upto /\ tools'.next = tools.next + 1
        /\ tools'.results = tools.results
        /\ tools'.prepared \cup tools'.running \subseteq tools.prepared \cup tools.running \cup {tools.next}
    BY <2>2
  <2>. QED
    BY <2>1, <2>3, <2>4
<1>6. CASE BreakCalls
  <2>1. /\ tools.next <= tools.upto /\ tools.next > 1 /\ tools.kind # "truncated"
        /\ tools.kind = "sequential" => tools.running = {}
        /\ tools' = [tools EXCEPT !.upto = tools.next - 1]
    BY <1>6 DEF BreakCalls, MayBegin
  <2>2. Len(tools.results) <= tools.next - 1
    BY <2>1 DEF OneByOne, Together
  <2>. QED
    BY <2>1, <2>2
<1>7. CASE ExecuteCalls
  <2>1. /\ tools.prepared # {}
        /\ tools' = [tools EXCEPT !.running = tools.prepared, !.prepared = {}]
    BY <1>7 DEF ExecuteCalls
  <2>. QED
    BY <2>1
<1>8. CASE AddResult
  <2>1. /\ Len(tools.results) < tools.upto
        /\ tools' = [tools EXCEPT !.results = Append(tools.results, Len(tools.results) + 1)]
    BY <1>8 DEF AddResult
  <2>2. Len(Append(tools.results, Len(tools.results) + 1)) = Len(tools.results) + 1
    OBVIOUS
  <2>. QED
    BY <2>1, <2>2
<1>9. CASE \E i \in 1..MaxToolCalls : CallEnds(i)
  <2>1. PICK i \in 1..MaxToolCalls : CallEnds(i)
    BY <1>9
  <2>2. PICK r : /\ tools' = [tools EXCEPT !.running = tools.running \ {i}, !.results = r]
                 /\ r = IF tools.kind = "parallel" THEN tools.results ELSE Append(tools.results, i)
    BY <2>1 DEF CallEnds, ResultAdded
  <2>3. i \in tools.running
    BY <2>1 DEF CallEnds
  <2>4. Len(r) <= tools.upto
    <3>1. CASE tools.kind = "parallel"
      BY <2>2, <3>1
    <3>2. CASE tools.kind # "parallel"
      <4>1. Len(tools.results) = tools.next - 2
        BY <2>3, <3>2 DEF OneByOne
      <4>2. Len(r) = Len(tools.results) + 1
        BY <2>2, <3>2
      <4>. QED
        BY <4>1, <4>2
    <3>. QED
      BY <3>1, <3>2
  <2>5. /\ tools'.size = tools.size /\ tools'.upto = tools.upto /\ tools'.next = tools.next
        /\ tools'.prepared = tools.prepared /\ tools'.running = tools.running \ {i} /\ tools'.results = r
    BY <2>2
  <2>. QED
    BY <2>3, <2>4, <2>5
<1>. QED
  BY <1>4, <1>5, <1>6, <1>7, <1>8, <1>9

\* Steps of the calls of a batch.
CallStep ==
    \/ FailCall \/ PrepareCall \/ BreakCalls \/ ExecuteCalls \/ AddResult
    \/ \E i \in 1..MaxToolCalls : CallEnds(i)

\* Steps of the loop between requests and batches, other than answers.
BetweenStep == AddPrompt \/ Inject \/ Injected \/ FirstPoll \/ AnswerStops \/ PollSteering \/ StopAfterTurn \/ PollFollowUp

\* A step of the system by what it does to the run: nothing, beginning it, ending it, or a
\* step of the loop.
LEMMA RunSteps ==
    ASSUME TypeOK, [Next]_vars
    PROVE  \/ UNCHANGED <<loop, tools, activeRun>> /\ (aborted' => aborted \/ activeRun # None)
           \/ activeRun = None /\ loop'.pc \in {"begin", "prompts"} /\ UNCHANGED <<aborted, tools>>
           \/ ~aborted' /\ loop'.pc = "none"
           \/ BetweenStep \/ CallStep
           \/ \E n \in 0..MaxToolCalls : \E alone \in SUBSET (1..n), truncated \in BOOLEAN : Answer(n, alone, truncated)
           \/ \E terminate \in BOOLEAN : CallsDone(terminate)
<1>1. CASE \/ \E q \in Queues : Enqueue(q)
           \/ ClearQueue \/ Abort \/ UNCHANGED vars
           \/ \E p \in Prompts : \/ Preflight(p) \/ PreflightFails(p) \/ AbortRetry(p) \/ PrepareRetry(p)
                                 \/ NoRetry(p) \/ BackoffEnds(p) \/ CheckQueued(p) \/ ContinueRefused(p)
                                 \/ Settle(p)
  <2>1. UNCHANGED <<loop, tools, activeRun>> /\ (aborted' => aborted \/ activeRun # None)
    BY <1>1 DEF Enqueue, ClearQueue, Abort, vars, Preflight, PreflightFails, AbortRetry, PrepareRetry, NoRetry,
                BackoffEnds, CheckQueued, ContinueRefused, Settle
  <2>. QED
    BY <2>1
<1>2. CASE \E p \in Prompts : RunPrompt(p) \/ Continue(p)
  <2>1. PICK p \in Prompts : RunPrompt(p) \/ Continue(p)
    BY <1>2
  <2>2. CASE UNCHANGED <<activeRun, aborted, loop, tools>>
    BY <2>2
  <2>3. ASSUME NEW pc \in {"begin", "prompts"}, NEW q, NEW taken, NEW skip, StartRun(p, pc, q, taken, skip)
        PROVE  activeRun = None /\ loop'.pc \in {"begin", "prompts"} /\ UNCHANGED <<aborted, tools>>
    BY <2>3 DEF StartRun, NoLoop
  <2>. QED
    BY <2>1, <2>2, <2>3 DEF RunPrompt, Continue, TakeQueued
<1>3. CASE RunEnds \/ RunFails
  <2>1. ~aborted' /\ loop'.pc = "none"
    BY <1>3 DEF RunEnds, RunFails, FinishRun, NoLoop
  <2>. QED
    BY <2>1
<1>. QED
  BY <1>1, <1>2, <1>3 DEF Next, SessionStep, LoopStep, BetweenStep, CallStep

\* Steps between requests keep the batch, and begin none.
LEMMA BetweenMoves ==
    ASSUME TypeOK, BetweenStep
    PROVE  UNCHANGED <<activeRun, aborted, tools>> /\ loop.pc # "tools" /\ loop'.pc # "tools"
<1>1. UNCHANGED <<activeRun, aborted, tools>>
  BY DEF BetweenStep, AddPrompt, Inject, Injected, FirstPoll, AnswerStops, PollSteering, StopAfterTurn, PollFollowUp
<1>2. loop.pc # "tools" /\ loop'.pc # "tools"
  BY DEF BetweenStep, AddPrompt, Inject, Injected, FirstPoll, AnswerStops, PollSteering, StopAfterTurn, PollFollowUp, TypeOK,
         LoopRecords
<1>. QED
  BY <1>1, <1>2

\* The batch stays numbered, and the signal stays with the run.
LEMMA StepNumbered ==
    TypeOK /\ SessionOwns /\ BatchInv /\ Numbered /\ SignalOfRun /\ [Next]_vars => Numbered' /\ SignalOfRun'
<1>. SUFFICES ASSUME TypeOK, SessionOwns, BatchInv, Numbered, SignalOfRun, [Next]_vars
              PROVE  Numbered' /\ SignalOfRun'
  OBVIOUS
<1>1. CASE UNCHANGED <<loop, tools, activeRun>> /\ (aborted' => aborted \/ activeRun # None)
  BY <1>1 DEF Numbered, SignalOfRun
<1>2. CASE activeRun = None /\ loop'.pc \in {"begin", "prompts"} /\ UNCHANGED <<aborted, tools>>
  BY <1>2 DEF Numbered, SignalOfRun
<1>3. CASE ~aborted' /\ loop'.pc = "none"
  BY <1>3 DEF Numbered, SignalOfRun
<1>4. CASE BetweenStep
  BY <1>4, BetweenMoves DEF Numbered, SignalOfRun
<1>5. CASE CallStep
  <2>1. loop.pc = "tools" /\ UNCHANGED <<activeRun, aborted>>
    BY <1>5 DEF CallStep, FailCall, PrepareCall, BreakCalls, ExecuteCalls, AddResult, CallEnds, ToolStep
  <2>2. Numbered'
    BY <1>5, <2>1, BatchMoves DEF CallStep
  <2>. QED
    BY <2>1, <2>2 DEF SignalOfRun
<1>6. ASSUME NEW n \in 0..MaxToolCalls, NEW alone \in SUBSET (1..n), NEW truncated \in BOOLEAN,
             Answer(n, alone, truncated)
      PROVE  Numbered' /\ SignalOfRun'
  <2>1. n \in Nat /\ n <= MaxToolCalls
    BY AgentConstants
  <2>2. PICK k : tools' = [NoTools EXCEPT !.kind = k, !.size = n, !.upto = n, !.alone = alone]
    BY <1>6 DEF Answer
  <2>3. /\ tools'.size = n /\ tools'.upto = n /\ tools'.next = 1 /\ tools'.prepared = {} /\ tools'.running = {}
        /\ Len(tools'.results) = 0
    BY <2>2 DEF NoTools
  <2>4. ~aborted /\ ~aborted'
    BY <1>6 DEF Answer
  <2>. QED
    BY <2>1, <2>3, <2>4 DEF Numbered, SignalOfRun
<1>7. ASSUME NEW terminate \in BOOLEAN, CallsDone(terminate) PROVE Numbered' /\ SignalOfRun'
  <2>1. loop'.pc = "turnEnd" /\ UNCHANGED <<activeRun, aborted>>
    BY <1>7 DEF CallsDone, ToolStep, TypeOK, LoopRecords
  <2>. QED
    BY <2>1 DEF Numbered, SignalOfRun
<1>. QED
  BY <1>1, <1>2, <1>3, <1>4, <1>5, <1>6, <1>7, RunSteps

\* The calls of a batch are numbered, and only a run is aborted.
THEOREM NumberedInvariant == Spec => [](Numbered /\ SignalOfRun)
<1>1. Init => Numbered /\ SignalOfRun
  BY DEF Init, NoLoop, Numbered, SignalOfRun
<1>. QED
  BY <1>1, StepNumbered, AgentOwnership, BatchInvariant, PTL DEF Spec

\* A batch of tool calls always has a call that can begin, run or end, or a result to add, or
\* it is complete: executeToolCalls never waits for a tool that does not run.
THEOREM BatchNeverStuck == Spec => []BatchGoesOn
<1>1. TypeOK /\ BatchInv /\ Numbered => BatchGoesOn
  <2>. SUFFICES ASSUME TypeOK, BatchInv, Numbered, loop.pc = "tools", ~MayBegin,
                       tools.running \cap (1..MaxToolCalls) = {}, Len(tools.results) # tools.upto
                PROVE  /\ tools.next > tools.upto
                       /\ tools.prepared # {} \/ (tools.running = {} /\ Len(tools.results) < tools.upto)
    BY DEF BatchGoesOn
  <2>1. BatchFields(tools) /\ MaxToolCalls \in Nat
    BY CurrentBatch, AgentConstants
  <2>2. tools.running = {}
    <3>1. tools.running \subseteq 1..MaxToolCalls
      BY <2>1 DEF Numbered, BatchFields
    <3>. QED
      BY <3>1
  <2>3. tools.next > tools.upto
    BY <2>1, <2>2 DEF MayBegin, BatchFields
  <2>4. Len(tools.results) < tools.upto
    BY <2>1 DEF Numbered, BatchFields
  <2>. QED
    BY <2>2, <2>3, <2>4
<1>. QED
  BY <1>1, AgentTypeCorrect, BatchInvariant, NumberedInvariant, PTL

\* An aborted run winds down: each of its steps lowers its rank, settles a message it had
\* taken, or leads a tool call to its result, and it prepares no tool call.
THEOREM AbortedRunsWindDown == Spec => AbortWindsDown
<1>. DEFINE Down == \/ UNCHANGED <<loop, tools>>
                    \/ RunRank[loop'.pc] < RunRank[loop.pc]
                    \/ /\ loop'.pc = loop.pc /\ tools' = tools
                       /\ Len(loop'.pending) < Len(loop.pending)
                    \/ /\ loop' = loop /\ loop.pc = "tools"
                       /\ tools'.prepared \subseteq tools.prepared
                       /\ BatchNearer
<1>1. ASSUME TypeOK, SessionOwns, BatchInv, Numbered, SignalOfRun, [Next]_vars, aborted, aborted'
      PROVE  Down
  <2>a. loop \in LoopRecords
    BY <1>1 DEF TypeOK
  <2>1. CASE UNCHANGED <<loop, tools, activeRun>>
    BY <2>1
  <2>2. CASE activeRun = None
    BY <1>1, <2>2 DEF SignalOfRun
  <2>3. CASE Inject
    <3>1. /\ loop'.pc = loop.pc /\ tools' = tools
          /\ loop'.pending = Tail(loop.pending) /\ loop.pending # <<>> /\ loop.pending \in Seq(Nat)
      BY <2>3, <2>a DEF Inject, LoopRecords
    <3>2. Len(loop'.pending) < Len(loop.pending)
      BY <3>1
    <3>. QED
      BY <3>1, <3>2
  <2>4. CASE AddPrompt \/ Injected \/ FirstPoll \/ AnswerStops \/ PollSteering \/ StopAfterTurn \/ PollFollowUp
    <3>1. \/ loop.pc \in {"begin", "prompts"} /\ loop'.pc = "poll"
          \/ loop.pc = "inject" /\ loop'.pc = "stream"
          \/ loop.pc = "poll" /\ loop'.pc = "inject"
          \/ loop.pc = "stream" /\ loop'.pc = "agentEnd"
          \/ loop.pc = "turnEnd" /\ loop'.pc \in {"inject", "followUp", "agentEnd"}
          \/ loop.pc = "followUp" /\ loop'.pc \in {"inject", "agentEnd"}
      BY <2>4, <2>a DEF AddPrompt, Injected, FirstPoll, AnswerStops, PollSteering, StopAfterTurn, PollFollowUp, LoopRecords
    <3>2. RunRank[loop'.pc] < RunRank[loop.pc]
      BY <3>1 DEF RunRank
    <3>. QED
      BY <3>2
  <2>5. CASE CallStep
    <3>1. loop.pc = "tools"
      BY <2>5 DEF CallStep, FailCall, PrepareCall, BreakCalls, ExecuteCalls, AddResult, CallEnds, ToolStep
    <3>2. loop' = loop /\ tools'.prepared \subseteq tools.prepared /\ BatchNearer
      BY <1>1, <2>5, <3>1, BatchMoves DEF CallStep
    <3>. QED
      BY <3>1, <3>2
  <2>6. ASSUME NEW n, NEW alone, NEW truncated, Answer(n, alone, truncated) PROVE FALSE
    BY <1>1, <2>6 DEF Answer
  <2>7. ASSUME NEW terminate, CallsDone(terminate) PROVE Down
    <3>1. loop.pc = "tools" /\ loop'.pc = "turnEnd"
      BY <2>7, <2>a DEF CallsDone, ToolStep, LoopRecords
    <3>2. RunRank[loop'.pc] < RunRank[loop.pc]
      BY <3>1 DEF RunRank
    <3>. QED
      BY <3>2
  <2>. HIDE DEF Down
  <2>. QED
    BY <1>1, <2>1, <2>2, <2>3, <2>4, <2>5, <2>6, <2>7, RunSteps DEF BetweenStep
<1>2. TypeOK /\ SessionOwns /\ BatchInv /\ Numbered /\ SignalOfRun /\ [Next]_vars
        => [aborted /\ aborted' => Down]_vars
  BY <1>1
<1>. QED
  BY <1>2, AgentOwnership, BatchInvariant, NumberedInvariant, PTL DEF Spec, AbortWindsDown

----------------------------------------------------------------------------
(***************************************************************************)
(* Progress: what SteeringIsTaken rests on.                                *)
(***************************************************************************)
\* If the flag is set a prompt call works.
Flagged == isAgentRunActive => \E p \in Prompts : Working(p)

\* A step of the system by which prompt calls work after it.
LEMMA WorkSteps ==
    ASSUME TypeOK, SessionOwns, [Next]_vars
    PROVE  \/ (\A q \in Prompts : Working(q)' <=> Working(q)) /\ UNCHANGED isAgentRunActive
           \/ \E p \in Prompts : Working(p)'
           \/ ~isAgentRunActive'
<1>. DEFINE Same == \A q \in Prompts : Working(q)' <=> Working(q)
<1>1. CASE \/ \E q \in Queues : Enqueue(q)
           \/ ClearQueue \/ Abort \/ UNCHANGED vars \/ BetweenStep \/ CallStep
           \/ \E n \in 0..MaxToolCalls : \E alone \in SUBSET (1..n), truncated \in BOOLEAN : Answer(n, alone, truncated)
           \/ \E terminate \in BOOLEAN : CallsDone(terminate)
  <2>1. UNCHANGED <<isAgentRunActive, prompt>>
    BY <1>1 DEF Enqueue, ClearQueue, Abort, vars, BetweenStep, AddPrompt, Inject, Injected, FirstPoll, AnswerStops, PollSteering,
                StopAfterTurn, PollFollowUp, CallStep, FailCall, PrepareCall, BreakCalls, ExecuteCalls, AddResult,
                CallEnds, Answer, CallsDone, ToolStep, session
  <2>. QED
    BY <2>1 DEF Working
<1>2. ASSUME NEW p \in Prompts,
             Preflight(p) \/ PreflightFails(p) \/ AbortRetry(p) \/ PrepareRetry(p) \/ NoRetry(p)
               \/ BackoffEnds(p) \/ CheckQueued(p) \/ ContinueRefused(p) \/ Continue(p)
      PROVE  Same /\ UNCHANGED isAgentRunActive
  <2>1. PICK from, to :
          /\ Goes(p, from, to)
          /\ \/ from \in {"new", "preflight"} /\ to \in {"preflight", "done"}
             \/ /\ from \in {"post", "backoff", "check", "continue"}
                /\ to \in {"running", "backoff", "check", "continue", "settle"}
    BY <1>2 DEF Preflight, PreflightFails, AbortRetry, PrepareRetry, NoRetry, BackoffEnds, CheckQueued,
                ContinueRefused, Continue
  <2>2. \A q \in Prompts : prompt'[q] = IF q = p THEN to ELSE prompt[q]
    BY <2>1 DEF Goes, TypeOK
  <2>3. Same
    BY <2>1, <2>2 DEF Working, Goes
  <2>4. UNCHANGED isAgentRunActive
    BY <1>2 DEF Preflight, PreflightFails, AbortRetry, PrepareRetry, NoRetry, BackoffEnds, CheckQueued,
                ContinueRefused, Continue
  <2>. QED
    BY <2>3, <2>4
<1>3. ASSUME NEW p \in Prompts, RunPrompt(p)
      PROVE  Working(p)'
  <2>1. \E to \in {"running", "settle"} : Goes(p, "preflight", to)
    BY <1>3 DEF RunPrompt
  <2>. QED
    BY <2>1 DEF Goes, Working, TypeOK
<1>4. ASSUME NEW p \in Prompts, Settle(p) PROVE ~isAgentRunActive'
  BY <1>4 DEF Settle
<1>5. ASSUME RunEnds \/ RunFails
      PROVE  Same /\ UNCHANGED isAgentRunActive
  <2>1. PICK to \in {"post", "settle"} : prompt' = [prompt EXCEPT ![activeRun] = to]
    BY <1>5 DEF RunEnds, RunFails
  <2>2. activeRun \in Prompts /\ prompt[activeRun] = "running"
    <3>1. activeRun # None
      BY <1>5 DEF RunEnds, RunFails, SessionOwns
    <3>. QED
      BY <3>1 DEF SessionOwns, TypeOK
  <2>3. \A q \in Prompts : prompt'[q] = IF q = activeRun THEN to ELSE prompt[q]
    BY <2>1 DEF TypeOK
  <2>4. Same
    BY <2>2, <2>3 DEF Working
  <2>. QED
    BY <1>5, <2>4 DEF RunEnds, RunFails
<1>. QED
  BY <1>1, <1>2, <1>3, <1>4, <1>5 DEF Next, SessionStep, LoopStep, BetweenStep, CallStep

\* The session is active only while a prompt call works, and that call can go on: the flag that
\* makes other prompts wait is never left set.
THEOREM ActiveSessionGoesOn == Spec => []ActiveIsWorkedOn
<1>1. Init => Flagged
  BY DEF Init, Flagged
<1>2. TypeOK /\ SessionOwns /\ Flagged /\ [Next]_vars => Flagged'
  BY WorkSteps DEF Flagged
<1>3. SessionOwns /\ Flagged => ActiveIsWorkedOn
  BY AgentConstants DEF SessionOwns, Flagged, ActiveIsWorkedOn
<1>. QED
  BY <1>1, <1>2, <1>3, AgentOwnership, PTL DEF Spec

\* The stages and the order of the places.
LEMMA StageTable ==
    ASSUME NEW skip, NEW role
    PROVE  /\ StageOf("followUp", skip, role) = 4
           /\ StageOf("inject", skip, role) = 3 /\ StageOf("stream", skip, role) = 3
           /\ StageOf("prompts", skip, role) = IF skip = "yes" THEN 3 ELSE 1
           /\ StageOf("poll", skip, role) = IF skip = "yes" THEN 3 ELSE 1
           /\ StageOf("tools", skip, role) = 2 /\ StageOf("turnEnd", skip, role) = 2
           /\ StageOf("post", skip, role) = IF role = "assistant" THEN 0 ELSE 1
           /\ StageOf("check", skip, role) = IF role \in {"user", "toolResult"} THEN 1 ELSE 0
           /\ StageOf("continue", skip, role) = IF role \in {"user", "toolResult"} THEN 1 ELSE 0
           /\ StageOf("settle", skip, role) = 0
           /\ StageOf("begin", skip, role) = IF skip = "yes" THEN 3 ELSE 1
           /\ StageOf("agentEnd", skip, role) = 1 /\ StageOf("backoff", skip, role) = 1
BY DEF StageOf

LEMMA OrderTable ==
    ASSUME NEW role
    PROVE  /\ OrderOf("agentEnd", role) = 9 /\ OrderOf("backoff", role) = 7
           /\ OrderOf("post", role) = IF role \in Errors THEN 0 ELSE 8
           /\ OrderOf("check", role) = 6 /\ OrderOf("continue", role) = 5
           /\ OrderOf("begin", role) = 4 /\ OrderOf("prompts", role) = 4 /\ OrderOf("poll", role) = 3
           /\ OrderOf("inject", role) = 2 /\ OrderOf("stream", role) = 1
           /\ OrderOf("tools", role) = 2 /\ OrderOf("turnEnd", role) = 1
           /\ OrderOf("settle", role) = 0
BY DEF OrderOf, PlaceOrder

\* A call that changes its place is nearer if the tables say so.
LEMMA PlaceNearer ==
    ASSUME NEW p, NEW a, NEW b, Place(p) = a, Place(p)' = b,
           \/ StageOf(b, loop'.skip, last') < StageOf(a, loop.skip, last)
           \/ StageOf(b, loop'.skip, last') = StageOf(a, loop.skip, last) /\ retryAttempt' > retryAttempt
           \/ /\ StageOf(b, loop'.skip, last') = StageOf(a, loop.skip, last) /\ retryAttempt' = retryAttempt
              /\ OrderOf(b, last') < OrderOf(a, last)
    PROVE  PollNearer(p)
BY DEF PollNearer, SteeringStage, SteeringOrder

\* A drain takes the first message.
LEMMA HeadAdvances ==
    ASSUME TypeOK, MessageInv, queue["steering"] # <<>>, queue'["steering"] # <<>>,
           queue'["steering"] = Remaining("steering")
    PROVE  Head(queue'["steering"]) > Head(queue["steering"])
<1>. DEFINE s == queue["steering"]
<1>1. s \in Seq(Nat) /\ Sorted(s)
  BY DEF TypeOK, MessageInv, QueueOK, Queues
<1>2. queue'["steering"] = Tail(s)
  BY DEF Remaining
<1>3. Below({Head(s)}, Elements(Tail(s))) /\ Tail(s) \in Seq(Nat) /\ Head(s) \in Nat
  BY <1>1, HeadBelowTail
<1>. HIDE DEF s
<1>4. Head(Tail(s)) \in Elements(Tail(s)) /\ Head(Tail(s)) \in Nat
  <2>. DEFINE t == Tail(s)
  <2>1. t \in Seq(Nat) /\ t # <<>>
    BY <1>2, <1>3
  <2>. HIDE DEF t
  <2>2. Head(t) = t[1] /\ 1 \in DOMAIN t /\ t[1] \in Nat
    BY <2>1
  <2>3. Head(t) \in Elements(t) /\ Head(t) \in Nat
    BY <2>2 DEF Elements
  <2>. QED
    BY <2>3 DEF t
<1>. QED
  BY <1>2, <1>3, <1>4 DEF Below, s

\* A step of the loop is one of the call that works.
LEMMA LoopIsAt ==
    ASSUME TypeOK, SessionOwns, ~overlapped, NEW p \in Prompts, Working(p), loop.pc # "none"
    PROVE  activeRun = p /\ prompt[p] = "running" /\ Place(p) = loop.pc
<1>1. activeRun \in Prompts /\ prompt[activeRun] = "running"
  BY DEF SessionOwns, TypeOK
<1>2. activeRun = p
  BY <1>1 DEF SessionOwns, Working
<1>. QED
  BY <1>1, <1>2 DEF Place

\* The steps of the session.
LEMMA SessionNearer ==
    ASSUME TypeOK, SessionOwns, MessageInv, ~overlapped', isAgentRunActive, isAgentRunActive',
           queue["steering"] # <<>>, queue'["steering"] # <<>>,
           NEW p \in Prompts, Working(p), NEW q \in Prompts, SessionStep(q)
    PROVE  Head(queue'["steering"]) > Head(queue["steering"]) \/ PollNearer(p)
<1>1. ~RunPrompt(q) /\ ~Settle(q)
  BY DEF RunPrompt, Settle
<1>2. ~overlapped
  BY <1>1 DEF SessionStep, PrepareRetry, NoRetry, BackoffEnds, CheckQueued, Continue, ContinueRefused
<1>3. Working(q)
  BY <1>1 DEF SessionStep, PrepareRetry, NoRetry, BackoffEnds, CheckQueued, Continue, ContinueRefused, Goes, Working
<1>4. q = p
  BY <1>2, <1>3 DEF SessionOwns
<1>5. retryAttempt \in Nat /\ "steering" \in Queues
  BY AgentConstants DEF TypeOK, Queues
<1>6. \A from, to : Goes(p, from, to) => prompt[p] = from /\ prompt'[p] = to
  BY DEF Goes, TypeOK
<1>7. HasQueuedMessages
  BY <1>5 DEF HasQueuedMessages
<1>8. CASE PrepareRetry(q)
  <2>1. Place(p) = "post" /\ Place(p)' = "backoff" /\ last \in Errors /\ retryAttempt' = retryAttempt + 1
    BY <1>4, <1>6, <1>8 DEF PrepareRetry, Place
  <2>. QED
    BY <1>5, <2>1, StageTable, PlaceNearer DEF Errors
<1>9. CASE NoRetry(q)
  <2>1. Place(p) = "post" /\ Place(p)' = "check" /\ last' = last /\ loop' = loop
    BY <1>4, <1>6, <1>9 DEF NoRetry, Place
  <2>2. last \notin Errors => retryAttempt' = retryAttempt
    BY <1>9 DEF NoRetry
  <2>3. CASE last \in Errors
    BY <2>1, <2>3, StageTable, PlaceNearer DEF Errors
  <2>4. CASE last \notin Errors
    BY <2>1, <2>2, <2>4, StageTable, OrderTable, PlaceNearer
  <2>. QED
    BY <2>3, <2>4
<1>10. CASE BackoffEnds(q)
  <2>1. Place(p) = "backoff" /\ Place(p)' = "continue" /\ last' = last /\ retryAttempt' = retryAttempt
    BY <1>4, <1>6, <1>10 DEF BackoffEnds, Place
  <2>. QED
    BY <2>1, StageTable, OrderTable, PlaceNearer
<1>11. CASE CheckQueued(q)
  <2>1. Place(p) = "check" /\ Place(p)' = "continue" /\ last' = last /\ retryAttempt' = retryAttempt
    BY <1>4, <1>6, <1>7, <1>11 DEF CheckQueued, Place
  <2>. QED
    BY <2>1, StageTable, OrderTable, PlaceNearer
<1>12. CASE Continue(q)
  <2>1. Place(p) = "continue" /\ prompt'[p] = "running" /\ last' = last /\ retryAttempt' = retryAttempt
    BY <1>4, <1>6, <1>12 DEF Continue, Place
  <2>2. CASE \E r \in Queues : /\ r = "followUp" => queue["steering"] = <<>>
                               /\ TakeQueued(p, r)
    <3>1. TakeQueued(p, "steering")
      BY <2>2 DEF Queues
    <3>2. queue'["steering"] = Remaining("steering")
      BY <1>5, <3>1 DEF TakeQueued, TypeOK
    <3>. QED
      BY <3>2, HeadAdvances
  <2>3. CASE last \in {"user", "toolResult"} /\ StartRun(p, "prompts", "steering", <<>>, "no")
    <3>1. loop'.pc = "prompts" /\ loop'.skip = "no"
      BY <2>3 DEF StartRun, NoLoop
    <3>2. Place(p)' = "prompts"
      BY <2>1, <3>1 DEF Place
    <3>. QED
      BY <2>1, <2>3, <3>1, <3>2, StageTable, OrderTable, PlaceNearer
  <2>. QED
    BY <1>4, <1>12, <2>2, <2>3 DEF Continue
<1>13. CASE ContinueRefused(q)
  <2>1. Place(p) = "continue" /\ Place(p)' = "settle" /\ last' = last /\ retryAttempt' = retryAttempt
    BY <1>4, <1>6, <1>13 DEF ContinueRefused, Place
  <2>2. CASE last = "none"
    BY <2>1, <2>2, StageTable, OrderTable, PlaceNearer
  <2>3. CASE activeRun # None
    <3>1. loop.pc # "none"
      BY <2>3 DEF SessionOwns
    <3>. QED
      BY <1>2, <1>4, <1>6, <1>13, <3>1, LoopIsAt DEF ContinueRefused
  <2>. QED
    BY <1>7, <1>13, <2>2, <2>3 DEF ContinueRefused
<1>. QED
  BY <1>1, <1>8, <1>9, <1>10, <1>11, <1>12, <1>13 DEF SessionStep

\* The steps of the loop, and the failure of a run.
LEMMA LoopNearer ==
    ASSUME TypeOK, SessionOwns, MessageInv, BatchInv, Numbered, ~overlapped,
           queue["steering"] # <<>>, queue'["steering"] # <<>>,
           NEW p \in Prompts, Working(p), LoopStep \/ RunFails
    PROVE  Head(queue'["steering"]) > Head(queue["steering"]) \/ PollNearer(p)
<1>1. loop.pc # "none"
  BY DEF LoopStep, RunFails, AddPrompt, Inject, Injected, FirstPoll, AnswerStops, PollSteering, StopAfterTurn, PollFollowUp,
         RunEnds, Answer, FailCall, PrepareCall, BreakCalls, ExecuteCalls, AddResult, CallEnds, CallsDone, ToolStep
<1>2. activeRun = p /\ prompt[p] = "running" /\ Place(p) = loop.pc
  BY <1>1, LoopIsAt
<1>3. loop \in LoopRecords /\ retryAttempt \in Nat /\ "steering" \in Queues /\ loop.pending \in Seq(Nat)
  BY AgentConstants DEF TypeOK, Queues, LoopRecords
<1>4. prompt' = prompt => Place(p)' = loop'.pc
  BY <1>2 DEF Place
<1>5. CASE Inject
  <2>1. /\ loop'.pc = loop.pc /\ loop'.skip = loop.skip /\ loop'.pending = Tail(loop.pending) /\ loop.pending # <<>>
        /\ loop.pc \in {"prompts", "inject"}
        /\ UNCHANGED <<prompt, retryAttempt, tools>>
    BY <1>3, <1>5 DEF Inject, LoopRecords, session
  <2>2. Len(loop'.pending) < Len(loop.pending)
    BY <1>3, <2>1
  <2>3. SteeringStage(p)' = SteeringStage(p) /\ SteeringOrder(p)' = SteeringOrder(p)
    BY <1>2, <1>4, <2>1, StageTable, OrderTable DEF SteeringStage, SteeringOrder
  <2>. QED
    BY <2>1, <2>2, <2>3 DEF PollNearer
<1>6. CASE AddPrompt \/ Injected
  <2>1. /\ loop'.skip = loop.skip /\ UNCHANGED <<prompt, retryAttempt>>
        /\ \/ loop.pc = "begin" /\ loop'.pc = "poll"
           \/ loop.pc = "prompts" /\ loop'.pc = "poll"
           \/ loop.pc = "inject" /\ loop'.pc = "stream"
    BY <1>3, <1>6 DEF AddPrompt, Injected, LoopRecords, session
  <2>. QED
    BY <1>2, <1>4, <2>1, StageTable, OrderTable, PlaceNearer
<1>7. CASE FirstPoll
  <2>1. CASE loop.skip = "yes"
    <3>1. loop.pc = "poll" /\ loop'.pc = "inject" /\ UNCHANGED <<prompt, retryAttempt, last>>
      BY <1>3, <1>7, <2>1 DEF FirstPoll, LoopRecords, session
    <3>. QED
      BY <1>2, <1>4, <2>1, <3>1, StageTable, OrderTable, PlaceNearer
  <2>2. CASE loop.skip # "yes"
    <3>1. queue'["steering"] = Remaining("steering")
      BY <1>3, <1>7, <2>2 DEF FirstPoll, TypeOK
    <3>. QED
      BY <3>1, HeadAdvances
  <2>. QED
    BY <2>1, <2>2
<1>8. CASE PollSteering
  <2>1. queue'["steering"] = Remaining("steering")
    BY <1>3, <1>8 DEF PollSteering, TypeOK
  <2>. QED
    BY <2>1, HeadAdvances
<1>9. CASE AnswerStops \/ StopAfterTurn \/ PollFollowUp
  <2>1. /\ UNCHANGED prompt
        /\ \/ loop.pc \in {"stream", "turnEnd"} /\ loop'.pc = "agentEnd"
           \/ loop.pc = "followUp" /\ loop'.pc \in {"inject", "agentEnd"}
    BY <1>3, <1>9 DEF AnswerStops, StopAfterTurn, PollFollowUp, LoopRecords, session
  <2>. QED
    BY <1>2, <1>4, <2>1, StageTable, PlaceNearer
<1>10. ASSUME NEW n, NEW alone, NEW truncated, Answer(n, alone, truncated) PROVE PollNearer(p)
  <2>1. UNCHANGED prompt /\ loop.pc = "stream" /\ loop'.pc \in {"tools", "turnEnd"}
    BY <1>3, <1>10 DEF Answer, LoopRecords
  <2>. QED
    BY <1>2, <1>4, <2>1, StageTable, PlaceNearer
<1>11. ASSUME NEW terminate, CallsDone(terminate) PROVE PollNearer(p)
  <2>1. UNCHANGED <<prompt, retryAttempt>> /\ loop.pc = "tools" /\ loop'.pc = "turnEnd"
    BY <1>3, <1>11 DEF CallsDone, ToolStep, LoopRecords, session
  <2>. QED
    BY <1>2, <1>4, <2>1, StageTable, OrderTable, PlaceNearer
<1>12. CASE CallStep
  <2>1. loop.pc = "tools" /\ UNCHANGED <<prompt, retryAttempt>>
    BY <1>12 DEF CallStep, FailCall, PrepareCall, BreakCalls, ExecuteCalls, AddResult, CallEnds, ToolStep, session
  <2>2. loop' = loop /\ BatchNearer
    BY <1>12, <2>1, BatchMoves DEF CallStep
  <2>3. SteeringStage(p)' = SteeringStage(p) /\ SteeringOrder(p)' = SteeringOrder(p)
    BY <1>2, <1>4, <2>1, <2>2, StageTable, OrderTable DEF SteeringStage, SteeringOrder
  <2>. QED
    BY <2>1, <2>2, <2>3 DEF PollNearer
<1>13. CASE RunEnds
  <2>1. loop.pc = "agentEnd" /\ prompt'[p] = "post" /\ UNCHANGED <<retryAttempt, last>>
    BY <1>2, <1>13 DEF RunEnds, TypeOK
  <2>2. Place(p)' = "post"
    BY <2>1 DEF Place
  <2>. QED
    BY <1>2, <2>1, <2>2, StageTable, OrderTable, PlaceNearer
<1>14. CASE RunFails
  <2>1. CASE prompt' = [prompt EXCEPT ![activeRun] = "settle"]
    <3>1. Place(p)' = "settle"
      BY <1>2, <2>1 DEF Place, TypeOK
    <3>2. loop.pc \in LoopPCs /\ loop.pc # "none"
      BY <1>1, <1>3 DEF LoopRecords
    <3>. QED
      BY <1>2, <3>1, <3>2, StageTable, PlaceNearer DEF LoopPCs
  <2>2. CASE /\ prompt' = [prompt EXCEPT ![activeRun] = "post"]
             /\ last' = IF aborted THEN "assistant" ELSE ErrorAfter(last)
             /\ retryAttempt' = IF aborted THEN 0 ELSE retryAttempt
    <3>1. Place(p)' = "post"
      BY <1>2, <2>2 DEF Place, TypeOK
    <3>2. loop.pc \in LoopPCs /\ loop.pc # "none"
      BY <1>1, <1>3 DEF LoopRecords
    <3>3. CASE aborted
      BY <1>2, <2>2, <3>1, <3>2, <3>3, StageTable, PlaceNearer DEF LoopPCs
    <3>4. CASE ~aborted
      <4>1. last' \in Errors /\ last' # "assistant" /\ retryAttempt' = retryAttempt
        BY <2>2, <3>4 DEF ErrorAfter, Errors
      <4>. QED
        BY <1>2, <3>1, <3>2, <4>1, StageTable, OrderTable, PlaceNearer DEF LoopPCs
    <3>. QED
      BY <3>3, <3>4
  <2>. QED
    BY <1>14, <2>1, <2>2 DEF RunFails
<1>. QED
  BY <1>5, <1>6, <1>7, <1>8, <1>9, <1>10, <1>11, <1>12, <1>13, <1>14 DEF LoopStep, CallStep

\* While the session works and no prompts overlap, each step of a prompt call takes the first
\* steering message or brings the call nearer to a poll of the queue.
THEOREM SteeringGetsNearer == Spec => SteeringNearer
<1>. DEFINE While == /\ isAgentRunActive /\ isAgentRunActive' /\ ~overlapped'
                     /\ queue["steering"] # <<>> /\ queue'["steering"] # <<>>
                     /\ ~RetriesAborted
            Moves(p) == \/ prompt'[p] = prompt[p] /\ UNCHANGED <<retryAttempt, last, loop, tools>>
                        \/ Head(queue'["steering"]) > Head(queue["steering"])
                        \/ PollNearer(p)
<1>1. ASSUME TypeOK, SessionOwns, MessageInv, BatchInv, Numbered, [Next]_vars, While, NEW p \in Prompts, Working(p)
      PROVE  Moves(p)
  <2>1. CASE (\E q \in Queues : Enqueue(q)) \/ ClearQueue \/ Abort \/ UNCHANGED vars
    BY <2>1 DEF Enqueue, ClearQueue, Abort, vars, session
  <2>2. ASSUME NEW q \in Prompts, Preflight(q) \/ PreflightFails(q) PROVE Moves(p)
    <3>1. UNCHANGED <<retryAttempt, last, loop, tools>> /\ \E to : Goes(q, prompt[q], to) /\ prompt[q] \in {"new", "preflight"}
      BY <2>2 DEF Preflight, PreflightFails, Goes
    <3>2. q # p
      BY <1>1, <3>1 DEF Working
    <3>3. prompt'[p] = prompt[p]
      BY <1>1, <3>1, <3>2 DEF Goes, TypeOK
    <3>. QED
      BY <3>1, <3>3
  <2>3. ASSUME NEW q \in Prompts, AbortRetry(q) PROVE FALSE
    BY <1>1, <2>3 DEF RetriesAborted
  <2>4. ASSUME NEW q \in Prompts, SessionStep(q) PROVE Moves(p)
    BY <1>1, <2>4, SessionNearer
  <2>5. CASE LoopStep \/ RunFails
    <3>1. ~overlapped
      BY <1>1, <2>5 DEF LoopStep, RunFails, AddPrompt, Inject, Injected, FirstPoll, AnswerStops, PollSteering, StopAfterTurn,
                        PollFollowUp, RunEnds, Answer, FailCall, PrepareCall, BreakCalls, ExecuteCalls, AddResult,
                        CallEnds, CallsDone, ToolStep, session
    <3>. QED
      BY <1>1, <2>5, <3>1, LoopNearer
  <2>. HIDE DEF Moves
  <2>. QED
    BY <1>1, <2>1, <2>2, <2>3, <2>4, <2>5 DEF Next
<1>2. TypeOK /\ SessionOwns /\ MessageInv /\ BatchInv /\ Numbered /\ [Next]_vars
        => [While => \A p \in Prompts : Working(p) => Moves(p)]_vars
  BY <1>1
<1>. QED
  BY <1>2, AgentOwnership, MessageInvariant, BatchInvariant, NumberedInvariant, PTL DEF Spec, SteeringNearer

=============================================================================
