------------------------------ MODULE MCAgentRun ------------------------------
(* Constants of AgentRun for TLC, and a bound. *)
EXTENDS AgentRun

SomeMessages == [steering |-> 2, followUp |-> 1]
OneAtATime == [steering |-> "one-at-a-time", followUp |-> "all"]

\* Once prompts have overlapped, an answer has at most one tool call.
SmallBatches == overlapped => tools.size <= 1

=============================================================================
