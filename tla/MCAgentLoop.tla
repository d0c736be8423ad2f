---------------------------- MODULE MCAgentLoop ----------------------------
(* AgentLoop for TLC.  The cfg files choose the bounds and the faults:     *)
(* AgentQueues.cfg many messages and one tool call, AgentTools.cfg several *)
(* batches of tool calls, AgentSettles.cfg the runs without a throwing     *)
(* listener, under fairness.                                               *)
EXTENDS AgentLoop

AnyToolMode == {"parallel", "sequential"}
AnyQueueMode == {"all", "one-at-a-time"}
============================================================================
