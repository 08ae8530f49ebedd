---------------------------- MODULE MCAgentLoop -----------------------------
(* Instances of AgentLoop: one tool that reads and one that writes.        *)
EXTENDS AgentLoop, TLC

CONSTANTS r, w

\* A task; and a task after a greeting.
MCConversations ==
  LET task == Msg("user", "task", 1)
  IN  {<<task>>, <<Msg("assistant", "talk", 1), task>>}

\* Three calls, of which two overlap at most, in one turn.
MCMaxCalls == <<2, 3, 2>>
=============================================================================
