---------------------------- MODULE MCAgentLoop ----------------------------
(* Constants of AgentLoop for TLC. *)
EXTENDS AgentLoop

\* Hosts whose buffer is smaller than, as large as and larger than the agent's,
\* and one of another version.
MCHostConfigs ==
  {[magic |-> TRUE, version |-> TRUE,  size |-> 1],
   [magic |-> TRUE, version |-> TRUE,  size |-> 2],
   [magic |-> TRUE, version |-> TRUE,  size |-> 3],
   [magic |-> TRUE, version |-> FALSE, size |-> 2]}

============================================================================
