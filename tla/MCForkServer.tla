--------------------------- MODULE MCForkServer ---------------------------
(* Constants of ForkServer for TLC. *)
EXTENDS ForkServer

\* The host PAYLOAD_MAX_SIZE was made for, one with a payload buffer that is too
\* large, one of another version, and one that is no Nyx host.
MCHostConfigs ==
  {[magic |-> TRUE,  version |-> TRUE,  size |-> 2],
   [magic |-> TRUE,  version |-> TRUE,  size |-> 3],
   [magic |-> TRUE,  version |-> FALSE, size |-> 2],
   [magic |-> FALSE, version |-> FALSE, size |-> 2]}

============================================================================
