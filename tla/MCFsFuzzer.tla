---------------------------- MODULE MCFsFuzzer ----------------------------
(* Constants of FsFuzzer for TLC. *)
EXTENDS FsFuzzer

\* A host whose payloads fit, one whose payloads do not, and one of another version.
MCHostConfigs ==
  {[magic |-> TRUE, version |-> TRUE,  size |-> 4],
   [magic |-> TRUE, version |-> TRUE,  size |-> 5],
   [magic |-> TRUE, version |-> FALSE, size |-> 4]}

============================================================================
