---------------------------- MODULE MCBootChain ----------------------------
(* Constants of BootChain for TLC. *)
EXTENDS BootChain

\* A script with the commands that those of the repository do not use: several
\* files in one hget, a command nobody knows, and the ways to end a run.
MCOwnScript ==
  <<[op |-> "hget", files |-> <<"foo", "enoexist", "dvkm.ko">>], Vmcall("unknown"),
    Vmcall("hpanic"), Vmcall("habort")>>

============================================================================
