---------------------------- MODULE PayloadFile ----------------------------
(***************************************************************************)
(* The file in which an agent hands a payload to its target.  The contents *)
(* of a file are a sequence of blocks, and a block is the number of the    *)
(* payload that it was written for.                                        *)
(***************************************************************************)
EXTENDS Naturals, Sequences

\* The data of a payload.
Blocks(p) == [i \in 1..p.size |-> p.id]

\* A file that holds `old' after `new' has been written at its beginning.
Overwrite(old, new) ==
  [i \in 1..(IF Len(old) > Len(new) THEN Len(old) ELSE Len(new)) |->
     IF i <= Len(new) THEN new[i] ELSE old[i]]

============================================================================
