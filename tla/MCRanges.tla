----------------------------- MODULE MCRanges -----------------------------
(* Constants of Ranges for TLC: four pages of four addresses, and addresses at *)
(* both ends of a page and within it.                                          *)
EXTENDS Ranges

MCAddrs == {0, 1, 3, 4, 7, 8, 11, 12, 14, 15}

============================================================================
