--------------------------- MODULE MCTestDriver ---------------------------
(* TestDriver for TLC; its constants are plain values. *)
EXTENDS TestDriver

============================================================================
