-------------------------- MODULE MCFileTransfer --------------------------
(* FileTransfer for TLC; its constants are plain values. *)
EXTENDS FileTransfer

============================================================================
