---------------------------- MODULE MCFileRemoval ----------------------------
(* FileRemoval, and with it FileStore, for TLC. *)
EXTENDS FileRemoval
==============================================================================
