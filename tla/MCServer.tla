------------------------------- MODULE MCServer -------------------------------
(* Server for TLC. *)
EXTENDS Server, TLC

\* Requests are interchangeable (safety runs only).
Symmetry == Permutations(Requests)
==============================================================================
