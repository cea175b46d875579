-------------------------- MODULE MCServerLifecycle --------------------------
(* ServerLifecycle for TLC. *)
EXTENDS ServerLifecycle, TLC

\* Clients are interchangeable (safety runs only).
Symmetry == Permutations(Clients)
==============================================================================
