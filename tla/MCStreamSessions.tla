--------------------------- MODULE MCStreamSessions ---------------------------
(* StreamSessions for TLC. *)
EXTENDS StreamSessions, TLC

\* Requests, files and session objects are interchangeable (safety runs only).
Symmetry == Permutations(Requests) \cup Permutations(Files) \cup Permutations(Sessions)
==============================================================================
