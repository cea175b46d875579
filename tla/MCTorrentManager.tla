--------------------------- MODULE MCTorrentManager ---------------------------
(* TorrentManager for TLC. *)
EXTENDS TorrentManager, TLC

\* Callers, hashes and torrents are interchangeable (used by safety runs only).
Symmetry == Permutations(Callers) \cup Permutations(Hashes) \cup Permutations(Torrents)
==============================================================================
