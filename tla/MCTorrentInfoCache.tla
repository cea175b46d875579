------------------------- MODULE MCTorrentInfoCache -------------------------
(* TorrentInfoCache for TLC. *)
EXTENDS TorrentInfoCache, TLC

\* Requests and hashes are interchangeable (safety runs only).
Symmetry == Permutations(Requests) \cup Permutations(Hashes)
==============================================================================
