---------------------------- MODULE MCTorrentCache ----------------------------
(* TorrentCache for TLC: k1 and k2 are info hashes, k3 is another way to       *)
(* write k2, and k4 has a shard of its own.                                    *)
EXTENDS TorrentCache, TLC

CONSTANTS k1, k2, k3, k4

MCShardOf == (k1 :> 1) @@ (k2 :> 1) @@ (k3 :> 1) @@ (k4 :> 2)
MCCanonical == (k1 :> k1) @@ (k2 :> k2) @@ (k3 :> k2) @@ (k4 :> k4)

Symmetry == Permutations(Clients)
==============================================================================
