\* Two clients and a shard of two entries for three keys; a second shard.
CONSTANTS
    k1 = k1
    k2 = k2
    k3 = k3
    k4 = k4
    Keys = {k1, k2, k3, k4}
    Clients = {c1, c2}
    NoKey = NoKey
    ShardCount = 2
    MaxSize = 5
    TTL = 1
    ShardOf <- MCShardOf
    Canonical <- MCCanonical
SPECIFICATION FairSpec
INVARIANTS IndexAgrees  ShardBounded
PROPERTIES ExpiredGo
