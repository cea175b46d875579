\* Two clients of the store, more files than entries and more bytes than room,
\* while files of a torrent are deleted.
CONSTANTS
    Keys = {k1, k2, k3}
    Clients = {c1, c2}
    NoKey = NoKey
    NoClient = NoClient
    CacheSize = 2
    UnitsPerMB = 1
    MaxFile = 1
    MaxConcurrency = 2
    MaxRetries = 2
    MaxFiles = 1
SPECIFICATION RemovalFairSpec
INVARIANTS RemovalTypeOK 
PROPERTIES  RemovalEnds
