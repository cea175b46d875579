\* Everybody who waits for m.mu gets it, and the monitors of dropped torrents end.
CONSTANTS
    Hashes = {h1}
    Torrents = {t1, t2}
    Callers = {c1}
    NoHash = NoHash
    NoTorrent = NoTorrent
    MaxConcurrentTorrents = 1
    MaxRetries = 2
    IdleLimit = 0
    KeepFiles = TRUE
SPECIFICATION FairSpec
PROPERTIES  InactiveIsRemoved CloseCompletes MonitorEnds
