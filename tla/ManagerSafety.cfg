\* Two callers, one token of the semaphore, and two torrents of one hash in turn.
CONSTANTS
    Hashes = {h1}
    Torrents = {t1, t2}
    Callers = {c1, c2}
    NoHash = NoHash
    NoTorrent = NoTorrent
    MaxConcurrentTorrents = 1
    MaxRetries = 1
    IdleLimit = 0
    KeepFiles = FALSE
SPECIFICATION Spec
SYMMETRY Symmetry
INVARIANTS TypeOK RegisteredIsTracked SemaphoreCounts   
 
