\* Requests end, and idle sessions are closed.
CONSTANTS
    Files = {f1}
    Requests = {r1, r2}
    Sessions = {s1}
    NoFile = NoFile
    NoSession = NoSession
    FileSize = 1
    MaxReads = 1
    IdleLimit = 0
SPECIFICATION FairSpec
PROPERTIES RequestEnds IdleIsClosed
