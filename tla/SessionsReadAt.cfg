\* Two requests of one session move its reader under each other.
CONSTANTS
    Files = {f1}
    Requests = {r1, r2}
    Sessions = {s1}
    NoFile = NoFile
    NoSession = NoSession
    FileSize = 2
    MaxReads = 2
    IdleLimit = 0
SPECIFICATION Spec
INVARIANTS ReadsAtOffset
