\* Two requests share the sessions of one file.
CONSTANTS
    Files = {f1}
    Requests = {r1, r2}
    Sessions = {s1, s2}
    NoFile = NoFile
    NoSession = NoSession
    FileSize = 2
    MaxReads = 2
    IdleLimit = 0
SPECIFICATION Spec
SYMMETRY Symmetry
INVARIANTS TypeOK OpenIsRegistered CloseWaits AloneIsRight CutOnlyBySweep
