\* Two readers; a buffer that starts below its least size and may double.
CONSTANTS
    Readers = {r1, r2}
    Size = 2
    MinCacheSize = 3
    MaxCacheSize = 4
    MaxConcurrentReads = 2
    MaxBytes = 2
SPECIFICATION FairSpec
 
PROPERTIES CloseReturns
