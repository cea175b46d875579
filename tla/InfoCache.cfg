\* Three requests for two torrents, and room for the information of one.
CONSTANTS
    Requests = {r1, r2, r3}
    Hashes = {h1, h2}
    MaxSize = 1
    TTL = 1
    None = None
SPECIFICATION FairSpec
INVARIANTS TypeOK SizeBounded
PROPERTIES EmptyHasCause RequestEnds
