\* Two players share a Segmenter that keeps one segment.
CONSTANTS
    Players = {p1, p2}
    MaxLength = 4
    MaxSegment = 3
    Chunk = 2
    MaxCacheSize = 1
    MaxCacheAge = 0
SPECIFICATION FairSpec
  
PROPERTIES PlayEnds
