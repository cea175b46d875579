----------------------------- MODULE HLSSegmenter -----------------------------
(***************************************************************************)
(* HLS: a file is cut into segments, the playlist lists them, and players   *)
(* read one after the other through a Segmenter, which caches them whole.   *)
(*                                                                          *)
(* A Segmenter may be shared; HLSSegment makes one for each request, which  *)
(* is the case of one player.                                               *)
(***************************************************************************)
EXTENDS Integers, FiniteSets

CONSTANTS
    Players,
    MaxLength,      \* longest file (a bound)
    MaxSegment,     \* largest segmentSize (a bound)
    Chunk,          \* what one Read copies at most
    MaxCacheSize,   \* maxCacheSize of cleanupCache
    MaxCacheAge     \* maxCacheAge, in ticks

ASSUME SizesAssumption ==
    /\ MaxLength \in Nat /\ MaxSegment \in Nat \ {0} /\ Chunk \in Nat \ {0}
    /\ MaxCacheSize \in Nat /\ MaxCacheAge \in Nat

VARIABLES
    length, segmentSize,   \* of the file and of its segments
    cached,                \* ids of the segments in the cache
    age,                   \* time since lastAccess of each of them
    pc,                    \* where a player is
    segment, offset,       \* its segmentReadSeeker
    got                    \* bytes it has been given

vars == <<length, segmentSize, cached, age, pc, segment, offset, got>>
file == <<length, segmentSize>>

Least(a, b) == IF a < b THEN a ELSE b

\* Mutant: the last, shorter segment is not counted.
SegmentCountDown(len, size) == len \div size

\* segmentCount of NewSegmenter: the last segment may be shorter.
SegmentCount(len, size) == (len + size - 1) \div size

SegmentStart(size, i) == i * size

\* The cut of cacheSegment.
SegmentLength(len, size, i) == Least(size, len - SegmentStart(size, i))

Count == SegmentCount(length, segmentSize)
LengthOf(i) == SegmentLength(length, segmentSize, i)
Ids == 0 .. MaxLength

Init ==
    /\ length \in 0 .. MaxLength
    /\ segmentSize \in 1 .. MaxSegment
    /\ cached = {}
    /\ age = [i \in Ids |-> 0]
    /\ pc = [p \in Players |-> "idle"]
    /\ segment = [p \in Players |-> 0]
    /\ offset = [p \in Players |-> 0]
    /\ got = [p \in Players |-> 0]

Goto(p, loc) == pc' = [pc EXCEPT ![p] = loc]

\* A player has read the playlist.  It asks for the first segment, if there is one.
Play(p) ==
    /\ pc[p] = "idle"
    /\ Goto(p, IF Count > 0 THEN "ensure" ELSE "done")
    /\ UNCHANGED <<file, cached, age, segment, offset, got>>

------------------------------------------------------------------------------
(* Read: cacheSegment under the lock, then a copy under the read lock *)

Hit(p) ==
    /\ pc[p] = "ensure" /\ segment[p] \in cached
    /\ age' = [age EXCEPT ![segment[p]] = 0]
    /\ Goto(p, "copy")
    /\ UNCHANGED <<file, cached, segment, offset, got>>

IsOld(i) == age[i] > MaxCacheAge

\* cleanupCache ranges over the map in no particular order and deletes old
\* segments until there are few enough or no old one is left.
Cleaned(ids, kept) ==
    LET old == {i \in ids : IsOld(i)} IN
    /\ ids \ old \subseteq kept /\ kept \subseteq ids
    /\ Cardinality(kept) > MaxCacheSize => kept = ids \ old
    /\ kept # ids => Cardinality(kept) >= MaxCacheSize

\* Mutant: a segment read anew is handed out from its start.
FillRewinds(p) ==
    /\ pc[p] = "ensure" /\ segment[p] \notin cached
    /\ cached' \in SUBSET (cached \cup {segment[p]})
    /\ Cleaned(cached \cup {segment[p]}, cached')
    /\ age' = [i \in Ids |-> IF i \in cached' THEN age[i] ELSE 0]
    /\ Goto(p, "copy")
    /\ offset' = [offset EXCEPT ![p] = 0]
    /\ UNCHANGED <<file, segment, got>>

\* The segment is read from the torrent and added; the new one is not old.
Fill(p) ==
    /\ pc[p] = "ensure" /\ segment[p] \notin cached
    /\ cached' \in SUBSET (cached \cup {segment[p]})
    /\ Cleaned(cached \cup {segment[p]}, cached')
    /\ age' = [i \in Ids |-> IF i \in cached' THEN age[i] ELSE 0]
    /\ Goto(p, "copy")
    /\ UNCHANGED <<file, segment, offset, got>>

\* The torrent was dropped: an error, and the player gives up.
FillFails(p) ==
    /\ pc[p] = "ensure" /\ segment[p] \notin cached
    /\ Goto(p, "failed")
    /\ UNCHANGED <<file, cached, age, segment, offset, got>>

\* What is left of the segment, but no more than a chunk, is handed out.
Copy(p) ==
    /\ pc[p] = "copy" /\ segment[p] \in cached
    /\ offset[p] < LengthOf(segment[p])
    /\ LET n == Least(Chunk, LengthOf(segment[p]) - offset[p]) IN
         /\ offset' = [offset EXCEPT ![p] = @ + n]
         /\ got' = [got EXCEPT ![p] = @ + n]
    /\ Goto(p, "ensure")
    /\ UNCHANGED <<file, cached, age, segment>>

\* Mutant: the offset must pass the end.
EndOfSegmentLate(p) ==
    /\ pc[p] = "copy" /\ segment[p] \in cached
    /\ offset[p] > LengthOf(segment[p])
    /\ IF segment[p] + 1 < Count
       THEN /\ segment' = [segment EXCEPT ![p] = @ + 1]
            /\ offset' = [offset EXCEPT ![p] = 0]
            /\ Goto(p, "ensure")
       ELSE Goto(p, "done") /\ UNCHANGED <<segment, offset>>
    /\ UNCHANGED <<file, cached, age, got>>

\* The end of a segment.  The player asks for the next one of the playlist.
EndOfSegment(p) ==
    /\ pc[p] = "copy" /\ segment[p] \in cached
    /\ offset[p] >= LengthOf(segment[p])
    /\ IF segment[p] + 1 < Count
       THEN /\ segment' = [segment EXCEPT ![p] = @ + 1]
            /\ offset' = [offset EXCEPT ![p] = 0]
            /\ Goto(p, "ensure")
       ELSE Goto(p, "done") /\ UNCHANGED <<segment, offset>>
    /\ UNCHANGED <<file, cached, age, got>>

\* The segment was taken out between the two locks: a nil pointer.
CopyPanics(p) ==
    /\ pc[p] = "copy" /\ segment[p] \notin cached
    /\ Goto(p, "failed")
    /\ UNCHANGED <<file, cached, age, segment, offset, got>>

------------------------------------------------------------------------------
Close ==
    /\ cached' = {}
    /\ age' = [i \in Ids |-> 0]
    /\ UNCHANGED <<file, pc, segment, offset, got>>

Tick ==
    /\ age' = [i \in Ids |-> IF i \in cached /\ ~IsOld(i) THEN age[i] + 1 ELSE age[i]]
    /\ UNCHANGED <<file, cached, pc, segment, offset, got>>

Read(p) ==
    \/ Hit(p) \/ Fill(p) \/ FillFails(p)
    \/ Copy(p) \/ EndOfSegment(p) \/ CopyPanics(p)

Next ==
    \/ \E p \in Players : Play(p) \/ Read(p)
    \/ Close \/ Tick

Spec == Init /\ [][Next]_vars

\* A player that reads goes on.
FairSpec == Spec /\ \A p \in Players : WF_vars(Read(p))

------------------------------------------------------------------------------
(* Properties *)

\* Every variable keeps its type; nobody is given more than the file.
TypeOK ==
    /\ length \in 0 .. MaxLength /\ segmentSize \in 1 .. MaxSegment
    /\ cached \subseteq 0 .. Count - 1
    /\ age \in [Ids -> 0 .. MaxCacheAge + 1]
    /\ pc \in [Players -> {"idle", "ensure", "copy", "done", "failed"}]
    /\ segment \in [Players -> Ids]
    /\ offset \in [Players -> 0 .. MaxSegment]
    /\ got \in [Players -> 0 .. length]

\* The byte a player gets next is the one after those it has got, across
\* segments and however often the cache lost them (cacheSegment, Read), ...
InOrder ==
    \A p \in Players :
      pc[p] \in {"ensure", "copy"} =>
        /\ segment[p] < Count
        /\ got[p] = SegmentStart(segmentSize, segment[p]) + offset[p]

\* ... and one that has played all segments of the playlist has got the file.
PlaysFile == \A p \in Players : pc[p] = "done" => got[p] = length

\* A player comes to the end of the playlist, or fails.
PlayEnds == \A p \in Players : pc[p] = "ensure" ~> pc[p] \in {"done", "failed"}
==============================================================================
