------------------------- MODULE HLSSegmenterProofs -------------------------
(***************************************************************************)
(* HLSSegmenter: whatever the length of the file and of its segments, and   *)
(* however many players there are, each gets the bytes of the file in order *)
(* and one that has played the playlist has got all of them.                *)
(***************************************************************************)
EXTENDS HLSSegmenter, TLAPS

------------------------------------------------------------------------------
(* The cut *)

\* Products are monotonic.
LEMMA MultMono ==
    ASSUME NEW a \in Nat, NEW b \in Nat, NEW n \in Nat, a <= b
    PROVE  a * n <= b * n
<1>1. PICK d \in Nat : b = a + d  BY SMT
<1>2. b * n = a * n + d * n  BY <1>1, SMT
<1>3. d * n >= 0  BY SMT
<1> QED  BY <1>2, <1>3, SMT

\* What rounding a quotient up means.
LEMMA RoundUp ==
    ASSUME NEW len \in Nat, NEW size \in Nat \ {0}
    PROVE  /\ SegmentCount(len, size) \in Nat
           /\ len <= SegmentCount(len, size) * size
           /\ SegmentCount(len, size) * size < len + size
<1> DEFINE c == (len + size - 1) \div size
<1>1. c \in Nat /\ c * size <= len + size - 1 /\ len + size - 1 < c * size + size
  BY SMT
<1> QED  BY <1>1, SMT DEF SegmentCount

\* Every segment of the playlist begins inside the file, the ones before the
\* last are whole, and the last one ends with the file.
LEMMA Cut ==
    ASSUME NEW len \in Nat, NEW size \in Nat \ {0},
           NEW i \in Nat, i < SegmentCount(len, size)
    PROVE  /\ SegmentLength(len, size, i) \in 1 .. size
           /\ SegmentStart(size, i) \in Nat
           /\ SegmentStart(size, i) + SegmentLength(len, size, i) <= len
           /\ i + 1 < SegmentCount(len, size) =>
                SegmentStart(size, i + 1) = SegmentStart(size, i) + SegmentLength(len, size, i)
           /\ i + 1 >= SegmentCount(len, size) =>
                SegmentStart(size, i) + SegmentLength(len, size, i) = len
           /\ i < len
<1> DEFINE c == SegmentCount(len, size)
           start == i * size
<1>1. /\ c \in Nat
      /\ len <= c * size
      /\ c * size < len + size
  BY RoundUp
<1>2. start \in Nat /\ (i + 1) * size = start + size
  BY SMT
<1>3. start + size <= c * size
  BY <1>1, <1>2, MultMono, i + 1 \in Nat, i + 1 <= c
<1>4. start < len
  BY <1>1, <1>2, <1>3, c * size \in Nat, SMT
<1>5. i + 1 >= c => start + size = c * size
  BY <1>1, <1>2, i + 1 >= c => i + 1 = c
<1>6. i + 1 < c => start + size < len
  <2> SUFFICES ASSUME i + 1 < c  PROVE start + size < len
    OBVIOUS
  <2>1. (i + 2) * size = start + size + size
    BY SMT
  <2>2. (i + 2) * size <= c * size
    BY <1>1, MultMono, i + 2 \in Nat, i + 2 <= c
  <2> QED  BY <1>1, <1>2, <2>1, <2>2, c * size \in Nat, SMT
<1>7. i <= start
  BY MultMono, 1 <= size, i * 1 <= i * size, SMT
<1> HIDE DEF c, start
<1>8. /\ SegmentStart(size, i) = start
      /\ SegmentStart(size, i + 1) = start + size
      /\ SegmentLength(len, size, i) = IF size < len - start THEN size ELSE len - start
  BY <1>2, <1>4, SMT DEF SegmentStart, SegmentLength, Least, start
<1> QED  BY <1>1, <1>2, <1>4, <1>5, <1>6, <1>7, <1>8, c * size \in Nat, SMT DEF c

------------------------------------------------------------------------------
(* The invariant *)

\* A player at a segment is inside it, and has got all that comes before.
AtSegment(p) ==
    /\ segment[p] \in Nat /\ segment[p] < Count
    /\ offset[p] \in Nat /\ offset[p] <= LengthOf(segment[p])
    /\ got[p] = SegmentStart(segmentSize, segment[p]) + offset[p]

\* What a player knows, wherever it is: InOrder while it reads, and the
\* beginning and the end of that.
PlayerOK(p) ==
    /\ pc[p] \in {"idle", "ensure", "copy", "done", "failed"}
    /\ pc[p] = "idle" => segment[p] = 0 /\ offset[p] = 0 /\ got[p] = 0
    /\ pc[p] \in {"ensure", "copy", "failed"} => AtSegment(p)
    /\ pc[p] = "done" =>
         /\ got[p] = length
         /\ IF length = 0 THEN segment[p] = 0 /\ offset[p] = 0 ELSE AtSegment(p)

Types ==
    /\ length \in Nat /\ length <= MaxLength
    /\ segmentSize \in Nat \ {0} /\ segmentSize <= MaxSegment
    /\ cached \subseteq {i \in Nat : i < Count}
    /\ age \in [Ids -> 0 .. MaxCacheAge + 1]
    /\ pc \in [Players -> {"idle", "ensure", "copy", "done", "failed"}]
    /\ segment \in [Players -> Nat]
    /\ offset \in [Players -> Nat]
    /\ got \in [Players -> Nat]

IInv == Types /\ \A p \in Players : PlayerOK(p)

\* The lemma on the cut, for the file that is played.
LEMMA CutOfFile ==
    ASSUME Types, NEW i \in Nat, i < Count
    PROVE  /\ LengthOf(i) \in 1 .. segmentSize
           /\ SegmentStart(segmentSize, i) \in Nat
           /\ SegmentStart(segmentSize, i) + LengthOf(i) <= length
           /\ i + 1 < Count =>
                SegmentStart(segmentSize, i + 1) = SegmentStart(segmentSize, i) + LengthOf(i)
           /\ i + 1 >= Count => SegmentStart(segmentSize, i) + LengthOf(i) = length
           /\ i < length
BY Cut DEF Types, Count, LengthOf

LEMMA CountOfFile ==
    ASSUME Types
    PROVE  /\ Count \in Nat
           /\ Count > 0 <=> length > 0
<1>1. Count \in Nat /\ length <= Count * segmentSize /\ Count * segmentSize < length + segmentSize
  BY RoundUp DEF Types, Count
<1>2. Count = 0 => length = 0
  BY <1>1, 0 * segmentSize = 0 DEF Types
<1>3. length = 0 => Count = 0
  <2> SUFFICES ASSUME length = 0, Count >= 1  PROVE FALSE
    BY <1>1
  <2>1. 1 * segmentSize <= Count * segmentSize
    BY <1>1, MultMono DEF Types
  <2> QED  BY <1>1, <2>1, Count * segmentSize \in Nat DEF Types
<1> QED  BY <1>1, <1>2, <1>3 DEF Types

\* The invariant says what TypeOK, InOrder and PlaysFile say.
LEMMA InvariantImplies ==
    ASSUME IInv
    PROVE  TypeOK /\ InOrder /\ PlaysFile
<1>1. Types /\ \A p \in Players : PlayerOK(p)
  BY DEF IInv
<1>2. \A i \in Nat : i < Count => /\ i < length
                                 /\ LengthOf(i) \in 1 .. segmentSize
                                 /\ SegmentStart(segmentSize, i) \in Nat
                                 /\ SegmentStart(segmentSize, i) + LengthOf(i) <= length
  BY <1>1, CutOfFile
<1>3. ASSUME NEW p \in Players
      PROVE  /\ segment[p] \in Ids /\ offset[p] \in 0 .. MaxSegment /\ got[p] \in 0 .. length
  <2>1. CASE AtSegment(p)
    <3> DEFINE i == segment[p]
    <3>1. /\ i \in Nat /\ i < Count
          /\ offset[p] \in Nat /\ offset[p] <= LengthOf(i)
          /\ got[p] = SegmentStart(segmentSize, i) + offset[p]
      BY <2>1 DEF AtSegment
    <3>2. /\ i < length
          /\ LengthOf(i) \in 1 .. segmentSize
          /\ SegmentStart(segmentSize, i) \in Nat
          /\ SegmentStart(segmentSize, i) + LengthOf(i) <= length
      BY <1>2, <3>1
    <3>3. /\ length \in Nat /\ length <= MaxLength
          /\ segmentSize \in Nat /\ segmentSize <= MaxSegment
      BY <1>1 DEF Types
    <3> QED  BY <3>1, <3>2, <3>3, SizesAssumption, SMT DEF Ids
  <2>2. CASE segment[p] = 0 /\ offset[p] = 0 /\ got[p] \in {0, length}
    BY <1>1, <2>2, SizesAssumption, SMT DEF Types, Ids
  <2> QED  BY <1>1, <2>1, <2>2 DEF PlayerOK
<1>4. TypeOK
  <2>1. cached \subseteq 0 .. Count - 1
    BY <1>1, CountOfFile, SMT DEF Types
  <2>2. length \in 0 .. MaxLength /\ segmentSize \in 1 .. MaxSegment
    BY <1>1, SizesAssumption, SMT DEF Types
  <2> QED  BY <1>1, <1>3, <2>1, <2>2 DEF Types, TypeOK
<1>5. InOrder
  BY <1>1 DEF InOrder, PlayerOK, AtSegment
<1>6. PlaysFile
  BY <1>1 DEF PlaysFile, PlayerOK
<1> QED  BY <1>4, <1>5, <1>6

------------------------------------------------------------------------------
(* It holds at first, and every step preserves it *)

LEMMA InitInvariant == Init => IInv
BY SizesAssumption, SMT DEF Init, IInv, Types, PlayerOK

\* A step that leaves the players alone.
LEMMA OthersKeep ==
    ASSUME IInv, UNCHANGED <<file, pc, segment, offset, got>>,
           cached' \subseteq cached, age' \in [Ids -> 0 .. MaxCacheAge + 1]
    PROVE  IInv'
BY DEF IInv, Types, PlayerOK, AtSegment, Count, LengthOf, file

\* A step of one player that keeps the types: only this player is to be looked at.
LEMMA OnePlayer ==
    ASSUME IInv, NEW p \in Players, Types', PlayerOK(p)', UNCHANGED file,
           \A q \in Players \ {p} : /\ pc'[q] = pc[q] /\ segment'[q] = segment[q]
                                   /\ offset'[q] = offset[q] /\ got'[q] = got[q]
    PROVE  IInv'
BY DEF IInv, PlayerOK, AtSegment, Count, LengthOf, file

LEMMA StepInvariant == IInv /\ [Next]_vars => IInv'
<1> SUFFICES ASSUME IInv, [Next]_vars  PROVE IInv'
  OBVIOUS
<1> USE SizesAssumption
<1>1. Types /\ \A p \in Players : PlayerOK(p)
  BY DEF IInv
<1>2. ASSUME NEW p \in Players, Play(p)  PROVE IInv'
  <2>1. Types'
    BY <1>1, <1>2 DEF Types, Play, Goto, Count, file
  <2>2. PlayerOK(p)'
    <3>1. Count > 0 => 0 < Count /\ LengthOf(0) >= 0 /\ SegmentStart(segmentSize, 0) = 0
      BY <1>1, CutOfFile, SMT DEF SegmentStart, Types
    <3>2. Count = 0 => length = 0
      BY <1>1, CountOfFile DEF Types
    <3>3. Count \in Nat
      BY <1>1, CountOfFile
    <3> QED  BY <1>1, <1>2, <3>1, <3>2, <3>3 DEF Play, Goto, PlayerOK, AtSegment, Types, Count, LengthOf, file
  <2> QED  BY <1>2, <2>1, <2>2, OnePlayer DEF Play, Goto, Types, file
<1>3. ASSUME NEW p \in Players, Hit(p)  PROVE IInv'
  <2>1. Types'
    <3>1. age' \in [Ids -> 0 .. MaxCacheAge + 1]
      <4>1. 0 \in 0 .. MaxCacheAge + 1
        OBVIOUS
      <4> QED  BY <1>1, <1>3, <4>1 DEF Types, Hit
    <3> QED  BY <1>1, <1>3, <3>1 DEF Types, Hit, Goto, Count, file
  <2>2. PlayerOK(p)'
    BY <1>1, <1>3 DEF Hit, Goto, PlayerOK, AtSegment, Types, Count, LengthOf, file
  <2> QED  BY <1>3, <2>1, <2>2, OnePlayer DEF Hit, Goto, Types, file
<1>4. ASSUME NEW p \in Players, Fill(p)  PROVE IInv'
  <2>1. segment[p] \in Nat /\ segment[p] < Count
    BY <1>1, <1>4 DEF Fill, PlayerOK, AtSegment
  <2>2. Types'
    BY <1>1, <1>4, <2>1 DEF Types, Fill, Goto, Count, file
  <2>3. PlayerOK(p)'
    BY <1>1, <1>4 DEF Fill, Goto, PlayerOK, AtSegment, Types, Count, LengthOf, file
  <2> QED  BY <1>4, <2>2, <2>3, OnePlayer DEF Fill, Goto, Types, file
<1>5. ASSUME NEW p \in Players, FillFails(p)  PROVE IInv'
  <2>1. Types'
    BY <1>1, <1>5 DEF Types, FillFails, Goto, Count, file
  <2>2. PlayerOK(p)'
    BY <1>1, <1>5 DEF FillFails, Goto, PlayerOK, AtSegment, Types, Count, LengthOf, file
  <2> QED  BY <1>5, <2>1, <2>2, OnePlayer DEF FillFails, Goto, Types, file
<1>6. ASSUME NEW p \in Players, Copy(p)  PROVE IInv'
  <2> DEFINE n == Least(Chunk, LengthOf(segment[p]) - offset[p])
  <2>1. AtSegment(p)
    BY <1>1, <1>6 DEF Copy, PlayerOK
  <2>2. LengthOf(segment[p]) \in Nat /\ SegmentStart(segmentSize, segment[p]) \in Nat
    BY <1>1, <2>1, CutOfFile, SMT DEF AtSegment, Types
  <2>3. n \in Nat /\ offset[p] + n <= LengthOf(segment[p])
    BY <1>6, <2>1, <2>2 DEF Copy, AtSegment, Least
  <2>4. /\ offset' = [offset EXCEPT ![p] = offset[p] + n]
        /\ got' = [got EXCEPT ![p] = got[p] + n]
        /\ pc' = [pc EXCEPT ![p] = "ensure"]
        /\ UNCHANGED <<file, cached, age, segment>>
    BY <1>6 DEF Copy, Goto
  <2> HIDE DEF n
  <2>5. got[p] \in Nat /\ offset[p] \in Nat
    BY <1>1 DEF Types
  <2>6. Types'
    BY <1>1, <2>3, <2>4, <2>5 DEF Types, Count, file
  <2>7. PlayerOK(p)'
    BY <1>1, <2>1, <2>2, <2>3, <2>4, <2>5 DEF PlayerOK, AtSegment, Types, Count, LengthOf, file
  <2> QED  BY <1>1, <2>4, <2>6, <2>7, OnePlayer DEF Types
<1>7. ASSUME NEW p \in Players, EndOfSegment(p)  PROVE IInv'
  <2>1. AtSegment(p) /\ offset[p] = LengthOf(segment[p])
    <3>1. AtSegment(p) /\ offset[p] >= LengthOf(segment[p])
      BY <1>1, <1>7 DEF EndOfSegment, PlayerOK
    <3>2. LengthOf(segment[p]) \in Nat
      BY <1>1, <3>1, CutOfFile, SMT DEF AtSegment, Types
    <3> QED  BY <3>1, <3>2 DEF AtSegment
  <2>2. CASE segment[p] + 1 < Count
    <3>1. /\ segment' = [segment EXCEPT ![p] = segment[p] + 1]
          /\ offset' = [offset EXCEPT ![p] = 0]
          /\ pc' = [pc EXCEPT ![p] = "ensure"]
          /\ UNCHANGED <<file, cached, age, got>>
      BY <1>7, <2>2 DEF EndOfSegment, Goto
    <3>2. /\ LengthOf(segment[p] + 1) \in Nat
          /\ SegmentStart(segmentSize, segment[p] + 1) \in Nat
      BY <1>1, <2>1, <2>2, CutOfFile, segment[p] + 1 \in Nat, SMT DEF AtSegment, Types
    <3>3. got[p] = SegmentStart(segmentSize, segment[p] + 1)
      BY <1>1, <2>1, <2>2, CutOfFile DEF AtSegment
    <3>4. Types'
      BY <1>1, <3>1 DEF Types, Count, file
    <3>5. PlayerOK(p)'
      BY <1>1, <2>1, <2>2, <3>1, <3>2, <3>3 DEF PlayerOK, AtSegment, Types, Count, LengthOf, file
    <3> QED  BY <1>1, <3>1, <3>4, <3>5, OnePlayer DEF Types
  <2>3. CASE ~(segment[p] + 1 < Count)
    <3>1. /\ pc' = [pc EXCEPT ![p] = "done"]
          /\ UNCHANGED <<file, cached, age, got, segment, offset>>
      BY <1>7, <2>3 DEF EndOfSegment, Goto
    <3>2. segment[p] + 1 >= Count
      BY <1>1, <2>1, <2>3, CountOfFile DEF AtSegment
    <3>3. got[p] = length /\ length # 0
      BY <1>1, <2>1, <3>2, CutOfFile, SMT DEF AtSegment, Types
    <3>4. Types'
      BY <1>1, <3>1 DEF Types, Count, file
    <3>5. PlayerOK(p)'
      BY <1>1, <2>1, <3>1, <3>3 DEF PlayerOK, AtSegment, Types, Count, LengthOf, file
    <3> QED  BY <1>1, <3>1, <3>4, <3>5, OnePlayer DEF Types
  <2> QED  BY <2>2, <2>3
<1>8. ASSUME NEW p \in Players, CopyPanics(p)  PROVE IInv'
  <2>1. Types'
    BY <1>1, <1>8 DEF Types, CopyPanics, Goto, Count, file
  <2>2. PlayerOK(p)'
    BY <1>1, <1>8 DEF CopyPanics, Goto, PlayerOK, AtSegment, Types, Count, LengthOf, file
  <2> QED  BY <1>8, <2>1, <2>2, OnePlayer DEF CopyPanics, Goto, Types, file
<1>9. ASSUME Close  PROVE IInv'
  BY <1>9, OthersKeep DEF Close
<1>10. ASSUME Tick  PROVE IInv'
  <2>1. age' \in [Ids -> 0 .. MaxCacheAge + 1]
    BY <1>1, <1>10, SMT DEF Tick, IsOld, Types
  <2> QED  BY <1>10, <2>1, OthersKeep DEF Tick
<1>11. ASSUME UNCHANGED vars  PROVE IInv'
  BY <1>1, <1>11, OthersKeep DEF vars, file, Types
<1> QED  BY <1>2, <1>3, <1>4, <1>5, <1>6, <1>7, <1>8, <1>9, <1>10, <1>11 DEF Next, Read

LEMMA Invariant == Spec => []IInv
BY InitInvariant, StepInvariant, PTL DEF Spec

------------------------------------------------------------------------------
(* The theorems *)

\* Every variable keeps its type, and no player is given more than the file.
THEOREM TypeCorrect == Spec => []TypeOK
BY Invariant, InvariantImplies, PTL

\* Each player gets the bytes of the file in order, for every length of the file
\* and of its segments and however often the cache drops what it reads.
THEOREM BytesInOrder == Spec => []InOrder
BY Invariant, InvariantImplies, PTL

\* One that has played all segments of the playlist has got the whole file.
THEOREM FilePlayed == Spec => []PlaysFile
BY Invariant, InvariantImplies, PTL

------------------------------------------------------------------------------
(* How many reads a player needs *)

\* What a player still has to do: the bytes it has not got, the segments it has
\* not asked for, and the lock it may have to take.
PlaySteps(p) ==
    2 * (length - got[p]) + 2 * (Count - segment[p]) + (IF pc[p] = "ensure" THEN 1 ELSE 0)

LEMMA PlayCounted ==
    ASSUME IInv, NEW p \in Players
    PROVE  PlaySteps(p) \in 0 .. 2 * (length + Count) + 1
<1>1. /\ got[p] \in Nat /\ got[p] <= length
      /\ segment[p] \in Nat
      /\ length \in Nat
  BY InvariantImplies, SizesAssumption DEF TypeOK, Ids, IInv, Types
<1>2. Count \in Nat /\ segment[p] <= Count
  BY CountOfFile DEF IInv, Types, PlayerOK, AtSegment
<1>3. (IF pc[p] = "ensure" THEN 1 ELSE 0) \in {0, 1}
  OBVIOUS
<1> QED  BY <1>1, <1>2, <1>3 DEF PlaySteps

\* A step of the player itself while it reads.
LEMMA ReadNearer ==
    ASSUME IInv, NEW p \in Players, Read(p)
    PROVE  pc'[p] \in {"done", "failed"} \/ PlaySteps(p)' < PlaySteps(p)
<1> DEFINE i == segment[p]
<1>1. /\ i \in Nat /\ i < Count /\ Count \in Nat /\ LengthOf(i) \in Nat
      /\ offset[p] \in Nat /\ got[p] \in Nat /\ length \in Nat
  <2>1. i < Count /\ offset[p] \in Nat
    BY DEF IInv, Types, PlayerOK, AtSegment, Read, Hit, Fill, FillFails, Copy, EndOfSegment,
           CopyPanics
  <2> QED  BY <2>1, CountOfFile, CutOfFile DEF IInv, Types
<1>2. pc \in [Players -> {"idle", "ensure", "copy", "done", "failed"}]
      /\ segment \in [Players -> Nat] /\ got \in [Players -> Nat]
  BY DEF IInv, Types
<1>3. Read(p) => Count' = Count /\ length' = length
  BY DEF Read, Hit, Fill, FillFails, Copy, EndOfSegment, CopyPanics, Count, file
<1>4. CASE Hit(p) \/ Fill(p)
  <2>1. /\ pc[p] = "ensure" /\ pc'[p] = "copy"
        /\ segment' = segment /\ got' = got
    BY <1>2, <1>4 DEF Hit, Fill, Goto
  <2> QED  BY <1>1, <1>3, <2>1 DEF PlaySteps
<1>5. CASE FillFails(p) \/ CopyPanics(p)
  BY <1>2, <1>5 DEF FillFails, CopyPanics, Goto
<1>6. CASE Copy(p)
  <2> DEFINE n == Least(Chunk, LengthOf(i) - offset[p])
  <2>1. /\ pc[p] = "copy" /\ pc'[p] = "ensure"
        /\ segment' = segment /\ got'[p] = got[p] + n
        /\ offset[p] < LengthOf(i)
    BY <1>2, <1>6 DEF Copy, Goto
  <2>2. n \in Nat \ {0}
    BY <1>1, <2>1, SizesAssumption DEF Least
  <2> HIDE DEF n
  <2> QED  BY <1>1, <1>3, <2>1, <2>2 DEF PlaySteps
<1>7. CASE EndOfSegment(p)
  <2>1. CASE i + 1 < Count
    <3>1. /\ pc[p] = "copy" /\ pc'[p] = "ensure"
          /\ segment'[p] = i + 1 /\ got' = got
      BY <1>2, <1>7, <2>1 DEF EndOfSegment, Goto
    <3> QED  BY <1>1, <1>3, <3>1 DEF PlaySteps
  <2>2. CASE ~(i + 1 < Count)
    BY <1>2, <1>7, <2>2 DEF EndOfSegment, Goto
  <2> QED  BY <2>1, <2>2
<1> QED  BY <1>4, <1>5, <1>6, <1>7 DEF Read

\* A player that reads is a bounded number of its own reads from the end of the
\* playlist: each ends it or brings it nearer, though the cache may have lost its
\* segment again (Read reads it anew and does not start over), and neither
\* another player, nor Close, nor time takes it back (Read, cacheSegment).
THEOREM PlayShortens ==
    Spec => /\ [](\A p \in Players : PlaySteps(p) \in 0 .. 2 * (length + Count) + 1)
            /\ [][\A p \in Players : pc[p] \in {"ensure", "copy"} =>
                    \/ UNCHANGED <<length, segmentSize, pc[p], segment[p], offset[p], got[p]>>
                    \/ pc'[p] \in {"done", "failed"}
                    \/ PlaySteps(p)' < PlaySteps(p)]_vars
<1> DEFINE Nearer(p) ==
             \/ UNCHANGED <<length, segmentSize, pc[p], segment[p], offset[p], got[p]>>
             \/ pc'[p] \in {"done", "failed"}
             \/ PlaySteps(p)' < PlaySteps(p)
<1>1. IInv => \A p \in Players : PlaySteps(p) \in 0 .. 2 * (length + Count) + 1
  BY PlayCounted
<1>2. ASSUME IInv, [Next]_vars, NEW p \in Players, pc[p] \in {"ensure", "copy"}
      PROVE  Nearer(p)
  <2>1. CASE Read(p)
    BY <1>2, <2>1, ReadNearer
  <2>2. ASSUME NEW q \in Players, Read(q), q # p
        PROVE  UNCHANGED <<length, segmentSize, pc[p], segment[p], offset[p], got[p]>>
    BY <1>2, <2>2 DEF Read, Hit, Fill, FillFails, Copy, EndOfSegment, CopyPanics, Goto, file,
                      IInv, Types
  <2>3. ASSUME NEW q \in Players, Play(q)
        PROVE  UNCHANGED <<length, segmentSize, pc[p], segment[p], offset[p], got[p]>>
    BY <1>2, <2>3 DEF Play, Goto, file, IInv, Types
  <2>4. CASE Close \/ Tick \/ UNCHANGED vars
    BY <2>4 DEF Close, Tick, vars, file
  <2> QED  BY <1>2, <2>1, <2>2, <2>3, <2>4 DEF Next
<1>3. IInv /\ [Next]_vars => [\A p \in Players : pc[p] \in {"ensure", "copy"} => Nearer(p)]_vars
  BY <1>2
<1> QED  BY Invariant, <1>1, <1>3, PTL DEF Spec
==============================================================================
