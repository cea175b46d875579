------------------------ MODULE TorrentInfoCacheProofs ------------------------
(***************************************************************************)
(* TorrentInfoCache, for any number of requests and torrents and any size   *)
(* of the cache: it does not stay too large, and an answer is not empty     *)
(* without a cause.                                                         *)
(***************************************************************************)
EXTENDS TorrentInfoCache, SequenceTheorems, FiniteSetTheorems, TLAPS

\* Places after the entry was stored, or given up.
Stored == {"count", "oldest", "delete", "final"}
Evicting == {"count", "oldest", "delete"}

\* The type of every variable.
Types ==
    /\ entries \in Seq(Hashes) /\ IsInjective(entries)
    /\ age \in [Hashes -> 0 .. TTL + 1]
    /\ flight \in [Hashes -> Requests \cup {None}]
    /\ pc \in [Requests -> Leading \cup Answers \cup {"idle", "wait"}]
    /\ hash \in [Requests -> Hashes \cup {None}]
    /\ ctx \in [Requests -> {"live", "ended"}]
    /\ victim \in [Requests -> Hashes \cup {None}]
    /\ doomed \in Hashes \cup {None}
    /\ lost \subseteq Hashes

\* A call has its leader; what the leader has stored is there, or was deleted.
CallInv ==
    /\ \A r \in Requests : pc[r] # "idle" => hash[r] \in Hashes
    /\ \A h \in Hashes :
         flight[h] # None => pc[flight[h]] \in Leading /\ hash[flight[h]] = h
    /\ \A r \in Requests :
         pc[r] \in Stored => ctx[r] = "ended" \/ hash[r] \in Cached \cup lost

IInv == Types /\ CallInv /\ SizeBounded

USE DEF cache, request, Goto, Leading, Answers

------------------------------------------------------------------------------
(* The entries *)

\* The part of a sequence behind position i.
LEMMA BehindLength ==
    ASSUME NEW n \in Nat, NEW i \in 1 .. n
    PROVE  (IF i + 1 <= n THEN n - (i + 1) + 1 ELSE 0) = n - i /\ n - (i + 1) + 1 = n - i
OBVIOUS

LEMMA Behind ==
    ASSUME NEW S, NEW s \in Seq(S), NEW i \in 1 .. Len(s)
    PROVE  /\ SubSeq(s, i + 1, Len(s)) \in Seq(S)
           /\ Len(SubSeq(s, i + 1, Len(s))) = Len(s) - i
           /\ \A j \in 1 .. Len(s) - i : SubSeq(s, i + 1, Len(s))[j] = s[i + j]
<1>1. PICK n \in Nat : n = Len(s)
  BY LenProperties
<1>2. i \in 1 .. n /\ i + 1 \in Int /\ n \in Int
  BY <1>1
<1>3. \A j \in i + 1 .. n : s[j] \in S
  BY <1>1, <1>2, ElementOfSeq
<1>4. /\ SubSeq(s, i + 1, n) \in Seq(S)
      /\ Len(SubSeq(s, i + 1, n)) = IF i + 1 <= n THEN n - (i + 1) + 1 ELSE 0
      /\ \A j \in 1 .. n - (i + 1) + 1 : SubSeq(s, i + 1, n)[j] = s[(i + 1) + j - 1]
  BY <1>2, <1>3, SubSeqProperties
<1>5. Len(SubSeq(s, i + 1, n)) = n - i
  BY <1>2, <1>4, BehindLength
<1>6. ASSUME NEW j \in 1 .. n - i  PROVE SubSeq(s, i + 1, n)[j] = s[i + j]
  <2>1. SubSeq(s, i + 1, n)[j] = s[(i + 1) + j - 1]
    BY <1>2, <1>4, BehindLength
  <2>2. (i + 1) + j - 1 = i + j
    BY <1>2
  <2> QED  BY <2>1, <2>2
<1> QED  BY <1>1, <1>4, <1>5, <1>6

\* Without h, the other entries are what they were.
LEMMA Removed ==
    ASSUME NEW S, NEW s \in Seq(S), IsInjective(s), NEW h
    PROVE  /\ RemoveFirst(s, h) \in Seq(S) /\ IsInjective(RemoveFirst(s, h))
           /\ ToSet(RemoveFirst(s, h)) = ToSet(s) \ {h}
<1>1. Len(s) \in Nat /\ DOMAIN s = 1 .. Len(s) /\ \A i \in 1 .. Len(s) : s[i] \in S
  BY LenProperties, ElementOfSeq
<1>2. CASE ~ \E i \in 1 .. Len(s) : s[i] = h
  BY <1>1, <1>2 DEF RemoveFirst, ToSet
<1>3. CASE \E i \in 1 .. Len(s) : s[i] = h
  <2>1. PICK i \in 1 .. Len(s) : s[i] = h
    BY <1>3
  <2>2. {j \in 1 .. Len(s) : s[j] = h} = {i}
    BY <1>1, <2>1 DEF IsInjective
  <2>3. Min({i}) = i
    BY <2>1 DEF Min
  <2>4. SelectInSeq(s, LAMBDA v : v = h) = i
    BY <2>2, <2>3 DEF SelectInSeq
  <2> DEFINE a == SubSeq(s, 1, i - 1)  b == SubSeq(s, i + 1, Len(s))
  <2>5. RemoveFirst(s, h) = a \o b
    BY <1>3, <2>4 DEF RemoveFirst, RemoveAt
  <2>6. a \in Seq(S) /\ Len(a) = i - 1 /\ \A j \in 1 .. i - 1 : a[j] = s[j]
    BY <1>1, <2>1, SubSeqProperties
  <2>7. /\ b \in Seq(S) /\ Len(b) = Len(s) - i
        /\ \A j \in 1 .. Len(s) - i : b[j] = s[i + j]
    BY <2>1, Behind
  <2> HIDE DEF a, b
  <2> DEFINE t == a \o b
  <2>8. /\ t \in Seq(S) /\ Len(t) = Len(s) - 1 /\ DOMAIN t = 1 .. Len(s) - 1
        /\ \A j \in 1 .. Len(s) - 1 : t[j] = IF j < i THEN s[j] ELSE s[j + 1]
    <3>1. /\ t \in Seq(S) /\ Len(t) = Len(a) + Len(b)
          /\ \A j \in 1 .. Len(a) + Len(b) :
               t[j] = IF j <= Len(a) THEN a[j] ELSE b[j - Len(a)]
      BY <2>6, <2>7, ConcatProperties
    <3>2. Len(a) + Len(b) = Len(s) - 1 /\ DOMAIN t = 1 .. Len(t)
      BY <1>1, <2>1, <2>6, <2>7, <3>1, LenProperties
    <3>3. ASSUME NEW j \in 1 .. Len(s) - 1  PROVE t[j] = IF j < i THEN s[j] ELSE s[j + 1]
      <4> HIDE DEF t
      <4>1. CASE j < i
        BY <1>1, <2>1, <2>6, <3>1, <3>2, <4>1
      <4>2. CASE ~(j < i)
        <5>1. t[j] = b[j - (i - 1)] /\ j - (i - 1) \in 1 .. Len(s) - i
          BY <1>1, <2>1, <2>6, <3>1, <3>2, <4>2
        <5>2. i + (j - (i - 1)) = j + 1
          BY <2>1
        <5> QED  BY <2>7, <4>2, <5>1, <5>2
      <4> QED  BY <4>1, <4>2
    <3> QED  BY <3>1, <3>2, <3>3
  <2> HIDE DEF t
  <2>9. IsInjective(t)
    <3>1. ASSUME NEW j \in 1 .. Len(s) - 1, NEW k \in 1 .. Len(s) - 1, t[j] = t[k]
          PROVE  j = k
      <4> DEFINE p == IF j < i THEN j ELSE j + 1
                 q == IF k < i THEN k ELSE k + 1
      <4>1. p \in 1 .. Len(s) /\ q \in 1 .. Len(s) /\ s[p] = s[q]
        BY <1>1, <2>1, <2>8, <3>1
      <4>2. p = q
        <5> HIDE DEF p, q
        <5> QED  BY <1>1, <4>1 DEF IsInjective
      <4> QED  BY <2>1, <4>2
    <3> QED  BY <2>8, <3>1 DEF IsInjective
  <2>10. ASSUME NEW x \in ToSet(s), x # h  PROVE x \in ToSet(t)
    <3>1. PICK j \in 1 .. Len(s) : s[j] = x
      <4>1. DOMAIN s = 1 .. Len(s)
        BY <1>1, LenProperties
      <4> QED  BY <2>10, <4>1 DEF ToSet
    <3>2. j < i => t[j] = x /\ j \in DOMAIN t
      BY <1>1, <2>1, <2>8, <3>1
    <3>3. j > i => t[j - 1] = x /\ j - 1 \in DOMAIN t
      BY <1>1, <2>1, <2>8, <3>1
    <3> QED  BY <2>1, <2>10, <3>1, <3>2, <3>3 DEF ToSet
  <2>11. ASSUME NEW x \in ToSet(t)  PROVE x \in ToSet(s) /\ x # h
    <3>1. PICK j \in 1 .. Len(s) - 1 : t[j] = x
      BY <2>8, <2>11 DEF ToSet
    <3>2. PICK k \in 1 .. Len(s) : k # i /\ s[k] = x
      BY <1>1, <2>1, <2>8, <3>1
    <3> QED  BY <1>1, <2>1, <3>2 DEF ToSet, IsInjective
  <2> QED  BY <2>5, <2>8, <2>9, <2>10, <2>11 DEF t
<1> QED  BY <1>2, <1>3

\* One more entry.
LEMMA Appended ==
    ASSUME NEW S, NEW s \in Seq(S), IsInjective(s), NEW h \in S, h \notin ToSet(s)
    PROVE  /\ Append(s, h) \in Seq(S) /\ IsInjective(Append(s, h))
           /\ ToSet(Append(s, h)) = ToSet(s) \cup {h}
<1>1. Len(s) \in Nat /\ DOMAIN s = 1 .. Len(s)
  BY LenProperties
<1> DEFINE t == Append(s, h)
<1>2. /\ t \in Seq(S) /\ DOMAIN t = 1 .. Len(s) + 1
      /\ \A i \in 1 .. Len(s) : t[i] = s[i]
      /\ t[Len(s) + 1] = h
  BY <1>1, AppendProperties, LenProperties
<1> HIDE DEF t
<1>3. \A i \in 1 .. Len(s) : t[i] # h
  BY <1>1, <1>2 DEF ToSet
<1>4. IsInjective(t)
  BY <1>1, <1>2, <1>3 DEF IsInjective
<1>5. ToSet(t) = ToSet(s) \cup {h}
  BY <1>1, <1>2 DEF ToSet
<1> QED  BY <1>2, <1>4, <1>5 DEF t

\* The cached hashes are finitely many.
LEMMA CachedFinite == Types => IsFiniteSet(Cached) /\ Cardinality(Cached) \in Nat
<1> SUFFICES ASSUME Types  PROVE IsFiniteSet(Cached) /\ Cardinality(Cached) \in Nat
  OBVIOUS
<1>1. Len(entries) \in Nat /\ entries \in [1 .. Len(entries) -> Hashes]
  BY LenProperties DEF Types
<1>2. IsFiniteSet(1 .. Len(entries))
  BY <1>1, FS_Interval
<1>3. Cached = {entries[i] : i \in 1 .. Len(entries)}
  BY <1>1 DEF Cached, ToSet
<1>4. entries \in Surjection(1 .. Len(entries), Cached)
  BY <1>1, <1>3 DEF Surjection
<1>5. IsFiniteSet(Cached)
  BY <1>2, <1>4, FS_Surjection
<1> QED  BY <1>5, FS_CardinalityType

\* Delete takes away its key only, and remembers it.
LEMMA Deleted ==
    ASSUME Types, NEW h, Delete(h)
    PROVE  /\ entries' \in Seq(Hashes) /\ IsInjective(entries')
           /\ Cached' = Cached \ {h}
           /\ Cached' \cup lost' = Cached \cup lost /\ lost' \subseteq Hashes
           /\ age' \in [Hashes -> 0 .. TTL + 1]
<1>1. entries' \in Seq(Hashes) /\ IsInjective(entries') /\ Cached' = Cached \ {h}
  BY Removed DEF Types, Delete, Cached
<1>2. Cached \subseteq Hashes
  BY LenProperties, ElementOfSeq DEF Types, Cached, ToSet
<1> QED  BY <1>1, <1>2, CacheAssumption DEF Delete, Types

\* A cache that is no larger than before is not too large now, if those that
\* were evicting still are.
LEMMA NotLarger ==
    ASSUME IInv, Cached' \subseteq Cached,
           \A r \in Requests : pc[r] \in Evicting => pc'[r] \in Evicting
    PROVE  SizeBounded'
<1>1. Cardinality(Cached') \in Nat /\ Cardinality(Cached') <= Cardinality(Cached)
  BY CachedFinite, FS_Subset, FS_CardinalityType DEF IInv
<1> QED  BY <1>1, CachedFinite, CacheAssumption DEF IInv, SizeBounded, Evicting

------------------------------------------------------------------------------
(* The steps *)

LEMMA Initially == Init => IInv
<1> SUFFICES ASSUME Init  PROVE IInv
  OBVIOUS
<1>1. Cached = {} /\ entries \in Seq(Hashes) /\ IsInjective(entries)
  BY EmptySeq DEF Init, Cached, ToSet, IsInjective
<1>2. ~(Cardinality(Cached) > MaxSize)
  BY <1>1, FS_EmptySet, CacheAssumption
<1> QED  BY <1>1, <1>2, CacheAssumption DEF Init, IInv, Types, CallInv, SizeBounded, Stored

\* A call returns.
LEMMA Answering ==
    ASSUME IInv, NEW r \in Requests, pc[r] \in Leading \ Evicting, NEW answer \in Answers,
           Answer(r, answer), UNCHANGED <<cache, request, victim, doomed>>
    PROVE  IInv'
<1>1. hash[r] \in Hashes
  BY DEF IInv, Types, CallInv
<1>2. Types'
  BY <1>1 DEF IInv, Types, Answer, Evicting
<1>3. CallInv'
  BY <1>1 DEF IInv, Types, CallInv, Answer, Evicting, Stored, Cached
<1>4. SizeBounded'
  BY NotLarger DEF Answer, IInv, Types, Evicting, Cached
<1> QED  BY <1>2, <1>3, <1>4 DEF IInv

\* A leader goes on, without the cache.
LEMMA GoingOn ==
    ASSUME IInv, NEW r \in Requests, pc[r] \in Leading, NEW loc \in Leading,
           Goto(r, loc), UNCHANGED <<cache, flight, request, doomed>>,
           victim' \in [Requests -> Hashes \cup {None}],
           loc \in Stored => pc[r] \in Stored \/ ctx[r] = "ended",
           pc[r] \in Evicting => loc \in Evicting \/ ~(Cardinality(Cached) > MaxSize)
    PROVE  IInv'
<1>1. Types'
  BY DEF IInv, Types
<1>2. CallInv'
  BY DEF IInv, Types, CallInv, Cached
<1>3. SizeBounded'
  BY DEF IInv, Types, SizeBounded, Cached, Evicting
<1> QED  BY <1>1, <1>2, <1>3 DEF IInv

LEMMA LeadStep ==
    ASSUME IInv, NEW r \in Requests, Lead(r)
    PROVE  IInv'
<1> USE DEF Evicting, Stored
<1>0. victim \in [Requests -> Hashes \cup {None}] /\ hash[r] \in Hashes \cup {None}
  BY DEF IInv, Types
<1>1. CASE Get(r)
  <2>1. CASE Fresh(hash[r])    BY <1>1, <2>1, Answering DEF Get
  <2>2. CASE ~Fresh(hash[r])   BY <1>0, <1>1, <2>2, GoingOn DEF Get
  <2> QED  BY <2>1, <2>2
<1>2. CASE GetTorrentErr(r)    BY <1>2, Answering DEF GetTorrentErr
<1>3. CASE GetTorrent(r)       BY <1>0, <1>3, GoingOn DEF GetTorrent
<1>4. CASE CtxDone(r)          BY <1>0, <1>4, GoingOn DEF CtxDone
<1>5. CASE Final(r)
  <2>1. PICK answer \in Answers : Answer(r, answer)
    BY <1>5 DEF Final
  <2> QED  BY <1>5, <2>1, Answering DEF Final
<1>6. CASE EvictCount(r)
  <2>1. PICK loc \in {"final", "oldest"} :
          Goto(r, loc) /\ (loc = "final" => Cardinality(Cached) <= MaxSize)
    BY <1>6 DEF EvictCount
  <2>2. loc = "oldest" \/ ~(Cardinality(Cached) > MaxSize)
    BY <2>1, CachedFinite, CacheAssumption DEF IInv
  <2> QED  BY <1>0, <1>6, <2>1, <2>2, GoingOn DEF EvictCount
<1>7. CASE EvictOldest(r)
  <2>1. entries = <<>> \/ Head(entries) \in Hashes
    BY HeadTailProperties DEF IInv, Types
  <2>2. victim' \in [Requests -> Hashes \cup {None}]
    BY <1>0, <1>7, <2>1 DEF EvictOldest
  <2> QED  BY <1>7, <2>2, GoingOn DEF EvictOldest
<1>8. CASE EvictDelete(r)
  <2>1. /\ entries' \in Seq(Hashes) /\ IsInjective(entries')
        /\ Cached' \subseteq Cached /\ Cached' \cup lost' = Cached \cup lost
        /\ lost' \subseteq Hashes /\ age' \in [Hashes -> 0 .. TTL + 1]
    BY <1>8, Deleted DEF EvictDelete, IInv
  <2>2. Types'
    BY <1>8, <2>1 DEF EvictDelete, IInv, Types
  <2>3. CallInv'
    BY <1>8, <2>1 DEF EvictDelete, IInv, Types, CallInv
  <2>4. SizeBounded'
    BY <1>8, <2>1, NotLarger DEF EvictDelete, IInv, Types
  <2> QED  BY <2>2, <2>3, <2>4 DEF IInv
<1> QED
  BY <1>1, <1>2, <1>3, <1>4, <1>5, <1>6, <1>7, <1>8 DEF Lead

\* The entry is stored: the leader is the one that evicts.
LEMMA GotInfoStep ==
    ASSUME IInv, NEW r \in Requests, GotInfo(r)
    PROVE  IInv'
<1> DEFINE h == hash[r]
<1>1. h \in Hashes
  BY DEF IInv, CallInv, GotInfo
<1>2. /\ RemoveFirst(entries, h) \in Seq(Hashes) /\ IsInjective(RemoveFirst(entries, h))
      /\ ToSet(RemoveFirst(entries, h)) = Cached \ {h}
  BY Removed DEF IInv, Types, Cached
<1>3. /\ entries' \in Seq(Hashes) /\ IsInjective(entries')
      /\ Cached' = Cached \cup {h}
  <2>1. h \notin ToSet(RemoveFirst(entries, h)) /\ entries' = Append(RemoveFirst(entries, h), h)
    BY <1>2 DEF GotInfo
  <2> QED  BY <1>1, <1>2, <2>1, Appended DEF Cached
<1>4. Types'
  BY <1>1, <1>3, CacheAssumption DEF GotInfo, IInv, Types
<1>5. CallInv'
  BY <1>1, <1>3 DEF GotInfo, IInv, Types, CallInv, Stored
<1>6. SizeBounded'
  BY DEF GotInfo, IInv, Types, SizeBounded
<1> QED  BY <1>4, <1>5, <1>6 DEF IInv

\* Arrivals, ends of contexts, the cleanup and the clock.
LEMMA OtherStep ==
    ASSUME IInv,
           \/ \E r \in Requests : CtxEnds(r) \/ \E h \in Hashes : Arrive(r, h)
           \/ \E h \in Hashes : CleanupFind(h)
           \/ CleanupDelete \/ Tick
    PROVE  IInv'
<1>1. ASSUME NEW r \in Requests, NEW h \in Hashes, Arrive(r, h)  PROVE IInv'
  <2>1. Types'
    BY <1>1 DEF Arrive, IInv, Types
  <2>2. CallInv'
    <3>1. \A q \in Requests : pc'[q] # "idle" => hash'[q] \in Hashes
      BY <1>1 DEF Arrive, IInv, Types, CallInv
    <3>2. \A g \in Hashes :
            flight'[g] # None => pc'[flight'[g]] \in Leading /\ hash'[flight'[g]] = g
      <4>1. \A g \in Hashes : flight[g] # r
        <5>1. pc[r] = "idle" /\ r # None
          BY <1>1, CacheAssumption DEF Arrive
        <5>2. \A g \in Hashes : flight[g] # None => pc[flight[g]] \in Leading
          BY DEF IInv, CallInv
        <5> QED  BY <5>1, <5>2
      <4>2. ASSUME NEW g \in Hashes, flight'[g] # None
            PROVE  pc'[flight'[g]] \in Leading /\ hash'[flight'[g]] = g
        <5>1. /\ flight \in [Hashes -> Requests \cup {None}]
              /\ pc \in [Requests -> Leading \cup Answers \cup {"idle", "wait"}]
              /\ hash' = [hash EXCEPT ![r] = h] /\ hash \in [Requests -> Hashes \cup {None}]
          BY <1>1 DEF Arrive, IInv, Types
        <5>2. CASE g = h /\ flight[h] = None
          <6>1. flight'[g] = r /\ pc'[r] = "get" /\ hash'[r] = h
            BY <1>1, <5>1, <5>2 DEF Arrive
          <6> QED  BY <5>2, <6>1
        <5>3. CASE ~ (g = h /\ flight[h] = None)
          <6>1. flight'[g] = flight[g]
            BY <1>1, <5>1, <5>3 DEF Arrive
          <6>2. flight[g] \in Requests /\ flight[g] # r
            BY <4>1, <4>2, <5>1, <6>1
          <6>3. pc[flight[g]] \in Leading /\ hash[flight[g]] = g
            BY <6>2, CacheAssumption DEF IInv, CallInv
          <6>4. \A q \in Requests : q # r => pc'[q] = pc[q] /\ hash'[q] = hash[q]
            BY <1>1, <5>1 DEF Arrive
          <6> QED  BY <6>1, <6>2, <6>3, <6>4
        <5> QED  BY <5>2, <5>3
      <4> QED  BY <4>2
    <3>3. Cached' = Cached /\ lost' = lost /\ ctx' = ctx
      BY <1>1 DEF Arrive, Cached
    <3>4. \A q \in Requests :
            pc'[q] \in Stored => pc[q] = pc'[q] /\ hash'[q] = hash[q]
      BY <1>1 DEF Arrive, IInv, Types, Stored
    <3> QED  BY <3>1, <3>2, <3>3, <3>4 DEF IInv, CallInv
  <2>3. SizeBounded'
    BY <1>1, NotLarger DEF Arrive, IInv, Types, Cached, Evicting
  <2> QED  BY <2>1, <2>2, <2>3 DEF IInv
<1>2. ASSUME NEW r \in Requests, CtxEnds(r)  PROVE IInv'
  BY <1>2, NotLarger DEF CtxEnds, IInv, Types, CallInv, Cached
<1>3. ASSUME NEW h \in Hashes, CleanupFind(h)  PROVE IInv'
  BY <1>3, NotLarger DEF CleanupFind, IInv, Types, CallInv, Cached
<1>4. CASE CleanupDelete
  <2>1. /\ entries' \in Seq(Hashes) /\ IsInjective(entries')
        /\ Cached' \subseteq Cached /\ Cached' \cup lost' = Cached \cup lost
        /\ lost' \subseteq Hashes /\ age' \in [Hashes -> 0 .. TTL + 1]
    BY <1>4, Deleted DEF CleanupDelete, IInv
  <2>2. SizeBounded'
    BY <1>4, <2>1, NotLarger DEF CleanupDelete
  <2> QED  BY <1>4, <2>1, <2>2 DEF CleanupDelete, IInv, Types, CallInv
<1>5. CASE Tick
  <2>1. age' \in [Hashes -> 0 .. TTL + 1]
    BY <1>5, CacheAssumption DEF Tick, IInv, Types
  <2> QED  BY <1>5, <2>1, NotLarger DEF Tick, IInv, Types, CallInv, Cached
<1> QED  BY <1>1, <1>2, <1>3, <1>4, <1>5

------------------------------------------------------------------------------
(* The invariant, and what follows from it *)

LEMMA Unchanged == IInv /\ UNCHANGED vars => IInv'
BY DEF vars, IInv, Types, CallInv, SizeBounded, Cached

\* The invariant holds.
THEOREM Invariance == Spec => []IInv
<1>1. IInv /\ Next => IInv'
  BY LeadStep, GotInfoStep, OtherStep DEF Next
<1> QED  BY Initially, Unchanged, <1>1, PTL DEF Spec

\* Every variable keeps its type, and a call has a leader that is still at it
\* (GetTorrentInfo, singleflight).
THEOREM TypeCorrect == Spec => []TypeOK
<1>1. IInv => TypeOK
  BY LenProperties, ElementOfSeq DEF IInv, Types, CallInv, TypeOK, Cached, ToSet
<1> QED  BY Invariance, <1>1, PTL

\* However many handlers count, search and delete at once, the cache is too
\* large only while one of them is at evicting (evictIfNeeded).
THEOREM SizeCorrect == Spec => []SizeBounded
BY Invariance, PTL DEF IInv

\* A call that answers with nothing lost its context, or its entry (Set, Get,
\* evictIfNeeded, cleanupRoutine).
THEOREM EmptyCaused == Spec => EmptyHasCause
<1> DEFINE Caused ==
      \A r \in Requests :
         pc[r] \in Leading /\ pc'[r] = "empty" =>
           ctx[r] = "ended" \/ hash[r] \in lost \/ age[hash[r]] >= TTL
<1>1. IInv /\ [Next]_vars => [Caused]_vars
  <2> SUFFICES ASSUME IInv, Next, NEW r \in Requests, pc[r] \in Leading, pc'[r] = "empty"
               PROVE  ctx[r] = "ended" \/ hash[r] \in lost \/ age[hash[r]] >= TTL
    BY DEF vars
  <2>1. Final(r) /\ ~Fresh(hash[r])
    <3>1. pc \in [Requests -> Leading \cup Answers \cup {"idle", "wait"}] /\ pc[r] # "empty"
      BY DEF IInv, Types
    <3>2. PICK q \in Requests : Lead(q) \/ GotInfo(q) \/ \E h \in Hashes : Arrive(q, h)
      BY <3>1 DEF Next, CtxEnds, CleanupFind, CleanupDelete, Tick
    <3>3. CASE GotInfo(q) \/ \E h \in Hashes : Arrive(q, h)
      BY <3>1, <3>3 DEF GotInfo, Arrive
    <3>4. CASE GetTorrent(q) \/ CtxDone(q) \/ EvictCount(q) \/ EvictOldest(q) \/ EvictDelete(q)
      BY <3>1, <3>4 DEF GetTorrent, CtxDone, EvictCount, EvictOldest, EvictDelete
    <3>5. CASE Get(q) \/ GetTorrentErr(q)
      BY <3>1, <3>5 DEF Get, GetTorrentErr, Answer
    <3>6. CASE Final(q)
      <4>1. q = r
        BY <3>1, <3>6 DEF Final, Answer
      <4>2. ~Fresh(hash[r])
        BY <3>1, <3>6, <4>1 DEF Final, Answer
      <4> QED  BY <3>6, <4>1, <4>2
    <3> QED  BY <3>2, <3>3, <3>4, <3>5, <3>6 DEF Lead
  <2>2. hash[r] \in Hashes /\ (ctx[r] = "ended" \/ hash[r] \in Cached \cup lost)
    BY <2>1 DEF Final, IInv, CallInv, Stored
  <2> QED  BY <2>1, <2>2, CacheAssumption DEF Fresh, IInv, Types
<1> QED  BY Invariance, <1>1, PTL DEF Spec, EmptyHasCause

------------------------------------------------------------------------------
(* One call for all *)

\* Whoever leads a call leads the call for its torrent, and whoever waits has a
\* call to wait for.
Calls ==
    /\ \A r \in Requests : pc[r] \in Leading => flight[hash[r]] = r
    /\ \A r \in Requests : pc[r] = "wait" => flight[hash[r]] # None

\* A request that stops waiting gets what its leader gets, in the same step.
Together ==
    \A r \in Requests :
      pc[r] = "wait" /\ pc'[r] # "wait" =>
        pc'[r] \in Answers /\ pc'[flight[hash[r]]] = pc'[r]

LEMMA CallGoesOn ==
    ASSUME IInv, Calls, UNCHANGED <<flight, hash>>,
           \A q \in Requests : pc'[q] \in Leading => pc[q] \in Leading,
           \A q \in Requests : pc'[q] = "wait" <=> pc[q] = "wait"
    PROVE  Calls' /\ Together
BY DEF Calls, Together

LEMMA CallReturns ==
    ASSUME IInv, Calls, NEW r \in Requests, pc[r] \in Leading, NEW answer \in Answers,
           Answer(r, answer), UNCHANGED hash
    PROVE  Calls' /\ Together
<1>1. /\ hash[r] \in Hashes /\ flight[hash[r]] = r /\ r # None
      /\ \A q \in Requests : pc[q] \in Leading \cup {"wait"} => hash[q] \in Hashes
  BY CacheAssumption DEF IInv, CallInv, Calls
<1>2. /\ \A h \in Hashes : flight'[h] = IF h = hash[r] THEN None ELSE flight[h]
      /\ \A q \in Requests : pc'[q] = IF q = r \/ (pc[q] = "wait" /\ hash[q] = hash[r])
                                     THEN answer ELSE pc[q]
  BY DEF Answer, IInv, Types
<1>3. ASSUME NEW q \in Requests, pc'[q] \in Leading  PROVE flight'[hash'[q]] = q
  <2>1. pc[q] \in Leading /\ q # r /\ flight[hash[q]] = q /\ hash[q] \in Hashes
    BY <1>1, <1>2, <1>3 DEF Calls
  <2> QED  BY <1>1, <1>2, <2>1
<1>4. ASSUME NEW q \in Requests, pc'[q] = "wait"  PROVE flight'[hash'[q]] # None
  <2>1. pc[q] = "wait" /\ hash[q] # hash[r] /\ hash[q] \in Hashes
    BY <1>1, <1>2, <1>4
  <2> QED  BY <1>2, <2>1 DEF Calls
<1>5. Together
  BY <1>1, <1>2 DEF Together
<1> QED  BY <1>3, <1>4, <1>5 DEF Calls

LEMMA CallsStep ==
    ASSUME IInv, Calls, [Next]_vars
    PROVE  Calls' /\ Together
<1>0. pc \in [Requests -> Leading \cup Answers \cup {"idle", "wait"}]
  BY DEF IInv, Types
<1>1. ASSUME NEW r \in Requests, NEW h \in Hashes, Arrive(r, h)  PROVE Calls' /\ Together
  <2>1. /\ pc[r] = "idle" /\ hash'[r] = h
        /\ \A q \in Requests \ {r} : pc'[q] = pc[q] /\ hash'[q] = hash[q]
    BY <1>1 DEF Arrive, IInv, Types
  <2>2. \A q \in Requests : pc[q] # "idle" => hash[q] \in Hashes
    BY DEF IInv, CallInv
  <2>3. Together
    BY <2>1 DEF Together
  <2>4. CASE flight[h] = None
    <3>1. pc'[r] = "get" /\ \A g \in Hashes : flight'[g] = IF g = h THEN r ELSE flight[g]
      BY <1>1, <2>4 DEF Arrive, IInv, Types
    <3>2. \A q \in Requests : pc[q] \in Leading => hash[q] # h
      BY <2>4, CacheAssumption DEF Calls
    <3>3. r # None
      BY CacheAssumption
    <3> QED  BY <2>1, <2>2, <2>3, <3>1, <3>2, <3>3 DEF Calls
  <2>5. CASE flight[h] # None
    <3>1. pc'[r] = "wait" /\ flight' = flight
      BY <1>1, <2>5 DEF Arrive, IInv, Types
    <3> QED  BY <2>1, <2>3, <2>5, <3>1 DEF Calls
  <2> QED  BY <2>4, <2>5
<1>2. ASSUME NEW r \in Requests,
             NEW answer \in Answers, pc[r] \in Leading, Answer(r, answer), UNCHANGED hash
      PROVE  Calls' /\ Together
  BY <1>2, CallReturns
<1>3. ASSUME NEW r \in Requests, NEW loc \in Leading,
             pc[r] \in Leading, Goto(r, loc), UNCHANGED <<flight, hash>>
      PROVE  Calls' /\ Together
  BY <1>0, <1>3, CallGoesOn
<1>4. ASSUME UNCHANGED <<flight, hash, pc>>  PROVE Calls' /\ Together
  BY <1>4, CallGoesOn
<1>5. ASSUME NEW r \in Requests, Lead(r) \/ GotInfo(r)  PROVE Calls' /\ Together
  <2>1. CASE Get(r)            BY <1>2, <1>3, <2>1 DEF Get
  <2>2. CASE GetTorrentErr(r)  BY <1>2, <2>2 DEF GetTorrentErr
  <2>3. CASE GetTorrent(r)     BY <1>3, <2>3 DEF GetTorrent
  <2>4. CASE CtxDone(r)        BY <1>3, <2>4 DEF CtxDone
  <2>5. CASE Final(r)          BY <1>2, <2>5 DEF Final
  <2>6. CASE EvictCount(r)     BY <1>3, <2>6 DEF EvictCount
  <2>7. CASE EvictOldest(r)    BY <1>3, <2>7 DEF EvictOldest
  <2>8. CASE EvictDelete(r)    BY <1>3, <2>8 DEF EvictDelete
  <2>9. CASE GotInfo(r)        BY <1>3, <2>9 DEF GotInfo
  <2> QED  BY <1>5, <2>1, <2>2, <2>3, <2>4, <2>5, <2>6, <2>7, <2>8, <2>9 DEF Lead
<1>6. CASE \/ \E r \in Requests : CtxEnds(r)
           \/ \E h \in Hashes : CleanupFind(h)
           \/ CleanupDelete \/ Tick \/ UNCHANGED vars
  BY <1>4, <1>6 DEF CtxEnds, CleanupFind, CleanupDelete, Tick, vars
<1> QED  BY <1>1, <1>5, <1>6 DEF Next

\* There is one call for a torrent at a time, whoever waits for it has a leader
\* that is still at it, and gets the leader's answer when that has it, however
\* the leader comes to one: nobody waits for a call that is over (singleflight,
\* GetTorrentInfo).
THEOREM CallShared ==
    Spec => /\ []Calls
            /\ [](\A r, q \in Requests :
                    pc[r] \in Leading /\ pc[q] \in Leading /\ hash[r] = hash[q] => r = q)
            /\ [](\A r \in Requests :
                    pc[r] = "wait" => pc[flight[hash[r]]] \in Leading)
            /\ [][Together]_vars
<1>1. Init => Calls
  BY DEF Init, Calls
<1>2. IInv /\ Calls /\ [Next]_vars => Calls' /\ [Together]_vars
  BY CallsStep
<1>3. IInv /\ Calls =>
        /\ \A r, q \in Requests :
             pc[r] \in Leading /\ pc[q] \in Leading /\ hash[r] = hash[q] => r = q
        /\ \A r \in Requests : pc[r] = "wait" => pc[flight[hash[r]]] \in Leading
  BY DEF IInv, CallInv, Calls
<1> QED  BY Invariance, <1>1, <1>2, <1>3, PTL DEF Spec
==============================================================================
