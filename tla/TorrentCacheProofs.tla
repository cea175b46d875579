-------------------------- MODULE TorrentCacheProofs --------------------------
(***************************************************************************)
(* TorrentCache for any number of clients, keys and shards, any maxSize    *)
(* and any way keys are spread over the shards and lead to one another:    *)
(* what the map and the list of a shard have in common, the order of the   *)
(* list, and its length.                                                   *)
(***************************************************************************)
EXTENDS TorrentCache, FiniteSetTheorems, SequenceTheorems, TLAPS

------------------------------------------------------------------------------
(* Picking entries of a list *)

\* The positions I come in their order, each once: their ranks are as many
\* different numbers as there are positions.
LEMMA Ranks ==
    ASSUME NEW m \in Nat, NEW I \in SUBSET (1 .. m)
    PROVE  /\ IsFiniteSet(I) /\ Cardinality(I) \in 0 .. m
           /\ \A n \in 1 .. Cardinality(I) : Nth(I, n) \in I
           /\ \A i \in I : \E n \in 1 .. Cardinality(I) : Nth(I, n) = i
           /\ \A n, o \in 1 .. Cardinality(I) : n < o => Nth(I, n) < Nth(I, o)
<1> DEFINE upto(i) == {j \in I : j <= i}
           r == [i \in I |-> Cardinality(upto(i))]
           size == Cardinality(I)
<1>1. IsFiniteSet(I) /\ size \in 0 .. m
  <2>1. IsFiniteSet(1 .. m) /\ Cardinality(1 .. m) = m
    BY FS_Interval
  <2>2. IsFiniteSet(I) /\ size <= m
    BY <2>1, FS_Subset
  <2>3. size \in Nat
    BY <2>2, FS_CardinalityType
  <2> HIDE DEF size
  <2> QED  BY <2>2, <2>3
<1>0. \A i \in I : i \in Nat
  OBVIOUS
<1>2. ASSUME NEW i \in I
      PROVE  IsFiniteSet(upto(i)) /\ Cardinality(upto(i)) \in 1 .. size
  <2>1. IsFiniteSet(upto(i)) /\ Cardinality(upto(i)) <= size
    BY <1>1, FS_Subset
  <2>2. upto(i) # {}
    BY <1>2
  <2>3. Cardinality(upto(i)) \in Nat /\ Cardinality(upto(i)) # 0
    BY <2>1, <2>2, FS_CardinalityType, FS_EmptySet
  <2> QED  BY <1>1, <2>1, <2>3
<1>3. ASSUME NEW i \in I, NEW j \in I, i < j
      PROVE  Cardinality(upto(i)) < Cardinality(upto(j))
  <2>1. upto(i) \subseteq upto(j) /\ j \in upto(j) /\ j \notin upto(i)
    <3>1. i \in Nat /\ j \in Nat /\ i < j /\ ~(j <= i) /\ j <= j
      BY <1>0, <1>3
    <3>2. \A x \in I : x <= i => x <= j
      BY <1>0, <3>1
    <3> QED  BY <3>1, <3>2
  <2>2. /\ Cardinality(upto(i)) <= Cardinality(upto(j))
        /\ Cardinality(upto(i)) # Cardinality(upto(j))
    BY <1>2, <2>1, FS_Subset
  <2>3. Cardinality(upto(i)) \in 1 .. size /\ Cardinality(upto(j)) \in 1 .. size
    BY <1>2
  <2> QED  BY <2>2, <2>3
<1>4. \A i, j \in I : Cardinality(upto(i)) = Cardinality(upto(j)) => i = j
  <2>1. \A i, j \in I : i = j \/ i < j \/ j < i
    OBVIOUS
  <2>2. \A i \in I : Cardinality(upto(i)) \in 1 .. size
    BY <1>2
  <2> HIDE DEF upto
  <2> QED  BY <1>3, <2>1, <2>2
<1>5. r \in Surjection(I, 1 .. size)
  <2>1. r \in Injection(I, 1 .. size)
    <3>1. r \in [I -> 1 .. size]
      BY <1>2
    <3>2. \A i, j \in I : r[i] = r[j] => i = j
      BY <1>4
    <3> QED  BY <3>1, <3>2 DEF Injection, IsInjective
  <2>2. IsFiniteSet(1 .. size) /\ Cardinality(1 .. size) = size
    BY <1>1, FS_Interval
  <2> HIDE DEF r
  <2> QED  BY <2>1, <2>2, FS_Injection
<1>6. \A n \in 1 .. size : \E i \in I : Cardinality(upto(i)) = n
  BY <1>5 DEF Surjection
<1>7. ASSUME NEW n \in 1 .. size
      PROVE  Nth(I, n) \in I /\ Cardinality(upto(Nth(I, n))) = n
  <2>1. \E i \in I : Cardinality(upto(i)) = n
    BY <1>6
  <2> QED  BY <2>1 DEF Nth
<1>8. ASSUME NEW i \in I  PROVE \E n \in 1 .. size : Nth(I, n) = i
  <2>1. Cardinality(upto(i)) \in 1 .. size
    BY <1>2
  <2> HIDE DEF upto
  <2> QED  BY <1>4, <1>7, <2>1
<1>9. ASSUME NEW n \in 1 .. size, NEW o \in 1 .. size, n < o
      PROVE  Nth(I, n) < Nth(I, o)
  <2> DEFINE a == Nth(I, n)  b == Nth(I, o)
  <2>1. a \in I /\ b \in I /\ Cardinality(upto(a)) = n /\ Cardinality(upto(b)) = o
    BY <1>7
  <2>2. a \in Nat /\ b \in Nat
    BY <1>0, <2>1
  <2> HIDE DEF a, b, upto
  <2>3. ~(b < a) /\ a # b
    BY <1>3, <1>9, <2>1
  <2> QED  BY <2>2, <2>3 DEF a, b
<1> QED  BY <1>1, <1>7, <1>8, <1>9

\* The entries picked are entries of the list, in its order.
LEMMA Picks ==
    ASSUME NEW S, NEW l \in Seq(S), NEW I \in SUBSET DOMAIN l
    PROVE  /\ Picked(l, I) \in Seq(S) /\ Len(Picked(l, I)) = Cardinality(I)
           /\ Cardinality(I) \in 0 .. Len(l)
           /\ I # DOMAIN l => Cardinality(I) # Len(l)
           /\ \A n \in 1 .. Cardinality(I) :
                Nth(I, n) \in I /\ Picked(l, I)[n] = l[Nth(I, n)]
           /\ \A i \in I : \E n \in 1 .. Cardinality(I) : Picked(l, I)[n] = l[i]
           /\ \A n, o \in 1 .. Cardinality(I) : n < o => Nth(I, n) < Nth(I, o)
<1>1. Len(l) \in Nat /\ DOMAIN l = 1 .. Len(l) /\ \A i \in 1 .. Len(l) : l[i] \in S
  BY LenProperties, ElementOfSeq
<1>2. /\ IsFiniteSet(I) /\ Cardinality(I) \in 0 .. Len(l)
      /\ \A n \in 1 .. Cardinality(I) : Nth(I, n) \in I
      /\ \A i \in I : \E n \in 1 .. Cardinality(I) : Nth(I, n) = i
      /\ \A n, o \in 1 .. Cardinality(I) : n < o => Nth(I, n) < Nth(I, o)
  BY <1>1, Ranks
<1>3. I # DOMAIN l => Cardinality(I) # Len(l)
  <2>1. IsFiniteSet(1 .. Len(l)) /\ Cardinality(1 .. Len(l)) = Len(l)
    BY <1>1, FS_Interval
  <2> QED  BY <1>1, <2>1, FS_Subset
<1> DEFINE size == Cardinality(I)
<1>4. /\ Picked(l, I) \in [1 .. size -> S] /\ size \in Nat
      /\ \A n \in 1 .. size : Picked(l, I)[n] = l[Nth(I, n)]
  BY <1>1, <1>2 DEF Picked
<1> HIDE DEF size
<1>5. Picked(l, I) \in Seq(S) /\ Len(Picked(l, I)) = size
  BY <1>4
<1> QED  BY <1>2, <1>3, <1>4, <1>5 DEF size

------------------------------------------------------------------------------
(* The invariant *)

Entry == [key : Keys, age : 0 .. TTL + 1, filed : BOOLEAN, due : BOOLEAN]
Share == IF PerShard = 0 THEN 1 ELSE PerShard

\* What the list of shard s is: its own keys, the clean ones once and in the
\* map, the younger entries first, and no more than its share.
ListOf(l, s) ==
    /\ l \in Seq(Entry) /\ Len(l) <= Share
    /\ \A i \in 1 .. Len(l) : ShardOf[l[i].key] = s /\ (Clean(l[i].key) => l[i].filed)
    /\ \A i, j \in 1 .. Len(l) :
         i < j => l[i].age <= l[j].age /\ (l[i].key = l[j].key => ~Clean(l[i].key))

\* A clean key is never in the map alone.
StraysOK == stray \subseteq Entry /\ \A e \in stray : ~Clean(e.key)

\* Whoever reads a key has found it, and nobody takes it away meanwhile.
Readers == \A k \in Keys : (\E c \in Clients : reading[c] = k) => InMap(k)

Places ==
    /\ reading \in [Clients -> Keys \cup {NoKey}]
    /\ torn \subseteq Shards
    /\ at \in 0 .. ShardCount /\ waiting \in BOOLEAN /\ (waiting => at # 0)

Lists == list \in [Shards -> Seq(Entry)] /\ \A s \in Shards : ListOf(list[s], s)

IInv == Places /\ Lists /\ StraysOK /\ Readers

LEMMA Constants ==
    /\ ShardCount \in Nat \ {0} /\ TTL \in Nat /\ PerShard \in Nat /\ Share \in Nat \ {0}
    /\ NoKey \notin Keys
    /\ \A k \in Keys : ShardOf[k] \in Shards /\ Canonical[k] \in Keys /\ New(k) \in Entry
BY KeysAssumption, SizesAssumption DEF Shards, PerShard, Share, New, Entry

LEMMA EntriesOf ==
    ASSUME NEW s, NEW l, ListOf(l, s)
    PROVE  /\ Len(l) \in Nat /\ DOMAIN l = 1 .. Len(l)
           /\ \A i \in 1 .. Len(l) :
                /\ l[i] \in Entry /\ l[i].key \in Keys /\ l[i].filed \in BOOLEAN
                /\ l[i].age \in 0 .. TTL + 1 /\ l[i].age \in Nat
<1>1. /\ Len(l) \in Nat /\ DOMAIN l = 1 .. Len(l)
      /\ \A i \in 1 .. Len(l) : l[i] \in Entry
  BY LenProperties, ElementOfSeq DEF ListOf
<1>2. ASSUME NEW e \in Entry
      PROVE  e.key \in Keys /\ e.filed \in BOOLEAN /\ e.age \in 0 .. TTL + 1 /\ e.age \in Nat
  BY Constants DEF Entry
<1> QED  BY <1>1, <1>2

LEMMA Implied == IInv => IndexAgrees /\ LruOrder /\ ShardBounded
<1> SUFFICES ASSUME IInv  PROVE IndexAgrees /\ LruOrder /\ ShardBounded
  OBVIOUS
<1>1. \A s \in Shards : ListOf(list[s], s) /\ DOMAIN list[s] = 1 .. Len(list[s])
  BY EntriesOf DEF IInv, Lists
<1>2. LruOrder /\ ShardBounded
  BY <1>1 DEF LruOrder, ShardBounded, ListOf, Share
<1>3. ASSUME NEW k \in Keys, Clean(k)
      PROVE  LET l == list[ShardOf[k]]  mine == {i \in DOMAIN l : l[i].key = k} IN
             /\ Strays({k}) = {}
             /\ Cardinality(mine) <= 1 /\ \A i \in mine : l[i].filed
  <2> DEFINE l == list[ShardOf[k]]
             mine == {i \in DOMAIN l : l[i].key = k}
  <2>1. Strays({k}) = {}
    BY <1>3 DEF Strays, IInv, StraysOK
  <2>2. ListOf(l, ShardOf[k]) /\ DOMAIN l = 1 .. Len(l)
    BY <1>1, Constants
  <2>3. \A i \in mine : l[i].filed
    BY <1>3, <2>2 DEF ListOf
  <2>4. Cardinality(mine) <= 1
    <3>1. \A i, j \in mine : i = j
      <4>1. \A i, j \in mine : ~(i < j)
        BY <1>3, <2>2 DEF ListOf
      <4> QED  BY <2>2, <4>1, EntriesOf
    <3>2. CASE mine = {}
      BY <3>2, FS_EmptySet
    <3>3. ASSUME NEW i \in mine  PROVE Cardinality(mine) = 1
      <4>1. mine = {i}
        BY <3>1, <3>3
      <4> HIDE DEF mine
      <4> QED  BY <4>1, FS_Singleton
    <3> QED  BY <3>2, <3>3
  <2> QED  BY <2>1, <2>3, <2>4
<1>4. IndexAgrees
  BY <1>3 DEF IndexAgrees
<1> QED  BY <1>2, <1>4

LEMMA Initially == Init => IInv
<1> SUFFICES ASSUME Init  PROVE IInv
  OBVIOUS
<1>1. Places
  <2>1. 0 \in 0 .. ShardCount
    BY Constants
  <2> QED  BY <2>1 DEF Init, Places
<1>2. \A s \in Shards : ListOf(list[s], s)
  BY EmptySeq, Constants DEF Init, ListOf
<1>3. list \in [Shards -> Seq(Entry)]
  BY EmptySeq DEF Init
<1>4. StraysOK /\ Readers
  BY Constants DEF Init, StraysOK, Readers
<1> QED  BY <1>1, <1>2, <1>3, <1>4 DEF IInv, Lists

------------------------------------------------------------------------------
(* What the operations make of a list *)

\* Entries are taken out.
LEMMA Thinned ==
    ASSUME NEW s, NEW l, ListOf(l, s), NEW I \in SUBSET DOMAIN l
    PROVE  /\ ListOf(Picked(l, I), s)
           /\ I # DOMAIN l => Len(Picked(l, I)) < Len(l)
<1> DEFINE q == Picked(l, I)  size == Cardinality(I)
<1>1. Len(l) \in Nat /\ DOMAIN l = 1 .. Len(l) /\ l \in Seq(Entry) /\ Len(l) <= Share
  BY EntriesOf DEF ListOf
<1>2. /\ q \in Seq(Entry) /\ Len(q) = size /\ size \in 0 .. Len(l)
      /\ I # DOMAIN l => size # Len(l)
      /\ \A n \in 1 .. size : Nth(I, n) \in I /\ q[n] = l[Nth(I, n)]
      /\ \A n, o \in 1 .. size : n < o => Nth(I, n) < Nth(I, o)
  BY <1>1, Picks
<1> HIDE DEF q, size
<1>3. \A i \in 1 .. Len(q) : ShardOf[q[i].key] = s /\ (Clean(q[i].key) => q[i].filed)
  BY <1>1, <1>2 DEF ListOf
<1>4. \A i, j \in 1 .. Len(q) :
        i < j => q[i].age <= q[j].age /\ (q[i].key = q[j].key => ~Clean(q[i].key))
  BY <1>1, <1>2 DEF ListOf
<1>5. Len(q) <= Share /\ (I # DOMAIN l => Len(q) < Len(l))
  <2>1. Len(q) \in 0 .. Len(l)
    BY <1>2
  <2>2. I # DOMAIN l => Len(q) # Len(l)
    BY <1>2, Zenon
  <2> QED  BY <1>1, <2>1, <2>2, Constants
<1> QED  BY <1>2, <1>3, <1>4, <1>5 DEF ListOf, q

\* All but the last entry.
LEMMA Fronts ==
    ASSUME NEW S, NEW l \in Seq(S), Len(l) - 1 \in Nat
    PROVE  DOMAIN Front(l) = 1 .. Len(l) - 1
<1> DEFINE n == Len(l) - 1
<1>1. \A i \in 1 .. n : l[i] \in S
  <2>1. Len(l) \in Nat /\ \A i \in 1 .. Len(l) : l[i] \in S
    BY ElementOfSeq, LenProperties
  <2> QED  BY <2>1
<1>2. 1 \in Int /\ n \in Int /\ n \in Nat /\ Front(l) = SubSeq(l, 1, n)
  BY DEF Front
<1> HIDE DEF n
<1>3. /\ Front(l) \in Seq(S)
      /\ Len(Front(l)) = IF 1 <= n THEN n - 1 + 1 ELSE 0
  BY <1>1, <1>2, SubSeqProperties
<1>4. (IF 1 <= n THEN n - 1 + 1 ELSE 0) = n
  BY <1>2
<1>5. DOMAIN Front(l) = 1 .. n
  BY <1>3, <1>4, LenProperties
<1> QED  BY <1>5 DEF n

LEMMA Pushed ==
    ASSUME NEW l \in Seq(Entry), NEW k \in Keys
    PROVE  LET q == <<New(k)>> \o l IN
           /\ q \in Seq(Entry) /\ Len(q) = Len(l) + 1 /\ q[1] = New(k)
           /\ \A i \in 2 .. Len(l) + 1 : q[i] = l[i - 1] /\ i - 1 \in 1 .. Len(l)
<1> DEFINE one == <<New(k)>>
<1>1. one \in Seq(Entry) /\ Len(one) = 1 /\ one[1] = New(k) /\ Len(l) \in Nat
  BY Constants, LenProperties
<1> HIDE DEF one
<1> DEFINE q == one \o l
<1>2. /\ q \in Seq(Entry) /\ Len(q) = Len(one) + Len(l)
      /\ \A i \in 1 .. Len(one) + Len(l) :
           q[i] = IF i <= Len(one) THEN one[i] ELSE l[i - Len(one)]
  BY <1>1, ConcatProperties
<1> HIDE DEF q
<1>3. Len(q) = Len(l) + 1 /\ q[1] = New(k)
  BY <1>1, <1>2
<1>4. \A i \in 2 .. Len(l) + 1 : q[i] = l[i - 1] /\ i - 1 \in 1 .. Len(l)
  BY <1>1, <1>2
<1> QED  BY <1>2, <1>3, <1>4 DEF q, one

\* A new entry comes to the front: for a key that was not there, if it is clean,
\* and into a list with room for it.
LEMMA Fronted ==
    ASSUME NEW s, NEW l, ListOf(l, s), NEW k \in Keys, ShardOf[k] = s, Len(l) < Share,
           Clean(k) => \A i \in 1 .. Len(l) : l[i].key # k
    PROVE  ListOf(<<New(k)>> \o l, s)
<1> DEFINE q == <<New(k)>> \o l
<1>1. /\ Len(l) \in Nat /\ l \in Seq(Entry)
      /\ \A i \in 1 .. Len(l) : l[i].age \in Nat
  BY EntriesOf DEF ListOf
<1>2. /\ q \in Seq(Entry) /\ Len(q) = Len(l) + 1 /\ q[1] = New(k)
      /\ \A i \in 2 .. Len(l) + 1 : q[i] = l[i - 1] /\ i - 1 \in 1 .. Len(l)
  BY <1>1, Pushed
<1> HIDE DEF q
<1>3. q[1].key = k /\ q[1].filed /\ q[1].age = 0
  BY <1>2 DEF New
<1>4. \A i \in 1 .. Len(q) : i = 1 \/ i \in 2 .. Len(l) + 1
  BY <1>1, <1>2
<1>5. \A i \in 1 .. Len(q) : ShardOf[q[i].key] = s /\ (Clean(q[i].key) => q[i].filed)
  BY <1>2, <1>3, <1>4 DEF ListOf
<1>6. ASSUME NEW i \in 1 .. Len(q), NEW j \in 1 .. Len(q), i < j
      PROVE  q[i].age <= q[j].age /\ (q[i].key = q[j].key => ~Clean(q[i].key))
  <2>1. j \in 2 .. Len(l) + 1 /\ q[j] = l[j - 1] /\ j - 1 \in 1 .. Len(l)
    BY <1>1, <1>2, <1>6
  <2>2. CASE i = 1
    BY <1>1, <1>3, <2>1, <2>2
  <2>3. CASE i \in 2 .. Len(l) + 1
    <3>1. q[i] = l[i - 1] /\ i - 1 \in 1 .. Len(l) /\ i - 1 < j - 1
      BY <1>1, <1>2, <1>6, <2>3
    <3> QED  BY <2>1, <3>1 DEF ListOf
  <2> QED  BY <1>4, <2>2, <2>3
<1>7. Len(q) <= Share
  BY <1>1, <1>2, Constants
<1> QED  BY <1>2, <1>5, <1>6, <1>7 DEF ListOf, q

\* Entries change, but not their keys and not their order.
LEMMA Changed ==
    ASSUME NEW s, NEW l, ListOf(l, s), NEW q \in Seq(Entry), Len(q) <= Len(l),
           \A i \in 1 .. Len(q) : q[i].key = l[i].key /\ (Clean(l[i].key) => q[i].filed),
           \A i, j \in 1 .. Len(q) : i < j => q[i].age <= q[j].age
    PROVE  ListOf(q, s)
<1>1. Len(l) \in Nat /\ Len(q) \in Nat /\ Len(l) <= Share
  BY EntriesOf, LenProperties DEF ListOf
<1>2. \A i \in 1 .. Len(q) : i \in 1 .. Len(l)
  BY <1>1
<1> QED  BY <1>1, <1>2, Constants DEF ListOf

------------------------------------------------------------------------------
(* The operations *)

\* The list of shard s is replaced.
LEMMA Replaced ==
    ASSUME Lists, NEW s \in Shards, NEW q, ListOf(q, s), list' = [list EXCEPT ![s] = q]
    PROVE  /\ Lists' /\ list'[s] = q
           /\ \A t \in Shards : t # s => list'[t] = list[t]
BY DEF Lists, ListOf

\* An entry of another key stays where it was found, in the map and in the list.
LEMMA AccessStep ==
    ASSUME IInv, NEW k \in Keys, InMap(k), Access(k)
    PROVE  Lists' /\ StraysOK' /\ \A j \in Keys : InMap(j) => InMap(j)'
<1> DEFINE s == ShardOf[k]
           l == list[s]
           I == {i \in DOMAIN l : ~IsOf({k}, l[i])}
           q == Picked(l, I)
           new == <<New(k)>> \o q
<1>1. s \in Shards /\ ListOf(l, s) /\ Lists /\ StraysOK
  BY Constants DEF IInv, Lists
<1>2. Len(l) \in Nat /\ DOMAIN l = 1 .. Len(l) /\ l \in Seq(Entry) /\ Len(l) <= Share
  BY <1>1, EntriesOf DEF ListOf
<1>3. CASE Listed(k)
  <2>1. list' = [list EXCEPT ![s] = new] /\ stray' = stray
    BY <1>3 DEF Access, Out
  <2>2. ListOf(q, s) /\ Len(q) < Len(l)
    <3>1. I # DOMAIN l
      BY <1>3 DEF Listed
    <3>2. I \in SUBSET DOMAIN l
      OBVIOUS
    <3> HIDE DEF I
    <3> QED  BY <1>1, <3>1, <3>2, Thinned
  <2>3. /\ Len(q) \in Nat /\ q \in Seq(Entry)
        /\ \A n \in 1 .. Len(q) : \E i \in I : q[n] = l[i]
        /\ \A i \in I : \E n \in 1 .. Len(q) : q[n] = l[i]
    <3>1. I \in SUBSET DOMAIN l /\ l \in Seq(Entry)
      BY <1>2
    <3> HIDE DEF I, l
    <3>2. /\ q \in Seq(Entry) /\ Len(q) = Cardinality(I)
          /\ \A n \in 1 .. Cardinality(I) : Nth(I, n) \in I /\ q[n] = l[Nth(I, n)]
          /\ \A i \in I : \E n \in 1 .. Cardinality(I) : q[n] = l[i]
      BY <3>1, Picks
    <3> HIDE DEF q
    <3>3. Len(q) \in Nat
      BY <3>2, LenProperties
    <3> QED  BY <3>2, <3>3
  <2>4. Clean(k) => \A n \in 1 .. Len(q) : q[n].key # k
    <3>1. \A i \in I : ~(l[i].filed /\ l[i].key = k)
      BY DEF IsOf
    <3>2. \A i \in I : Clean(l[i].key) => l[i].filed
      BY <1>1, <1>2 DEF ListOf
    <3> HIDE DEF q, I
    <3> QED  BY <2>3, <3>1, <3>2
  <2> HIDE DEF q
  <2>5. ListOf(new, s)
    BY <1>2, <2>2, <2>3, <2>4, Fronted, Constants
  <2>6. /\ Len(new) = Len(q) + 1 /\ new[1] = New(k)
        /\ \A i \in 2 .. Len(q) + 1 : new[i] = q[i - 1]
    BY <2>3, Pushed
  <2>7. DOMAIN new = 1 .. Len(q) + 1
    BY <2>5, <2>6, EntriesOf
  <2> HIDE DEF new
  <2>8. /\ Lists' /\ list'[s] = new
        /\ \A t \in Shards : t # s => list'[t] = list[t]
    BY <1>1, <2>1, <2>5, Replaced
  <2>9. ASSUME NEW j \in Keys, InMap(j)  PROVE InMap(j)'
    <3>1. CASE Strays({j}) # {}
      BY <2>1, <3>1 DEF InMap, Strays
    <3>2. CASE Listed(j) /\ ShardOf[j] # s
      BY <2>8, <3>2, Constants DEF InMap, Listed
    <3>3. CASE j = k
      <4>1. 1 \in DOMAIN new /\ IsOf({k}, new[1])
        BY <2>3, <2>6, <2>7 DEF IsOf, New
      <4> QED  BY <2>8, <3>3, <4>1 DEF InMap, Listed
    <3>4. CASE Listed(j) /\ ShardOf[j] = s /\ j # k
      <4>1. PICK i \in DOMAIN l : IsOf({j}, l[i])
        BY <3>4 DEF Listed
      <4>2. i \in I
        BY <3>4, <4>1 DEF IsOf
      <4>3. PICK n \in 1 .. Len(q) : q[n] = l[i]
        BY <2>3, <4>2
      <4>4. n + 1 \in 2 .. Len(q) + 1 /\ n + 1 \in DOMAIN new /\ (n + 1) - 1 = n
        BY <2>3, <2>7
      <4>5. IsOf({j}, new[n + 1])
        BY <2>6, <4>1, <4>3, <4>4
      <4> QED  BY <2>8, <3>4, <4>4, <4>5 DEF InMap, Listed
    <3> QED  BY <2>9, <3>1, <3>2, <3>3, <3>4 DEF InMap
  <2> QED  BY <1>1, <2>1, <2>8, <2>9 DEF StraysOK
<1>4. CASE ~Listed(k)
  <2>1. list' = list /\ stray' = (stray \ Strays({k})) \cup {New(k)}
    BY <1>4 DEF Access
  <2>2. ~Clean(k)
    BY <1>1, <1>4 DEF InMap, Strays, StraysOK
  <2>3. New(k) \in Entry /\ New(k).key = k
    BY Constants DEF New
  <2>4. StraysOK'
    BY <1>1, <2>1, <2>2, <2>3 DEF StraysOK
  <2>5. ASSUME NEW j \in Keys, InMap(j)  PROVE InMap(j)'
    <3>1. CASE Listed(j)
      BY <2>1, <3>1 DEF InMap, Listed
    <3>2. CASE Strays({j}) # {}
      BY <2>1, <2>3, <3>2 DEF InMap, Strays
    <3> QED  BY <2>5, <3>1, <3>2 DEF InMap
  <2> QED  BY <1>1, <2>1, <2>4, <2>5 DEF Lists
<1> QED  BY <1>3, <1>4

\* A step under the write lock of shard s leaves what is read alone.
LEMMA LockedStep ==
    ASSUME IInv, NEW s, Quiet(s), UNCHANGED reading,
           \A j \in Keys : ShardOf[j] # s /\ InMap(j) => InMap(j)'
    PROVE  Readers'
<1> SUFFICES ASSUME NEW j \in Keys, NEW c \in Clients, reading[c] = j  PROVE InMap(j)'
  BY DEF Readers
<1>1. InMap(j) /\ ShardOf[j] # s
  BY Constants DEF IInv, Readers, Quiet
<1> QED  BY <1>1

\* Set of a new key.  What evict takes out of the map is of the shard; a clean
\* key it takes out is that of the entry it takes off the list.
LEMMA InsertStep ==
    ASSUME IInv, NEW k \in Keys, Insert(k)
    PROVE  /\ Lists' /\ StraysOK'
           /\ \A j \in Keys : ShardOf[j] # ShardOf[k] /\ InMap(j) => InMap(j)'
<1> DEFINE s == ShardOf[k]
           l == list[s]
<1>1. s \in Shards /\ ListOf(l, s) /\ Lists /\ StraysOK
  BY Constants DEF IInv, Lists
<1>2. /\ Len(l) \in Nat /\ DOMAIN l = 1 .. Len(l) /\ l \in Seq(Entry) /\ Len(l) <= Share
      /\ \A i \in 1 .. Len(l) : l[i] \in Entry
  BY <1>1, EntriesOf DEF ListOf
<1>3. Clean(k) => \A i \in 1 .. Len(l) : l[i].key # k
  BY <1>1, <1>2 DEF Insert, InsertWith, InMap, Listed, IsOf, ListOf
<1>4. CASE Len(l) >= PerShard /\ l # <<>>
  <2> DEFINE v == Last(l)
             hash == {h \in {Canonical[v.key]} : ShardOf[h] = s}
             rest == [i \in DOMAIN Front(l) |->
                        IF IsOf(hash, l[i]) THEN [l[i] EXCEPT !.filed = FALSE, !.due = FALSE]
                        ELSE l[i]]
  <2>1. /\ list' = [list EXCEPT ![s] = <<New(k)>> \o rest]
        /\ stray' = (stray \ Strays(hash)) \cup {e \in {v} : v.filed /\ v.key \notin hash}
    BY <1>4 DEF Insert, InsertWith
  <2>2. Len(l) \in 1 .. Len(l) /\ Len(l) - 1 \in Nat /\ Len(l) - 1 < Len(l)
    BY <1>2, <1>4, EmptySeq
  <2>3. v = l[Len(l)] /\ v \in Entry /\ ShardOf[v.key] = s /\ v.key \in Keys
    <3>1. v = l[Len(l)] /\ v \in Entry /\ ShardOf[v.key] = s
      BY <1>1, <1>2, <2>2 DEF Last, ListOf
    <3> HIDE DEF v
    <3> QED  BY <3>1 DEF Entry
  <2>4. \A h \in hash : h \in Keys /\ ShardOf[h] = s /\ (Clean(h) => v.key = h)
    BY <2>3, Constants DEF Clean
  <2>5. Clean(v.key) => v.key \in hash
    BY <2>3 DEF Clean
  <2>6. DOMAIN Front(l) = 1 .. Len(l) - 1
    BY <1>2, <2>2, Fronts
  <2> HIDE DEF hash, v
  <2>7. \A i \in 1 .. Len(l) - 1 :
          /\ rest[i] \in Entry /\ rest[i].key = l[i].key /\ rest[i].age = l[i].age
          /\ ~IsOf(hash, l[i]) => rest[i].filed = l[i].filed
    <3>1. \A e \in Entry : LET f == [e EXCEPT !.filed = FALSE, !.due = FALSE] IN
                           f \in Entry /\ f.key = e.key /\ f.age = e.age
      BY DEF Entry
    <3>2. \A i \in 1 .. Len(l) - 1 : l[i] \in Entry
      BY <1>2
    <3> QED  BY <2>6, <3>1, <3>2
  <2>8. rest \in Seq(Entry) /\ Len(rest) = Len(l) - 1
    <3>1. rest \in [1 .. Len(l) - 1 -> Entry]
      BY <2>6, <2>7
    <3> HIDE DEF rest
    <3> QED  BY <2>2, <3>1
  <2> HIDE DEF rest
  <2>9. ASSUME NEW i \in 1 .. Len(l) - 1, Clean(l[i].key)
        PROVE  rest[i].filed
    <3>1. i \in 1 .. Len(l) /\ Len(l) \in 1 .. Len(l) /\ i < Len(l)
      BY <1>2, <2>2
    <3>2. l[i].filed /\ l[i].key # v.key
      BY <1>1, <2>3, <2>9, <3>1 DEF ListOf
    <3>3. ~IsOf(hash, l[i])
      BY <2>4, <2>9, <3>2 DEF IsOf
    <3> QED  BY <2>7, <3>2, <3>3
  <2>10. \A i, j \in 1 .. Len(rest) : i < j => rest[i].age <= rest[j].age
    <3>1. \A i \in 1 .. Len(rest) : i \in 1 .. Len(l) /\ rest[i].age = l[i].age
      BY <1>2, <2>7, <2>8
    <3> QED  BY <1>1, <3>1 DEF ListOf
  <2>11. ListOf(rest, s)
    <3>1. Len(rest) <= Len(l)
      BY <1>2, <2>8
    <3>2. \A i \in 1 .. Len(rest) :
            rest[i].key = l[i].key /\ (Clean(l[i].key) => rest[i].filed)
      BY <2>7, <2>8, <2>9
    <3> QED  BY <1>1, <2>8, <2>10, <3>1, <3>2, Changed
  <2>12. ListOf(<<New(k)>> \o rest, s)
    <3>1. Len(rest) < Share
      BY <1>2, <2>8, Constants
    <3>2. Clean(k) => \A i \in 1 .. Len(rest) : rest[i].key # k
      <4>1. \A i \in 1 .. Len(rest) : i \in 1 .. Len(l) /\ rest[i].key = l[i].key
        BY <1>2, <2>7, <2>8
      <4> QED  BY <1>3, <4>1
    <3> QED  BY <2>11, <3>1, <3>2, Fronted
  <2>13. Lists' /\ \A t \in Shards : t # s => list'[t] = list[t]
    BY <1>1, <2>1, <2>12, Replaced
  <2>14. StraysOK'
    BY <1>1, <2>1, <2>3, <2>5 DEF StraysOK
  <2>15. ASSUME NEW j \in Keys, ShardOf[j] # s, InMap(j)  PROVE InMap(j)'
    <3>1. CASE Listed(j)
      BY <2>13, <2>15, <3>1, Constants DEF InMap, Listed
    <3>2. CASE Strays({j}) # {}
      <4>1. PICK e \in stray : e.key = j
        BY <3>2 DEF Strays
      <4>2. e \notin Strays(hash)
        BY <2>4, <2>15, <4>1 DEF Strays
      <4> QED  BY <2>1, <4>1, <4>2 DEF InMap, Strays
    <3> QED  BY <2>15, <3>1, <3>2 DEF InMap
  <2> QED  BY <2>13, <2>14, <2>15
<1>5. CASE ~(Len(l) >= PerShard /\ l # <<>>)
  <2>1. list' = [list EXCEPT ![s] = <<New(k)>> \o l] /\ stray' = stray
    BY <1>5 DEF Insert, InsertWith
  <2>2. Len(l) < Share
    BY <1>2, <1>5, EmptySeq, Constants DEF Share
  <2>3. ListOf(<<New(k)>> \o l, s)
    BY <1>1, <1>3, <2>2, Fronted
  <2>4. Lists' /\ \A t \in Shards : t # s => list'[t] = list[t]
    BY <1>1, <2>1, <2>3, Replaced
  <2>5. ASSUME NEW j \in Keys, ShardOf[j] # s, InMap(j)  PROVE InMap(j)'
    BY <2>1, <2>4, <2>5, Constants DEF InMap, Listed, Strays
  <2> QED  BY <1>1, <2>1, <2>4, <2>5 DEF StraysOK
<1> QED  BY <1>4, <1>5

\* Entries of one shard go, from the list or from the map alone (Delete, cleanup,
\* what two Gets at once make of a list).
LEMMA ShrinkStep ==
    ASSUME IInv, NEW s \in Shards, NEW q, ListOf(q, s),
           list' = [list EXCEPT ![s] = q], stray' \subseteq stray,
           \A e \in stray : ShardOf[e.key] # s => e \in stray'
    PROVE  /\ Lists' /\ StraysOK'
           /\ \A j \in Keys : ShardOf[j] # s /\ InMap(j) => InMap(j)'
<1>1. Lists' /\ \A t \in Shards : t # s => list'[t] = list[t]
  BY Replaced DEF IInv
<1>2. StraysOK'
  BY DEF IInv, StraysOK
<1>3. ASSUME NEW j \in Keys, ShardOf[j] # s, InMap(j)  PROVE InMap(j)'
  <2>1. CASE Listed(j)
    BY <1>1, <1>3, <2>1, Constants DEF InMap, Listed
  <2>2. CASE Strays({j}) # {}
    BY <1>3, <2>2 DEF InMap, Strays
  <2> QED  BY <1>3, <2>1, <2>2 DEF InMap
<1> QED  BY <1>1, <1>2, <1>3

\* Entries get older, or due: Tick and CleanupTick.
SameEntry(f, e) == f \in Entry /\ f.key = e.key /\ f.filed = e.filed

LEMMA AgeStep ==
    ASSUME IInv,
           \A s \in Shards : DOMAIN list'[s] = DOMAIN list[s] /\ list'[s] \in [DOMAIN list[s] -> Entry],
           \A s \in Shards : \A i \in DOMAIN list[s] : SameEntry(list'[s][i], list[s][i]),
           \A s \in Shards : \A i, j \in DOMAIN list[s] :
             list[s][i].age <= list[s][j].age => list'[s][i].age <= list'[s][j].age,
           list' = [s \in Shards |-> list'[s]],
           \A f \in stray' : \E e \in stray : SameEntry(f, e),
           \A e \in stray : \E f \in stray' : SameEntry(f, e)
    PROVE  Lists' /\ StraysOK' /\ \A j \in Keys : InMap(j) => InMap(j)'
<1>1. ASSUME NEW s \in Shards  PROVE ListOf(list'[s], s)
  <2> DEFINE l == list[s]  q == list'[s]
  <2>1. ListOf(l, s) /\ DOMAIN l = 1 .. Len(l) /\ Len(l) \in Nat
    BY EntriesOf DEF IInv, Lists
  <2>2. q \in [1 .. Len(l) -> Entry]
    BY <2>1
  <2>3. \A i \in 1 .. Len(l) : q[i].key = l[i].key /\ q[i].filed = l[i].filed
    BY <2>1 DEF SameEntry
  <2>4. \A i, j \in 1 .. Len(l) : l[i].age <= l[j].age => q[i].age <= q[j].age
    BY <2>1
  <2> HIDE DEF q, l
  <2>5. q \in Seq(Entry) /\ Len(q) = Len(l)
    BY <2>1, <2>2
  <2>6. \A i \in 1 .. Len(q) : q[i].key = l[i].key /\ (Clean(l[i].key) => q[i].filed)
    BY <2>1, <2>3, <2>5 DEF ListOf
  <2>7. \A i, j \in 1 .. Len(q) : i < j => q[i].age <= q[j].age
    BY <2>1, <2>4, <2>5 DEF ListOf
  <2>8. ListOf(q, s)
    <3>1. Len(q) <= Len(l)
      BY <2>1, <2>5
    <3> QED  BY <2>1, <2>5, <2>6, <2>7, <3>1, Changed
  <2> QED  BY <2>8 DEF q
<1>2. Lists'
  BY <1>1 DEF Lists, ListOf
<1>3. StraysOK'
  BY DEF IInv, StraysOK, SameEntry
<1>4. ASSUME NEW j \in Keys, InMap(j)  PROVE InMap(j)'
  <2>1. CASE Listed(j)
    <3>1. PICK i \in DOMAIN list[ShardOf[j]] : IsOf({j}, list[ShardOf[j]][i])
      BY <2>1 DEF Listed
    <3>2. IsOf({j}, list'[ShardOf[j]][i]) /\ i \in DOMAIN list'[ShardOf[j]]
      BY <3>1, Constants DEF IsOf, SameEntry
    <3> QED  BY <3>2 DEF InMap, Listed
  <2>2. CASE Strays({j}) # {}
    BY <2>2 DEF InMap, Strays, SameEntry
  <2> QED  BY <1>4, <2>1, <2>2 DEF InMap
<1> QED  BY <1>2, <1>3, <1>4

------------------------------------------------------------------------------
(* The steps *)

LEMMA GetSteps ==
    ASSUME IInv, NEW c \in Clients,
           GetFinds(c) \/ GetMoves(c) \/ \E d \in Clients : GetRace(c, d)
    PROVE  IInv'
<1>1. CASE GetFinds(c)
  <2>1. PICK k \in Keys : InMap(k) /\ reading' = [reading EXCEPT ![c] = k]
    BY <1>1 DEF GetFinds
  <2>2. UNCHANGED <<list, stray, torn, at, waiting>>
    BY <1>1 DEF GetFinds
  <2>3. \A j \in Keys : InMap(j) => InMap(j)'
    BY <2>2 DEF InMap, Listed, Strays
  <2>4. Places'
    BY <2>1, <2>2 DEF IInv, Places
  <2>5. Readers'
    BY <2>1, <2>3 DEF IInv, Readers, Places
  <2> QED  BY <2>2, <2>4, <2>5 DEF IInv, Lists, StraysOK
<1>2. CASE GetMoves(c)
  <2>1. reading[c] \in Keys /\ Access(reading[c]) /\ InMap(reading[c])
    BY <1>2 DEF GetMoves, IInv, Places, Readers
  <2>2. Lists' /\ StraysOK' /\ \A j \in Keys : InMap(j) => InMap(j)'
    BY <2>1, AccessStep
  <2>3. reading' = [reading EXCEPT ![c] = NoKey] /\ UNCHANGED <<torn, at, waiting>>
    BY <1>2 DEF GetMoves
  <2>4. Places'
    BY <2>3 DEF IInv, Places
  <2>5. Readers'
    BY <2>2, <2>3, Constants DEF IInv, Readers, Places
  <2> QED  BY <2>2, <2>4, <2>5 DEF IInv
<1>3. ASSUME NEW d \in Clients, GetRace(c, d)  PROVE IInv'
  <2> DEFINE s == ShardOf[reading[c]]
             here == {k \in Keys : ShardOf[k] = s}
  <2>1. reading[c] \in Keys /\ s \in Shards
    BY <1>3, Constants DEF GetRace, Moves, IInv, Places
  <2>2. /\ torn' = torn \cup {s} /\ list' = [list EXCEPT ![s] = <<>>]
        /\ stray' = stray \ Strays(here)
        /\ reading' = [x \in Clients |-> IF reading[x] \in here THEN NoKey ELSE reading[x]]
        /\ UNCHANGED <<at, waiting>>
    BY <1>3 DEF GetRace
  <2>3. ListOf(<<>>, s)
    BY EmptySeq, Constants DEF ListOf
  <2>4. \A e \in stray : ShardOf[e.key] # s => e \in stray'
    BY <2>2 DEF Strays
  <2>5. /\ Lists' /\ StraysOK'
        /\ \A j \in Keys : ShardOf[j] # s /\ InMap(j) => InMap(j)'
    BY <2>1, <2>2, <2>3, <2>4, ShrinkStep
  <2>6. Places'
    BY <2>1, <2>2 DEF IInv, Places
  <2>7. Readers'
    BY <2>2, <2>5, Constants DEF IInv, Readers
  <2> QED  BY <2>5, <2>6, <2>7 DEF IInv
<1> QED  BY <1>1, <1>2, <1>3

LEMMA KeySteps ==
    ASSUME IInv, NEW k \in Keys, Update(k) \/ Insert(k) \/ Delete(k)
    PROVE  IInv'
<1>1. UNCHANGED <<reading, torn, at, waiting>> /\ Quiet(ShardOf[k])
  BY DEF Update, Insert, InsertWith, Delete
<1>2. Places'
  BY <1>1 DEF IInv, Places
<1>3. /\ Lists' /\ StraysOK'
      /\ \A j \in Keys : ShardOf[j] # ShardOf[k] /\ InMap(j) => InMap(j)'
  <2>1. CASE Update(k)
    BY <2>1, AccessStep DEF Update
  <2>2. CASE Insert(k)
    BY <2>2, InsertStep
  <2>3. CASE Delete(k)
    <3> DEFINE s == ShardOf[k]  q == Out(list[s], {k})
    <3>1. s \in Shards /\ ListOf(list[s], s)
      BY Constants DEF IInv, Lists
    <3>2. ListOf(q, s)
      <4> DEFINE I == {i \in DOMAIN list[s] : ~IsOf({k}, list[s][i])}
      <4>1. I \in SUBSET DOMAIN list[s] /\ q = Picked(list[s], I)
        BY DEF Out
      <4> HIDE DEF I, q, s
      <4> QED  BY <3>1, <4>1, Thinned
    <3>3. list' = [list EXCEPT ![s] = q] /\ stray' = stray \ Strays({k})
      BY <2>3 DEF Delete
    <3>4. \A e \in stray : ShardOf[e.key] # s => e \in stray'
      BY <3>3 DEF Strays
    <3> HIDE DEF q
    <3> QED  BY <3>1, <3>2, <3>3, <3>4, ShrinkStep
  <2> QED  BY <2>1, <2>2, <2>3
<1>4. Readers'
  BY <1>1, <1>3, LockedStep
<1> QED  BY <1>2, <1>3, <1>4 DEF IInv

LEMMA CleanupSteps ==
    ASSUME IInv, CleanupTick \/ CleanupLocks \/ CleanupShard \/ Tick
    PROVE  IInv'
<1> USE Constants DEF Shards
<1>1. CASE CleanupLocks
  BY <1>1 DEF CleanupLocks, IInv, Places, Lists, StraysOK, Readers, InMap, Listed, Strays
<1>2. CASE CleanupShard
  <2> DEFINE q == NotDue(list[at])
  <2>1. at \in Shards /\ Quiet(at) /\ UNCHANGED <<reading, torn>>
    BY <1>2 DEF CleanupShard, IInv, Places
  <2>2. list' = [list EXCEPT ![at] = q] /\ stray' = {e \in stray : ShardOf[e.key] = at => ~e.due}
    BY <1>2 DEF CleanupShard
  <2>3. ListOf(q, at)
    <3> DEFINE I == {i \in DOMAIN list[at] : ~list[at][i].due}
    <3>1. I \in SUBSET DOMAIN list[at] /\ q = Picked(list[at], I)
      BY DEF NotDue
    <3>2. ListOf(list[at], at)
      BY <2>1 DEF IInv, Lists
    <3> HIDE DEF I, q
    <3> QED  BY <3>1, <3>2, Thinned
  <2> HIDE DEF q
  <2>4. /\ Lists' /\ StraysOK'
        /\ \A j \in Keys : ShardOf[j] # at /\ InMap(j) => InMap(j)'
    BY <2>1, <2>2, <2>3, ShrinkStep
  <2>5. Readers'
    BY <2>1, <2>4, LockedStep
  <2>6. Places'
    <3>1. waiting' = FALSE /\ at' \in 0 .. ShardCount
      BY <1>2, <2>1 DEF CleanupShard
    <3> QED  BY <2>1, <3>1 DEF IInv, Places
  <2> QED  BY <2>4, <2>5, <2>6 DEF IInv
<1>3. CASE CleanupTick \/ Tick
  <2>1. UNCHANGED <<reading, torn, waiting>> /\ Places'
    BY <1>3 DEF CleanupTick, Tick, IInv, Places
  <2>2. Lists' /\ StraysOK' /\ \A j \in Keys : InMap(j) => InMap(j)'
    <3>1. \A s \in Shards : \A i \in DOMAIN list[s] : list[s][i] \in Entry
      BY EntriesOf DEF IInv, Lists
    <3>2. \A e \in stray : e \in Entry
      BY DEF IInv, StraysOK
    <3>3. CASE CleanupTick
      <4> DEFINE now(e) == [e EXCEPT !.due = e.filed /\ e.age > TTL]
      <4>1. /\ list' = [s \in Shards |-> [i \in DOMAIN list[s] |-> now(list[s][i])]]
            /\ stray' = {now(e) : e \in stray}
        BY <3>3 DEF CleanupTick
      <4>2. \A e \in Entry : SameEntry(now(e), e) /\ now(e).age = e.age
        BY DEF Entry, SameEntry
      <4> HIDE DEF now
      <4> QED  BY <3>1, <3>2, <4>1, <4>2, AgeStep DEF SameEntry
    <3>4. CASE Tick
      <4> DEFINE older(e) == [e EXCEPT !.age = IF @ > TTL THEN @ ELSE @ + 1]
      <4>1. /\ list' = [s \in Shards |-> [i \in DOMAIN list[s] |-> older(list[s][i])]]
            /\ stray' = {older(e) : e \in stray}
        BY <3>4 DEF Tick
      <4>2. \A e \in Entry :
              SameEntry(older(e), e) /\ older(e).age = IF e.age > TTL THEN e.age ELSE e.age + 1
        BY DEF Entry, SameEntry
      <4>3. \A e, f \in Entry : e.age <= f.age => older(e).age <= older(f).age
        BY <4>2 DEF Entry
      <4> HIDE DEF older
      <4> QED  BY <3>1, <3>2, <4>1, <4>2, <4>3, AgeStep DEF SameEntry
    <3> QED  BY <1>3, <3>3, <3>4
  <2>3. Readers'
    BY <2>1, <2>2 DEF IInv, Readers
  <2> QED  BY <2>1, <2>2, <2>3 DEF IInv
<1> QED  BY <1>1, <1>2, <1>3

\* The invariant holds.
THEOREM Invariance == Spec => []IInv
<1>1. IInv /\ [Next]_vars => IInv'
  <2> SUFFICES ASSUME IInv, [Next]_vars  PROVE IInv'
    OBVIOUS
  <2>1. ASSUME NEW c \in Clients, GetFinds(c) \/ GetMoves(c) \/ \E d \in Clients : GetRace(c, d)
        PROVE  IInv'
    BY <2>1, GetSteps
  <2>2. ASSUME NEW k \in Keys, Update(k) \/ Insert(k) \/ Delete(k)  PROVE IInv'
    BY <2>2, KeySteps
  <2>3. CASE CleanupTick \/ CleanupLocks \/ CleanupShard \/ Tick
    BY <2>3, CleanupSteps
  <2>4. CASE UNCHANGED vars
    BY <2>4 DEF vars, IInv, Places, Lists, StraysOK, Readers, InMap, Listed, Strays
  <2> QED  BY <2>1, <2>2, <2>3, <2>4 DEF Next
<1> QED  BY Initially, <1>1, PTL DEF Spec

\* The map and the list of a shard agree on every clean key: it has one entry,
\* in both or in neither (Set, evict, Delete, cleanup).
THEOREM IndexRight == Spec => []IndexAgrees
BY Invariance, Implied, PTL

\* The list is in the order of the accesses, so that evict takes the entry
\* nobody has used for the longest time (Get, Set, evict).
THEOREM OrderRight == Spec => []LruOrder
BY Invariance, Implied, PTL

\* A shard never lists more than its share of maxSize (Set, evict).
THEOREM ShareKept == Spec => []ShardBounded
BY Invariance, Implied, PTL

\* What a Get has found stays in the map until it has moved it to the front:
\* the lock of the shard keeps every deletion out (Get, Delete, evict, cleanup).
THEOREM ReadersKept == Spec => []Readers
BY Invariance, PTL DEF IInv

------------------------------------------------------------------------------
(* What a pass of the cleanup does, and how long it may take *)

\* An entry of shard s had expired at the `now` of the pass.
DueIn(l) == \E i \in DOMAIN l : l[i].due
DueAt(s) == DueIn(list[s]) \/ \E e \in stray : ShardOf[e.key] = s /\ e.due

\* The pass has gone by shard s, or there is none.
Passed(s) == at = 0 \/ s < at

LEMMA PickedDue ==
    ASSUME NEW S, NEW l \in Seq(S), NEW I \in SUBSET DOMAIN l, DueIn(Picked(l, I))
    PROVE  \E i \in I : l[i].due
<1> DEFINE q == Picked(l, I)  size == Cardinality(I)
<1>1. /\ q \in Seq(S) /\ Len(q) = size
      /\ \A n \in 1 .. size : Nth(I, n) \in I /\ q[n] = l[Nth(I, n)]
  BY Picks
<1>2. \E n \in DOMAIN q : q[n].due
  BY DEF DueIn
<1> HIDE DEF q, size
<1>3. DOMAIN q = 1 .. size
  BY <1>1, LenProperties
<1> QED  BY <1>1, <1>2, <1>3

LEMMA PushedDue ==
    ASSUME NEW l \in Seq(Entry), NEW k \in Keys, DueIn(<<New(k)>> \o l)
    PROVE  DueIn(l)
<1> DEFINE q == <<New(k)>> \o l
<1>1. /\ q \in Seq(Entry) /\ Len(q) = Len(l) + 1 /\ q[1] = New(k)
      /\ \A i \in 2 .. Len(l) + 1 : q[i] = l[i - 1] /\ i - 1 \in 1 .. Len(l)
  BY Pushed
<1>2. \E i \in DOMAIN q : q[i].due
  BY DEF DueIn
<1> HIDE DEF q
<1>3. DOMAIN q = 1 .. Len(l) + 1 /\ DOMAIN l = 1 .. Len(l) /\ Len(l) \in Nat
  BY <1>1, LenProperties
<1>4. ~q[1].due
  BY <1>1 DEF New
<1>5. \A i \in 1 .. Len(l) + 1 : i = 1 \/ i \in 2 .. Len(l) + 1
  BY <1>3
<1> QED  BY <1>1, <1>2, <1>3, <1>4, <1>5 DEF DueIn

\* The list of one shard is replaced, and what it and the map alone have that is
\* due was due before.
LEMMA ReplacedDue ==
    ASSUME Lists, NEW s \in Shards, NEW q, list' = [list EXCEPT ![s] = q],
           DueIn(q) => DueAt(s),
           \A e \in stray' : e \in stray \/ ~e.due \/ (ShardOf[e.key] = s /\ DueAt(s)),
           NEW t \in Shards, DueAt(t)'
    PROVE  DueAt(t)
<1>1. list'[s] = q /\ \A u \in Shards : u # s => list'[u] = list[u]
  BY DEF Lists
<1> QED  BY <1>1 DEF DueAt

LEMMA AccessDue ==
    ASSUME IInv, NEW k \in Keys, Access(k), NEW t \in Shards, DueAt(t)'
    PROVE  DueAt(t)
<1> DEFINE s == ShardOf[k]
           l == list[s]
           I == {i \in DOMAIN l : ~IsOf({k}, l[i])}
<1>1. s \in Shards /\ l \in Seq(Entry) /\ Lists /\ I \in SUBSET DOMAIN l
  BY Constants DEF IInv, Lists
<1>2. CASE Listed(k)
  <2>1. list' = [list EXCEPT ![s] = <<New(k)>> \o Picked(l, I)] /\ stray' = stray
    BY <1>2 DEF Access, Out
  <2> HIDE DEF I
  <2>2. Picked(l, I) \in Seq(Entry)
    BY <1>1, Picks
  <2>3. DueIn(<<New(k)>> \o Picked(l, I)) => DueAt(s)
    BY <1>1, <2>2, PushedDue, PickedDue DEF DueAt, DueIn
  <2> QED  BY <1>1, <2>1, <2>3, ReplacedDue
<1>3. CASE ~Listed(k)
  <2>1. list' = list /\ stray' = (stray \ Strays({k})) \cup {New(k)}
    BY <1>3 DEF Access
  <2> QED  BY <2>1 DEF DueAt, New
<1> QED  BY <1>2, <1>3

LEMMA InsertDue ==
    ASSUME IInv, NEW k \in Keys, Insert(k), NEW t \in Shards, DueAt(t)'
    PROVE  DueAt(t)
<1> DEFINE s == ShardOf[k]
           l == list[s]
<1>1. s \in Shards /\ ListOf(l, s) /\ Lists /\ l \in Seq(Entry)
  BY Constants DEF IInv, Lists
<1>2. Len(l) \in Nat /\ DOMAIN l = 1 .. Len(l) /\ \A i \in 1 .. Len(l) : l[i] \in Entry
  BY <1>1, EntriesOf
<1>3. CASE Len(l) >= PerShard /\ l # <<>>
  <2> DEFINE v == Last(l)
             hash == {h \in {Canonical[v.key]} : ShardOf[h] = s}
             rest == [i \in DOMAIN Front(l) |->
                        IF IsOf(hash, l[i]) THEN [l[i] EXCEPT !.filed = FALSE, !.due = FALSE]
                        ELSE l[i]]
  <2>1. /\ list' = [list EXCEPT ![s] = <<New(k)>> \o rest]
        /\ stray' = (stray \ Strays(hash)) \cup {e \in {v} : v.filed /\ v.key \notin hash}
    BY <1>3 DEF Insert, InsertWith
  <2>2. Len(l) \in 1 .. Len(l) /\ Len(l) - 1 \in Nat
    BY <1>2, <1>3, <1>1, EmptySeq
  <2>3. v = l[Len(l)] /\ ShardOf[v.key] = s /\ Len(l) \in DOMAIN l
    BY <1>1, <1>2, <2>2 DEF Last, ListOf
  <2>4. DOMAIN Front(l) = 1 .. Len(l) - 1
    BY <1>1, <2>2, Fronts
  <2> HIDE DEF hash, v
  <2>5. \A i \in 1 .. Len(l) - 1 :
          /\ i \in DOMAIN l /\ rest[i] \in Entry
          /\ rest[i].due => l[i].due
    <3>1. \A e \in Entry : LET f == [e EXCEPT !.filed = FALSE, !.due = FALSE] IN
                           f \in Entry /\ ~f.due
      BY DEF Entry
    <3>2. \A i \in 1 .. Len(l) - 1 : i \in DOMAIN l /\ l[i] \in Entry
      BY <1>2
    <3> QED  BY <2>4, <3>1, <3>2
  <2>6. DOMAIN rest = 1 .. Len(l) - 1
    BY <2>4
  <2>7. rest \in Seq(Entry)
    <3>1. rest \in [1 .. Len(l) - 1 -> Entry]
      BY <2>4, <2>5
    <3> HIDE DEF rest
    <3> QED  BY <2>2, <3>1
  <2> HIDE DEF rest
  <2>8. DueIn(<<New(k)>> \o rest) => DueAt(s)
    BY <2>5, <2>6, <2>7, PushedDue DEF DueAt, DueIn
  <2>9. \A e \in stray' : e \in stray \/ ~e.due \/ (ShardOf[e.key] = s /\ DueAt(s))
    BY <2>1, <2>3 DEF DueAt, DueIn
  <2> QED  BY <1>1, <2>1, <2>8, <2>9, ReplacedDue
<1>4. CASE ~(Len(l) >= PerShard /\ l # <<>>)
  <2>1. list' = [list EXCEPT ![s] = <<New(k)>> \o l] /\ stray' = stray
    BY <1>4 DEF Insert, InsertWith
  <2>2. DueIn(<<New(k)>> \o l) => DueAt(s)
    BY <1>1, PushedDue DEF DueAt
  <2> QED  BY <1>1, <2>1, <2>2, ReplacedDue
<1> QED  BY <1>3, <1>4

\* Only the ticker of the cleanup makes an entry due, ...
LEMMA NoneGetsDue ==
    ASSUME IInv, [Next]_vars, ~CleanupTick, NEW t \in Shards, DueAt(t)'
    PROVE  DueAt(t)
<1>1. ASSUME NEW c \in Clients, GetFinds(c) \/ GetMoves(c)  PROVE DueAt(t)
  <2>1. CASE GetFinds(c)
    BY <2>1 DEF GetFinds, DueAt
  <2>2. CASE GetMoves(c)
    <3>1. reading[c] \in Keys /\ Access(reading[c])
      BY <2>2 DEF GetMoves, IInv, Places
    <3> QED  BY <3>1, AccessDue
  <2> QED  BY <1>1, <2>1, <2>2
<1>2. ASSUME NEW c \in Clients, NEW d \in Clients, GetRace(c, d)  PROVE DueAt(t)
  <2> DEFINE s == ShardOf[reading[c]]
  <2>1. s \in Shards /\ list' = [list EXCEPT ![s] = <<>>] /\ stray' \subseteq stray
    BY <1>2, Constants DEF GetRace, Moves, IInv, Places
  <2>2. ~DueIn(<<>>)
    BY DEF DueIn
  <2> QED  BY <2>1, <2>2, ReplacedDue DEF IInv
<1>3. ASSUME NEW k \in Keys, Update(k) \/ Insert(k) \/ Delete(k)  PROVE DueAt(t)
  <2>1. CASE Update(k)
    BY <2>1, AccessDue DEF Update
  <2>2. CASE Insert(k)
    BY <2>2, InsertDue
  <2>3. CASE Delete(k)
    <3> DEFINE s == ShardOf[k]
               I == {i \in DOMAIN list[s] : ~IsOf({k}, list[s][i])}
    <3>1. s \in Shards /\ list[s] \in Seq(Entry) /\ Lists /\ I \in SUBSET DOMAIN list[s]
      BY Constants DEF IInv, Lists
    <3>2. list' = [list EXCEPT ![s] = Picked(list[s], I)] /\ stray' \subseteq stray
      BY <2>3 DEF Delete, Out
    <3> HIDE DEF I
    <3>3. DueIn(Picked(list[s], I)) => DueAt(s)
      BY <3>1, PickedDue DEF DueAt, DueIn
    <3> QED  BY <3>1, <3>2, <3>3, ReplacedDue
  <2> QED  BY <1>3, <2>1, <2>2, <2>3
<1>4. CASE CleanupLocks \/ UNCHANGED vars
  BY <1>4 DEF CleanupLocks, vars, DueAt
<1>5. CASE CleanupShard
  <2> DEFINE I == {i \in DOMAIN list[at] : ~list[at][i].due}
  <2>1. at \in Shards /\ list[at] \in Seq(Entry) /\ Lists /\ I \in SUBSET DOMAIN list[at]
    BY <1>5, Constants DEF CleanupShard, IInv, Places, Lists, Shards
  <2>2. list' = [list EXCEPT ![at] = Picked(list[at], I)] /\ stray' \subseteq stray
    BY <1>5 DEF CleanupShard, NotDue
  <2> HIDE DEF I
  <2>3. DueIn(Picked(list[at], I)) => DueAt(at)
    BY <2>1, PickedDue DEF DueAt, DueIn
  <2> QED  BY <2>1, <2>2, <2>3, ReplacedDue
<1>6. CASE Tick
  <2> DEFINE older(e) == [e EXCEPT !.age = IF @ > TTL THEN @ ELSE @ + 1]
  <2>1. /\ list' = [s \in Shards |-> [i \in DOMAIN list[s] |-> older(list[s][i])]]
        /\ stray' = {older(e) : e \in stray}
    BY <1>6 DEF Tick
  <2>2. \A e \in Entry : older(e).due = e.due /\ older(e).key = e.key
    BY DEF Entry
  <2>3. \A i \in DOMAIN list[t] : list[t][i] \in Entry
    BY EntriesOf DEF IInv, Lists
  <2>4. stray \subseteq Entry
    BY DEF IInv, StraysOK
  <2> HIDE DEF older
  <2> QED  BY <2>1, <2>2, <2>3, <2>4 DEF DueAt, DueIn
<1> QED  BY <1>1, <1>2, <1>3, <1>4, <1>5, <1>6 DEF Next

\* ... and the pass takes what is due out of the shard it is at.
LEMMA ShardCleaned ==
    ASSUME IInv, CleanupShard, NEW t, t = at
    PROVE  ~DueAt(t)'
<1> DEFINE I == {i \in DOMAIN list[t] : ~list[t][i].due}
<1>1. t \in Shards /\ list[t] \in Seq(Entry) /\ I \in SUBSET DOMAIN list[t]
  BY Constants DEF CleanupShard, IInv, Places, Lists, Shards
<1>2. /\ list' = [list EXCEPT ![t] = Picked(list[t], I)]
      /\ stray' = {e \in stray : ShardOf[e.key] = t => ~e.due}
  BY DEF CleanupShard, NotDue
<1>3. \A i \in I : ~list[t][i].due
  OBVIOUS
<1> HIDE DEF I
<1>4. ~DueIn(list'[t])
  <2>1. ~DueIn(Picked(list[t], I))
    BY <1>1, <1>3, PickedDue
  <2> QED  BY <1>1, <1>2, <2>1 DEF IInv, Lists
<1> QED  BY <1>2, <1>4 DEF DueAt

\* Where a pass has gone by, nothing is left in the map that had expired when it
\* began, whatever Get and Set did meanwhile and even if it is not listed
\* (cleanup): this is what makes an entry nobody uses go.
THEOREM PassRemoves == Spec => [](\A s \in Shards : Passed(s) => ~DueAt(s))
<1> DEFINE Gone == \A s \in Shards : Passed(s) => ~DueAt(s)
<1>1. Init => Gone
  BY DEF Init, DueAt, DueIn
<1>2. ASSUME IInv, [Next]_vars, Gone  PROVE Gone'
  <2> SUFFICES ASSUME NEW s \in Shards, Passed(s)'  PROVE ~DueAt(s)'
    BY DEF Passed
  <2>1. CASE CleanupTick
    BY <2>1, Constants DEF CleanupTick, Passed, Shards
  <2>2. CASE CleanupShard
    <3>1. at \in Nat /\ s \in Nat /\ (Passed(s) \/ s = at)
      <4>1. at \in 1 .. ShardCount /\ ShardCount \in Nat /\ s \in 1 .. ShardCount
        BY <1>2, <2>2, Constants DEF CleanupShard, IInv, Places, Shards
      <4>2. at' = IF at = ShardCount THEN 0 ELSE at + 1
        BY <2>2 DEF CleanupShard
      <4> QED  BY <4>1, <4>2 DEF Passed
    <3>2. ~CleanupTick
      BY <1>2, <2>2 DEF CleanupShard, CleanupTick, IInv, Places
    <3> QED  BY <1>2, <2>2, <3>1, <3>2, ShardCleaned, NoneGetsDue
  <2>3. CASE ~CleanupTick /\ ~CleanupShard
    <3>1. at' = at
      BY <1>2, <2>3 DEF Next, GetFinds, GetMoves, GetRace, Update, Insert, InsertWith, Delete,
                        CleanupLocks, Tick, vars
    <3> QED  BY <1>2, <2>3, <3>1, NoneGetsDue DEF Passed
  <2> QED  BY <2>1, <2>2, <2>3
<1> QED  BY Invariance, <1>1, <1>2, PTL DEF Spec

\* The locks the pass still has to ask for and to get.
PassSteps == IF at = 0 THEN 0 ELSE 2 * (ShardCount - at) + (IF waiting THEN 1 ELSE 2)

\* Clients that are in a Get of shard s.
ReadersOf(s) == {c \in Clients : reading[c] # NoKey /\ ShardOf[reading[c]] = s}

\* A pass takes two steps for each shard, and while it waits for the lock of one
\* no Get joins those that hold it (cleanup, RWMutex).
THEOREM PassShortens ==
    Spec => /\ [](PassSteps \in 0 .. 2 * ShardCount)
            /\ [][at # 0 => UNCHANGED <<at, waiting>> \/ PassSteps' < PassSteps]_vars
            /\ [][\A s \in Shards : waiting /\ at = s /\ at' = s =>
                    ReadersOf(s)' \subseteq ReadersOf(s)]_vars
<1>1. IInv => PassSteps \in 0 .. 2 * ShardCount
  BY Constants DEF IInv, Places, PassSteps
<1>2. ASSUME IInv, Next, at # 0  PROVE UNCHANGED <<at, waiting>> \/ PassSteps' < PassSteps
  <2>1. CASE CleanupLocks
    <3>1. at' = at /\ PassSteps = 2 * (ShardCount - at) + 2 /\ PassSteps' = 2 * (ShardCount - at) + 1
      BY <1>2, <2>1 DEF CleanupLocks, PassSteps
    <3>2. at \in Nat /\ ShardCount \in Nat
      BY <1>2, Constants DEF IInv, Places
    <3> QED  BY <3>1, <3>2
  <2>2. CASE CleanupShard
    <3>1. at \in 1 .. ShardCount /\ ShardCount \in Nat
      BY <1>2, Constants DEF IInv, Places
    <3>2. /\ PassSteps = 2 * (ShardCount - at) + 1
          /\ PassSteps' = IF at' = 0 THEN 0 ELSE 2 * (ShardCount - at') + 2
      BY <1>2, <2>2 DEF CleanupShard, PassSteps
    <3>3. at' = IF at = ShardCount THEN 0 ELSE at + 1
      BY <2>2 DEF CleanupShard
    <3> QED  BY <3>1, <3>2, <3>3
  <2>3. CASE ~CleanupLocks /\ ~CleanupShard
    BY <1>2, <2>3 DEF Next, GetFinds, GetMoves, GetRace, Update, Insert, InsertWith, Delete,
                      CleanupTick, Tick
  <2> QED  BY <2>1, <2>2, <2>3
<1>3. ASSUME IInv, Next, NEW s \in Shards, waiting, at = s, at' = s
      PROVE  ReadersOf(s)' \subseteq ReadersOf(s)
  <2>1. ASSUME NEW c \in Clients, GetFinds(c)  PROVE ReadersOf(s)' \subseteq ReadersOf(s)
    BY <1>3, <2>1 DEF GetFinds, ReadersOf, IInv, Places
  <2>2. ASSUME NEW c \in Clients, GetMoves(c)  PROVE ReadersOf(s)' \subseteq ReadersOf(s)
    BY <2>2 DEF GetMoves, ReadersOf, IInv, Places
  <2>3. ASSUME NEW c \in Clients, NEW d \in Clients, GetRace(c, d)
        PROVE  ReadersOf(s)' \subseteq ReadersOf(s)
    BY <2>3 DEF GetRace, ReadersOf
  <2>4. ASSUME \/ \E k \in Keys : Update(k) \/ Insert(k) \/ Delete(k)
               \/ CleanupTick \/ CleanupLocks \/ CleanupShard \/ Tick
        PROVE  reading' = reading
    BY <2>4 DEF Update, Insert, InsertWith, Delete, CleanupTick, CleanupLocks, CleanupShard, Tick
  <2> QED  BY <1>3, <2>1, <2>2, <2>3, <2>4 DEF Next, ReadersOf
<1>4. IInv /\ [Next]_vars =>
        /\ [at # 0 => UNCHANGED <<at, waiting>> \/ PassSteps' < PassSteps]_vars
        /\ [\A s \in Shards : waiting /\ at = s /\ at' = s =>
              ReadersOf(s)' \subseteq ReadersOf(s)]_vars
  BY <1>2, <1>3
<1> QED  BY Invariance, <1>1, <1>4, PTL DEF Spec
==============================================================================
