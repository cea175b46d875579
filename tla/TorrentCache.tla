----------------------------- MODULE TorrentCache -----------------------------
(***************************************************************************)
(* torrent.Cache: shards of a map and a list with the most recently used   *)
(* entry in front, and a routine that removes what has expired.            *)
(*                                                                         *)
(* Set files an entry under the key it is given, evict takes it out of the *)
(* map under the info hash of its torrent; Canonical says how the two      *)
(* differ.  So an entry may be listed without being in the map, or the     *)
(* other way round.  Get changes the list under the read lock of the       *)
(* shard: what two such Gets at once make of it is undefined, and the      *)
(* model follows the shard no further.  The compressed form of an entry    *)
(* and the statistics are left out.                                        *)
(***************************************************************************)
EXTENDS Integers, FiniteSets, Sequences, SequencesExt

CONSTANTS
    Keys, Clients, NoKey,
    ShardCount, MaxSize,
    ShardOf,      \* getShard, by the position in c.shards
    Canonical,    \* the info hash of the torrent that is stored with a key
    TTL           \* expirationTime in ticks

Shards == 1 .. ShardCount

ASSUME KeysAssumption ==
    /\ NoKey \notin Keys /\ IsFiniteSet(Keys)
    /\ ShardOf \in [Keys -> Shards] /\ Canonical \in [Keys -> Keys]
ASSUME SizesAssumption ==
    ShardCount \in Nat \ {0} /\ MaxSize \in Nat /\ TTL \in Nat

VARIABLES
    list,         \* entries of each shard, the most recently used first: the
                  \* key of Set, ticks since LastAccessed (TTL + 1 for every
                  \* longer age), is it what the map has for the key, had it
                  \* expired at the `now` of the cleanup that goes on
    stray,        \* entries the map has for a key that are not listed
    reading,      \* key of the Get each client is in, with the shard's read lock
    torn,         \* shards whose list two Gets have changed at once
    at,           \* shard the cleanup comes to next, 0 until its ticker fires
    waiting       \* it has called Lock: the shard lets no new reader in

vars == <<list, stray, reading, torn, at, waiting>>

PerShard == MaxSize \div ShardCount

New(k) == [key |-> k, age |-> 0, filed |-> TRUE, due |-> FALSE]
IsOf(K, e) == e.filed /\ e.key \in K

\* The entries of l at the positions I, in their order (SelectSeq, but for the
\* form, which proofs can expand).
Nth(I, n) == CHOOSE i \in I : Cardinality({j \in I : j <= i}) = n
Picked(l, I) == [n \in 1 .. Cardinality(I) |-> l[Nth(I, n)]]
Out(l, K) == Picked(l, {i \in DOMAIN l : ~IsOf(K, l[i])})
NotDue(l) == Picked(l, {i \in DOMAIN l : ~l[i].due})

Listed(k) == \E i \in DOMAIN list[ShardOf[k]] : IsOf({k}, list[ShardOf[k]][i])
Strays(K) == {e \in stray : e.key \in K}
InMap(k) == Listed(k) \/ Strays({k}) # {}

\* The write lock of shard s can be taken (and the list is one).
Quiet(s) ==
    s \notin torn /\ \A c \in Clients : reading[c] # NoKey => ShardOf[reading[c]] # s

Init ==
    /\ list = [s \in Shards |-> <<>>]
    /\ stray = {}
    /\ reading = [c \in Clients |-> NoKey]
    /\ torn = {}
    /\ at = 0 /\ waiting = FALSE

\* MoveToFront, which leaves what is not listed alone, and LastAccessed.
Access(k) ==
    IF Listed(k)
    THEN /\ list' = [list EXCEPT ![ShardOf[k]] = <<New(k)>> \o Out(@, {k})]
         /\ UNCHANGED stray
    ELSE /\ stray' = (stray \ Strays({k})) \cup {New(k)}
         /\ UNCHANGED list

------------------------------------------------------------------------------
(* Get.  One that finds nothing changes nothing. *)

GetFinds(c) ==
    /\ reading[c] = NoKey
    /\ \E k \in Keys :
         /\ ShardOf[k] \notin torn /\ ~(waiting /\ at = ShardOf[k])
         /\ InMap(k)
         /\ reading' = [reading EXCEPT ![c] = k]
    /\ UNCHANGED <<list, stray, torn, at, waiting>>

\* The list is changed before any other Get changes it.
GetMoves(c) ==
    /\ reading[c] # NoKey
    /\ Access(reading[c])
    /\ reading' = [reading EXCEPT ![c] = NoKey]
    /\ UNCHANGED <<torn, at, waiting>>

\* MoveToFront returns at once for the front entry and for one not listed.
Moves(c) ==
    LET k == reading[c] IN k # NoKey /\ Listed(k) /\ ~IsOf({k}, Head(list[ShardOf[k]]))

\* Two clients are in MoveToFront at once.
GetRace(c, d) ==
    /\ c # d /\ Moves(c) /\ Moves(d)
    /\ LET s == ShardOf[reading[c]]
           here == {k \in Keys : ShardOf[k] = s} IN
         /\ reading[d] \in here
         /\ torn' = torn \cup {s}
         /\ list' = [list EXCEPT ![s] = <<>>]
         /\ stray' = stray \ Strays(here)
         /\ reading' = [x \in Clients |-> IF reading[x] \in here THEN NoKey ELSE reading[x]]
    /\ UNCHANGED <<at, waiting>>

------------------------------------------------------------------------------
(* Set and Delete *)

\* Mutant: the entry is not moved to the front.
UpdateInPlace(k) ==
    /\ Quiet(ShardOf[k]) /\ InMap(k)
    /\ LET new(e) == IF IsOf({k}, e) THEN New(k) ELSE e  s == ShardOf[k] IN
         /\ list' = [list EXCEPT ![s] = [i \in DOMAIN @ |-> new(@[i])]]
         /\ stray' = {new(e) : e \in stray}
    /\ UNCHANGED <<reading, torn, at, waiting>>

\* Set of a key the map has.
Update(k) ==
    /\ Quiet(ShardOf[k]) /\ InMap(k)
    /\ Access(k)
    /\ UNCHANGED <<reading, torn, at, waiting>>

\* Set of another key.  evict takes the last entry v off the list, and out of
\* the map what that has for the hash of v's torrent: v itself, another entry,
\* which stays on the list, or nothing.
InsertWith(k, full) ==
    LET s == ShardOf[k] IN
    /\ Quiet(s) /\ ~InMap(k)
    /\ IF full /\ list[s] # <<>>
       THEN LET v == Last(list[s])
                hash == {h \in {Canonical[v.key]} : ShardOf[h] = s}
                rest == [i \in DOMAIN Front(list[s]) |->
                          IF IsOf(hash, list[s][i])
                          THEN [list[s][i] EXCEPT !.filed = FALSE, !.due = FALSE]
                          ELSE list[s][i]] IN
            /\ list' = [list EXCEPT ![s] = <<New(k)>> \o rest]
            /\ stray' = (stray \ Strays(hash)) \cup
                         {e \in {v} : v.filed /\ v.key \notin hash}
       ELSE /\ list' = [list EXCEPT ![s] = <<New(k)>> \o @]
            /\ UNCHANGED stray
    /\ UNCHANGED <<reading, torn, at, waiting>>

\* Mutant: one entry too many.
InsertEvictsLate(k) == InsertWith(k, Len(list[ShardOf[k]]) > PerShard)

Insert(k) == InsertWith(k, Len(list[ShardOf[k]]) >= PerShard)

\* Mutant: the entry stays on the list.
DeleteFromMapOnly(k) ==
    /\ Quiet(ShardOf[k]) /\ InMap(k)
    /\ list' = [list EXCEPT ![ShardOf[k]] = [i \in DOMAIN @ |-> IF IsOf({k}, @[i]) THEN [@[i] EXCEPT !.filed = FALSE] ELSE @[i]]]
    /\ stray' = stray \ Strays({k})
    /\ UNCHANGED <<reading, torn, at, waiting>>

Delete(k) ==
    /\ Quiet(ShardOf[k]) /\ InMap(k)
    /\ list' = [list EXCEPT ![ShardOf[k]] = Out(@, {k})]
    /\ stray' = stray \ Strays({k})
    /\ UNCHANGED <<reading, torn, at, waiting>>

------------------------------------------------------------------------------
(* cleanupRoutine *)

\* The ticker fires and cleanup takes the time.
CleanupTick ==
    /\ at = 0
    /\ at' = 1
    /\ LET now(e) == [e EXCEPT !.due = e.filed /\ e.age > TTL] IN
         /\ list' = [s \in Shards |-> [i \in DOMAIN list[s] |-> now(list[s][i])]]
         /\ stray' = {now(e) : e \in stray}
    /\ UNCHANGED <<reading, torn, waiting>>

CleanupLocks ==
    /\ at # 0 /\ ~waiting
    /\ waiting' = TRUE
    /\ UNCHANGED <<list, stray, reading, torn, at>>

\* Mutant: the cleanup goes through the list instead of the map.
CleanupOfList ==
    /\ waiting /\ Quiet(at)
    /\ list' = [list EXCEPT ![at] = NotDue(@)]
    /\ UNCHANGED stray
    /\ at' = IF at = ShardCount THEN 0 ELSE at + 1
    /\ waiting' = FALSE
    /\ UNCHANGED <<reading, torn>>

\* One shard, under its lock: the entries the map has are looked at.
CleanupShard ==
    /\ waiting /\ Quiet(at)
    /\ list' = [list EXCEPT ![at] = NotDue(@)]
    /\ stray' = {e \in stray : ShardOf[e.key] = at => ~e.due}
    /\ at' = IF at = ShardCount THEN 0 ELSE at + 1
    /\ waiting' = FALSE
    /\ UNCHANGED <<reading, torn>>

Tick ==
    /\ LET older(e) == [e EXCEPT !.age = IF @ > TTL THEN @ ELSE @ + 1] IN
         /\ list' = [s \in Shards |-> [i \in DOMAIN list[s] |-> older(list[s][i])]]
         /\ stray' = {older(e) : e \in stray}
    /\ UNCHANGED <<reading, torn, at, waiting>>

------------------------------------------------------------------------------
Next ==
    \/ \E c \in Clients : GetFinds(c) \/ GetMoves(c)
    \/ \E c, d \in Clients : GetRace(c, d)
    \/ \E k \in Keys : Update(k) \/ Insert(k) \/ Delete(k)
    \/ CleanupTick \/ CleanupLocks \/ CleanupShard \/ Tick

Spec == Init /\ [][Next]_vars

\* The ticker fires, the cleanup gets each shard's lock, and a Get ends.
FairSpec ==
    Spec /\ WF_vars(CleanupTick \/ CleanupLocks) /\ SF_vars(CleanupShard)
         /\ \A c \in Clients : WF_vars(GetMoves(c) \/ \E d \in Clients : GetRace(c, d))

------------------------------------------------------------------------------
(* Properties *)

\* No other key of its shard leads evict to this key.
Clean(k) ==
    /\ Canonical[k] = k
    /\ \A j \in Keys \ {k} : Canonical[j] = k => ShardOf[j] # ShardOf[k]

\* The map and the list of a shard agree on every clean key, whatever the
\* other keys do to them (Set, evict, Delete, cleanup): it has one entry, in
\* both or in neither.
IndexAgrees ==
    \A k \in {j \in Keys : Clean(j)} :
      LET l == list[ShardOf[k]]  mine == {i \in DOMAIN l : l[i].key = k} IN
      /\ Strays({k}) = {}
      /\ Cardinality(mine) <= 1 /\ \A i \in mine : l[i].filed

\* The list is in the order of the accesses, so that evict takes the entry
\* nobody has used for the longest time (Get, Set, evict).
LruOrder ==
    \A s \in Shards : \A i, j \in DOMAIN list[s] :
      i < j => list[s][i].age <= list[s][j].age

\* A shard lists its share of maxSize, and one entry if that share is 0 (Set).
ShardBounded ==
    \A s \in Shards : Len(list[s]) <= IF PerShard = 0 THEN 1 ELSE PerShard

\* An entry nobody uses is gone from the map after expirationTime (cleanup),
\* even one that is not listed.
Expired(k) ==
    \E e \in stray \cup UNION {ToSet(list[s]) : s \in Shards} : IsOf({k}, e) /\ e.age > TTL
ExpiredGo == \A k \in Keys : Expired(k) ~> (~Expired(k) \/ torn # {})
==============================================================================
