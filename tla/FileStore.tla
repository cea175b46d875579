------------------------------ MODULE FileStore ------------------------------
(***************************************************************************)
(* storage.FileStore: files of a cache directory, an LRU list of their      *)
(* paths, a weighted semaphore and a lock.  Store holds the lock to its     *)
(* end.  Get holds it for the lookup only: it opens the file without it,    *)
(* and the reader keeps the token of the semaphore until it is closed.      *)
(*                                                                          *)
(* The directory is "cache" below the manager's DownloadDir, which          *)
(* FileRemoval cleans of empty directories.                                 *)
(***************************************************************************)
EXTENDS Integers, Sequences, FiniteSets, SequencesExt

CONSTANTS
    Keys, Clients, NoKey, NoClient,
    CacheSize,        \* the entries of the LRU list, and the megabytes of the files
    UnitsPerMB,       \* sizes are counted in units of 1 / UnitsPerMB of a megabyte
    MaxFile,          \* the largest file the clients store (a bound)
    MaxConcurrency    \* weight of the semaphore

ASSUME NullsAssumption == NoKey \notin Keys /\ NoClient \notin Clients
ASSUME SizesAssumption ==
    /\ CacheSize \in Nat \ {0} /\ UnitsPerMB \in Nat \ {0}
    /\ MaxFile \in Nat /\ MaxConcurrency \in Nat \ {0}
ASSUME ClientsAssumption == IsFiniteSet(Clients)

VARIABLES
    cache,         \* keys of the LRU list, least recently used first
    disk,          \* size of each file in the directory; its domain is the files
    currentSize,
    sem,           \* tokens of the semaphore that are taken
    mu,            \* client that holds the lock for writing, or NoClient
    dirThere,      \* does the directory exist
    pc, key, size  \* each client's place, key and expected size

vars == <<cache, disk, currentSize, sem, mu, dirThere, pc, key, size>>
store == <<cache, disk, currentSize, dirThere>>

MaxSize == CacheSize * UnitsPerMB
Files == DOMAIN disk
Used == SumFunction(disk)
Without(k) == [f \in Files \ {k} |-> disk[f]]
With(k, n) == [f \in Files \cup {k} |-> IF f = k THEN n ELSE disk[f]]

\* lru.Cache: Get moves a key to the end, Add evicts the oldest beyond CacheSize.
Promoted(k) == IF Contains(cache, k) THEN Append(RemoveFirst(cache, k), k) ELSE cache
Added(k) ==
    LET keys == Append(RemoveFirst(cache, k), k) IN
    IF Len(keys) > CacheSize THEN Tail(keys) ELSE keys

Init ==
    /\ cache = <<>> /\ disk = [f \in {} |-> 0] /\ currentSize = 0
    /\ sem = 0 /\ mu = NoClient /\ dirThere = TRUE
    /\ pc = [c \in Clients |-> "idle"]
    /\ key = [c \in Clients |-> NoKey]
    /\ size = [c \in Clients |-> 0]

Goto(c, loc) == pc' = [pc EXCEPT ![c] = loc]
\* A call of c returns and, if it holds the lock, releases it.
Returns(c) ==
    /\ Goto(c, "idle")
    /\ sem' = sem - 1
    /\ mu' = IF mu = c THEN NoClient ELSE mu
    /\ key' = [key EXCEPT ![c] = NoKey]
    /\ size' = [size EXCEPT ![c] = 0]

------------------------------------------------------------------------------
(* Store *)

\* A token and the lock are taken.
Store(c) ==
    /\ pc[c] = "idle" /\ sem < MaxConcurrency /\ mu = NoClient
    /\ sem' = sem + 1 /\ mu' = c
    /\ Goto(c, "evict")
    /\ \E k \in Keys : key' = [key EXCEPT ![c] = k]
    /\ \E n \in 0 .. MaxFile : size' = [size EXCEPT ![c] = n]
    /\ UNCHANGED store

Full(c) == pc[c] = "evict" /\ currentSize + size[c] > MaxSize

\* Mutant: a file without contents is not worth removing, and the round goes on.
EvictSkipsEmpty(c) ==
    /\ Full(c) /\ cache # <<>> /\ Head(cache) \in Files
    /\ IF disk[Head(cache)] = 0 THEN UNCHANGED <<cache, disk>>
       ELSE cache' = Tail(cache) /\ disk' = Without(Head(cache))
    /\ currentSize' = currentSize - disk[Head(cache)]
    /\ UNCHANGED <<sem, mu, dirThere, pc, key, size>>

\* One round of evict: the oldest entry goes, and its file with it ...
Evict(c) ==
    /\ Full(c) /\ cache # <<>> /\ Head(cache) \in Files
    /\ cache' = Tail(cache)
    /\ disk' = Without(Head(cache))
    /\ currentSize' = currentSize - disk[Head(cache)]
    /\ UNCHANGED <<sem, mu, dirThere, pc, key, size>>

\* ... unless it has no file: Stat fails, the entry is gone all the same.
EvictMissing(c) ==
    /\ Full(c) /\ cache # <<>> /\ Head(cache) \notin Files
    /\ cache' = Tail(cache)
    /\ Returns(c)
    /\ UNCHANGED <<disk, currentSize, dirThere>>

\* Nothing is left to evict.
EvictEmpty(c) ==
    /\ Full(c) /\ cache = <<>>
    /\ Returns(c)
    /\ UNCHANGED store

\* os.Create truncates the file if it exists.
Create(c) ==
    /\ pc[c] = "evict" /\ ~Full(c) /\ dirThere
    /\ disk' = With(key[c], 0)
    /\ Goto(c, "copy")
    /\ UNCHANGED <<cache, currentSize, sem, mu, dirThere, key, size>>

CreateFails(c) ==
    /\ pc[c] = "evict" /\ ~Full(c) /\ ~dirThere
    /\ Returns(c)
    /\ UNCHANGED store

\* Mutant: a key that is stored again is not counted again.
CopyCountsOnce(c) ==
    /\ pc[c] = "copy"
    /\ \E written \in 0 .. size[c] :
         /\ disk' = With(key[c], written)
         /\ currentSize' = IF Contains(cache, key[c]) THEN currentSize
                           ELSE currentSize + written
    /\ cache' = Added(key[c])
    /\ Returns(c)
    /\ UNCHANGED dirThere

\* io.Copy ends; the reader has no more than the expected size.  An entry the
\* list drops for this one keeps its file and its share of currentSize.
Copy(c) ==
    /\ pc[c] = "copy"
    /\ \E written \in 0 .. size[c] :
         /\ disk' = With(key[c], written)
         /\ currentSize' = currentSize + written
    /\ cache' = Added(key[c])
    /\ Returns(c)
    /\ UNCHANGED dirThere

\* It fails: the file is removed, an entry of an earlier Store is not.
CopyFails(c) ==
    /\ pc[c] = "copy"
    /\ disk' = Without(key[c])
    /\ Returns(c)
    /\ UNCHANGED <<cache, currentSize, dirThere>>

------------------------------------------------------------------------------
(* Get *)

\* The lookup, under the read lock.
Get(c) ==
    /\ pc[c] = "idle" /\ sem < MaxConcurrency /\ mu = NoClient
    /\ \E k \in Keys :
         /\ cache' = Promoted(k)
         /\ IF Contains(cache, k)
            THEN /\ sem' = sem + 1
                 /\ Goto(c, "open")
                 /\ key' = [key EXCEPT ![c] = k]
            ELSE UNCHANGED <<sem, pc, key>>
    /\ UNCHANGED <<disk, currentSize, mu, dirThere, size>>

\* os.Open, without the lock: the file may be being written, or gone.
Open(c) ==
    /\ pc[c] = "open" /\ key[c] \in Files
    /\ Goto(c, "read")
    /\ key' = [key EXCEPT ![c] = NoKey]
    /\ UNCHANGED <<store, sem, mu, size>>

\* Mutant: the error path of os.Open leaves the token taken.
OpenFailsKeepsToken(c) ==
    /\ pc[c] = "open" /\ key[c] \notin Files
    /\ Goto(c, "idle")
    /\ UNCHANGED <<store, sem, mu, key, size>>

OpenFails(c) ==
    /\ pc[c] = "open" /\ key[c] \notin Files
    /\ Returns(c)
    /\ UNCHANGED store

\* semaphoreCloser.Close.
CloseReader(c) ==
    /\ pc[c] = "read"
    /\ Returns(c)
    /\ UNCHANGED store

------------------------------------------------------------------------------
(* CloseFile, GetFileInfo, ListFiles and Close: each is one step *)

\* What CloseFile makes of the list and the directory; the size of what it
\* removes stays in currentSize.
Closed(k) ==
    IF Contains(cache, k) /\ k \in Files
    THEN disk' = Without(k) /\ cache' = RemoveFirst(cache, k)
    ELSE UNCHANGED disk /\ cache' = Promoted(k)

CloseFile(c) ==
    /\ pc[c] = "idle" /\ sem < MaxConcurrency /\ mu = NoClient
    /\ \E k \in Keys : Closed(k)
    /\ UNCHANGED <<currentSize, sem, mu, dirThere, pc, key, size>>

GetFileInfo(c) ==
    /\ pc[c] = "idle" /\ sem < MaxConcurrency /\ mu = NoClient
    /\ \E k \in Keys : Contains(cache, k) /\ cache' = Promoted(k)
    /\ UNCHANGED <<disk, currentSize, sem, mu, dirThere, pc, key, size>>

\* Keys are looked up from the oldest on, up to the first whose Stat fails: they
\* end up behind the others.
ListFiles(c) ==
    /\ pc[c] = "idle" /\ sem < MaxConcurrency /\ mu = NoClient
    /\ \E n \in DOMAIN cache :
         /\ cache[n] \notin Files
         /\ \A i \in 1 .. n - 1 : cache[i] \in Files
         /\ cache' = SubSeq(cache, n + 1, Len(cache)) \o SubSeq(cache, 1, n)
    /\ UNCHANGED <<disk, currentSize, sem, mu, dirThere, pc, key, size>>

\* The files of all entries are removed, in any order; the entries stay.
Close(c) ==
    /\ pc[c] = "idle" /\ mu = NoClient
    /\ disk' = [f \in {k \in Files : ~Contains(cache, k)} |-> disk[f]]
    /\ cache' \in SetToSeqs(ToSet(cache))
    /\ UNCHANGED <<currentSize, sem, mu, dirThere, pc, key, size>>

------------------------------------------------------------------------------
StoreStep(c) ==
    \/ Evict(c) \/ EvictMissing(c) \/ EvictEmpty(c)
    \/ Create(c) \/ CreateFails(c) \/ Copy(c) \/ CopyFails(c)

Call(c) ==
    \/ Store(c) \/ StoreStep(c)
    \/ Get(c) \/ Open(c) \/ OpenFails(c) \/ CloseReader(c)
    \/ CloseFile(c) \/ GetFileInfo(c) \/ ListFiles(c) \/ Close(c)

------------------------------------------------------------------------------
(* Properties *)

\* Every variable keeps its type.
TypeOK ==
    /\ cache \in Seq(Keys) /\ IsInjective(cache) /\ Len(cache) <= CacheSize
    /\ Files \subseteq Keys /\ disk \in [Files -> 0 .. MaxFile]
    /\ currentSize \in Nat
    /\ sem \in 0 .. MaxConcurrency
    /\ mu \in Clients \cup {NoClient}
    /\ dirThere \in BOOLEAN
    /\ pc \in [Clients -> {"idle", "evict", "copy", "open", "read"}]
    /\ key \in [Clients -> Keys \cup {NoKey}]
    /\ size \in [Clients -> 0 .. MaxFile]

\* The files never take more than maxSize: currentSize may count what is gone,
\* but never misses what is there (Store, evict, CloseFile, and the entries the
\* LRU list drops on its own).
DiskBounded == Used <= currentSize /\ currentSize <= MaxSize

\* Store ends and gives the lock back: evict runs out of entries if it never
\* makes enough room.
StoreEnds == mu # NoClient ~> mu = NoClient
==============================================================================
