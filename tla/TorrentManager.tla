---------------------------- MODULE TorrentManager ----------------------------
(***************************************************************************)
(* The torrent manager of internal/torrent: the registry of active         *)
(* torrents, the callers of GetTorrent, one monitor goroutine per          *)
(* registered torrent, the cleanup goroutine, the goroutines that delete   *)
(* the files of a removed torrent, and Manager.Close.                      *)
(*                                                                         *)
(* One step of the model is a stretch of code between two points where     *)
(* another goroutine can interleave: a lock, a channel operation, or an    *)
(* access to shared state made outside m.mu.  Everything done while        *)
(* holding m.mu that no unlocked code observes is one step.                *)
(*                                                                         *)
(* A torrent object of the anacrolix client and the TorrentWrapper put     *)
(* around it are one element of Torrents: an object is wrapped at most     *)
(* once before it is dropped.  Objects nothing refers to any more are      *)
(* reused for the next torrent, as the garbage collector allows.           *)
(***************************************************************************)
EXTENDS Integers, FiniteSets

CONSTANTS
    Hashes,                 \* info hashes clients ask for
    Torrents,               \* pool of torrent objects (a bound: see Free)
    Callers,                \* goroutines that call GetTorrent
    NoHash, NoTorrent,      \* null values
    MaxConcurrentTorrents,  \* config: capacity of m.semaphore
    MaxRetries,             \* config: attempts to add a magnet
    IdleLimit,              \* TorrentTimeout*2, in ticks of the model's clock
    KeepFiles               \* config: keep the files of removed torrents

ASSUME NullsAssumption == NoHash \notin Hashes /\ NoTorrent \notin Torrents
ASSUME CallersAssumption ==
    /\ IsFiniteSet(Callers)
    /\ Callers \cap {"free", "cleanup"} = {}
ASSUME ConfigAssumption ==
    /\ MaxConcurrentTorrents \in Nat
    /\ MaxRetries \in Nat \ {0}
    /\ IdleLimit \in Nat
    /\ KeepFiles \in BOOLEAN

VARIABLES
    phase,         \* m.ctx and Manager.Close
    faulted,       \* has the Go runtime aborted the process
    mu,            \* who has m.mu locked; no read lock spans a step
    torrents,      \* m.torrents
    lastAccessed,  \* m.lastAccessed: age of the entry of a hash, or Absent
    semaphore,     \* len(m.semaphore)
    client,        \* the torrent the client holds for a hash
    hashOf,        \* hash of a torrent object, NoHash before its first use
    info,          \* has the torrent received its info (t.GotInfo is closed)
    complete,      \* t.BytesCompleted() = t.Length()
    touched,       \* age of wrapper.lastAccessed
    monitor,       \* where the monitorTorrent goroutine of a torrent is
    deleting,      \* where the deleteFiles goroutine of a torrent is
    files,         \* hashes with content in m.downloadDir
    cleaner,       \* where cleanupRoutine is
    todo,          \* hashes its range over m.torrents has still to visit
    victim,        \* hash it is removing
    pc,            \* where each caller is in GetTorrent
    target,        \* infoHash argument of each caller
    got,           \* torrent each caller has in hand
    tries          \* loop counter of addTorrentWithRetry, 0 outside it

registry   == <<torrents, lastAccessed>>
objects    == <<hashOf, info, complete, touched>>
cleanup    == <<cleaner, todo, victim>>
callerVars == <<pc, target, got, tries>>
vars == <<phase, faulted, mu, semaphore, client, monitor, deleting, registry,
          objects, files, cleanup, callerVars>>

Absent == -1
Ages   == 0 .. IdleLimit + 1      \* IdleLimit + 1 stands for every longer age
Older(age) == IF age \in 0 .. IdleLimit THEN age + 1 ELSE age
IsIdle(age) == age > IdleLimit

Adding    == {"add", "await"}                     \* inside m.mu.Lock
Admitted  == Adding \cup {"lock", "release"}      \* hold a semaphore token
Serving   == {"store", "touch", "held"}           \* hold a torrent, not m.mu
Outside   == {"idle", "limiter", "lookup", "semaphore"}
Locations == Outside \cup Admitted \cup Serving

Referenced(t) ==
    \/ \E h \in Hashes : client[h] = t \/ torrents[h] = t
    \/ \E c \in Callers : got[c] = t
    \/ monitor[t] # "none"
    \/ deleting[t] # "none"
Free == {t \in Torrents : ~Referenced(t)}
Live(t) == \E h \in Hashes : client[h] = t      \* not closed by Drop or Close

Up == ~faulted
Running == phase = "running"

Init ==
    /\ phase = "running"
    /\ faulted = FALSE
    /\ mu = "free"
    /\ torrents = [h \in Hashes |-> NoTorrent]
    /\ lastAccessed = [h \in Hashes |-> Absent]
    /\ semaphore = 0
    /\ client = [h \in Hashes |-> NoTorrent]
    /\ hashOf = [t \in Torrents |-> NoHash]
    /\ info = [t \in Torrents |-> FALSE]
    /\ complete = [t \in Torrents |-> FALSE]
    /\ touched = [t \in Torrents |-> 0]
    /\ monitor = [t \in Torrents |-> "none"]
    /\ deleting = [t \in Torrents |-> "none"]
    /\ files = {}
    /\ cleaner = "select"
    /\ todo = {}
    /\ victim = NoHash
    /\ pc = [c \in Callers |-> "idle"]
    /\ target = [c \in Callers |-> NoHash]
    /\ got = [c \in Callers |-> NoTorrent]
    /\ tries = [c \in Callers |-> 0]

Goto(c, loc) == pc' = [pc EXCEPT ![c] = loc]

------------------------------------------------------------------------------
(* GetTorrent, before the write lock *)

\* A handler calls GetTorrent.
Request(c) ==
    /\ Up /\ pc[c] = "idle"
    /\ Goto(c, "limiter")
    /\ \E h \in Hashes : target' = [target EXCEPT ![c] = h]
    /\ UNCHANGED <<phase, faulted, mu, semaphore, client, monitor, deleting,
                   registry, objects, files, cleanup, got, tries>>

\* m.limiter.Wait returns: with a token, or with an error once m.ctx is done.
LimiterPass(c) ==
    /\ Running /\ pc[c] = "limiter"
    /\ Goto(c, "lookup")
    /\ UNCHANGED <<phase, faulted, mu, semaphore, client, monitor, deleting,
                   registry, objects, files, cleanup, target, got, tries>>

LimiterFail(c) ==
    /\ Up /\ ~Running /\ pc[c] = "limiter"
    /\ Goto(c, "idle")
    /\ target' = [target EXCEPT ![c] = NoHash]
    /\ UNCHANGED <<phase, faulted, mu, semaphore, client, monitor, deleting,
                   registry, objects, files, cleanup, got, tries>>

\* The lookup under the read lock; the lock is released before its result is
\* used.
Lookup(c) ==
    /\ Up /\ pc[c] = "lookup" /\ mu = "free"
    /\ LET t == torrents[target[c]] IN
         /\ got' = [got EXCEPT ![c] = t]
         /\ Goto(c, IF t # NoTorrent THEN "store" ELSE "semaphore")
    /\ UNCHANGED <<phase, faulted, mu, semaphore, client, monitor, deleting,
                   registry, objects, files, cleanup, target, tries>>

\* updateLastAccessed on the hit path, without m.mu: first the sync.Map ...
StoreAccess(c) ==
    /\ Up /\ pc[c] = "store"
    /\ lastAccessed' = [lastAccessed EXCEPT ![target[c]] = 0]
    /\ Goto(c, "touch")
    /\ UNCHANGED <<phase, faulted, mu, semaphore, client, monitor, deleting,
                   torrents, objects, files, cleanup, target, got, tries>>

\* ... then m.torrents is read again, unlocked, and the wrapper found there
\* (not necessarily the one in hand) is touched.
TouchWrapper(c) ==
    /\ Up /\ pc[c] = "touch"
    /\ LET t == torrents[target[c]] IN
         touched' = IF t = NoTorrent THEN touched ELSE [touched EXCEPT ![t] = 0]
    /\ Goto(c, "held")
    /\ UNCHANGED <<phase, faulted, mu, semaphore, client, monitor, deleting,
                   registry, hashOf, info, complete, files, cleanup, target,
                   got, tries>>

\* The non-blocking send on m.semaphore.
TrySemaphore(c) ==
    /\ Up /\ pc[c] = "semaphore"
    /\ semaphore < MaxConcurrentTorrents
    /\ semaphore' = semaphore + 1
    /\ Goto(c, "lock")
    /\ UNCHANGED <<phase, faulted, mu, client, monitor, deleting, registry,
                   objects, files, cleanup, target, got, tries>>

SemaphoreFull(c) ==
    /\ Up /\ pc[c] = "semaphore"
    /\ semaphore >= MaxConcurrentTorrents
    /\ Goto(c, "idle")
    /\ target' = [target EXCEPT ![c] = NoHash]
    /\ UNCHANGED <<phase, faulted, mu, semaphore, client, monitor, deleting,
                   registry, objects, files, cleanup, got, tries>>

------------------------------------------------------------------------------
(* GetTorrent, under the write lock *)

\* The second lookup finds the torrent another caller added meanwhile.
RecheckHit(c) ==
    /\ Up /\ pc[c] = "lock" /\ mu = "free"
    /\ LET t == torrents[target[c]] IN
         /\ t # NoTorrent
         /\ got' = [got EXCEPT ![c] = t]
         /\ touched' = [touched EXCEPT ![t] = 0]
    /\ lastAccessed' = [lastAccessed EXCEPT ![target[c]] = 0]
    /\ Goto(c, "release")
    /\ UNCHANGED <<phase, faulted, mu, semaphore, client, monitor, deleting,
                   torrents, hashOf, info, complete, files, cleanup, target,
                   tries>>

\* Mutant: the lock is not kept while the torrent is added.
RecheckMissUnlocks(c) ==
    /\ Up /\ pc[c] = "lock" /\ mu = "free"
    /\ torrents[target[c]] = NoTorrent
    /\ Goto(c, "add")
    /\ UNCHANGED <<phase, faulted, mu, semaphore, client, monitor, deleting,
                   registry, objects, files, cleanup, target, got,
                   tries>>

RecheckMiss(c) ==
    /\ Up /\ pc[c] = "lock" /\ mu = "free"
    /\ torrents[target[c]] = NoTorrent
    /\ mu' = c
    /\ Goto(c, "add")
    /\ UNCHANGED <<phase, faulted, semaphore, client, monitor, deleting,
                   registry, objects, files, cleanup, target, got,
                   tries>>

\* client.AddMagnet succeeds: it returns the torrent the client has for the
\* hash, or a new one.
AddMagnet(c) ==
    /\ Up /\ pc[c] = "add"
    /\ LET h == target[c] IN
         IF client[h] # NoTorrent
         THEN /\ got' = [got EXCEPT ![c] = client[h]]
              /\ UNCHANGED <<client, objects>>
         ELSE \E t \in Free :
              /\ got' = [got EXCEPT ![c] = t]
              /\ client' = [client EXCEPT ![h] = t]
              /\ hashOf' = [hashOf EXCEPT ![t] = h]
              /\ info' = [info EXCEPT ![t] = FALSE]
              /\ complete' = [complete EXCEPT ![t] = FALSE]
              /\ touched' = [touched EXCEPT ![t] = 0]
    /\ tries' = [tries EXCEPT ![c] = 0]
    /\ Goto(c, "await")
    /\ UNCHANGED <<phase, faulted, mu, semaphore, monitor, deleting, registry,
                   files, cleanup, target>>

\* Mutant: one attempt too many.
AddFailsOnceMore(c) ==
    /\ Up /\ pc[c] = "add"
    /\ IF tries[c] + 1 <= MaxRetries
       THEN tries' = [tries EXCEPT ![c] = @ + 1] /\ UNCHANGED <<mu, pc>>
       ELSE tries' = [tries EXCEPT ![c] = 0] /\ mu' = "free" /\ Goto(c, "release")
    /\ UNCHANGED <<phase, faulted, semaphore, client, monitor, deleting,
                   registry, objects, files, cleanup, target, got>>

\* Mutant: the error path returns without the unlock.
AddFailsKeepsLock(c) ==
    /\ Up /\ pc[c] = "add"
    /\ IF tries[c] + 1 < MaxRetries
       THEN tries' = [tries EXCEPT ![c] = @ + 1] /\ UNCHANGED <<mu, pc>>
       ELSE tries' = [tries EXCEPT ![c] = 0] /\ UNCHANGED mu /\ Goto(c, "release")
    /\ UNCHANGED <<phase, faulted, semaphore, client, monitor, deleting,
                   registry, objects, files, cleanup, target, got>>

\* client.AddMagnet fails: try again after a pause, m.mu still held, or give
\* up.  The deferred unlock runs before the deferred semaphore release.
AddFails(c) ==
    /\ Up /\ pc[c] = "add"
    /\ IF tries[c] + 1 < MaxRetries
       THEN tries' = [tries EXCEPT ![c] = @ + 1] /\ UNCHANGED <<mu, pc>>
       ELSE tries' = [tries EXCEPT ![c] = 0] /\ mu' = "free" /\ Goto(c, "release")
    /\ UNCHANGED <<phase, faulted, semaphore, client, monitor, deleting,
                   registry, objects, files, cleanup, target, got>>

\* 30 seconds pass, or m.ctx is cancelled.  The torrent stays in the client.
AwaitExpires(c) ==
    /\ Up /\ pc[c] = "await"
    /\ mu' = "free"
    /\ got' = [got EXCEPT ![c] = NoTorrent]
    /\ Goto(c, "release")
    /\ UNCHANGED <<phase, faulted, semaphore, client, monitor, deleting,
                   registry, objects, files, cleanup, target, tries>>

\* Mutant: the access time of a new torrent is not stored.
InsertUntracked(c) ==
    /\ Up /\ pc[c] = "await" /\ info[got[c]]
    /\ LET h == target[c]
           t == got[c] IN
         /\ torrents' = [torrents EXCEPT ![h] = t]
         /\ UNCHANGED lastAccessed
         /\ touched' = [touched EXCEPT ![t] = 0]
         /\ monitor' = [monitor EXCEPT ![t] = "select"]
    /\ mu' = "free"
    /\ Goto(c, "release")
    /\ UNCHANGED <<phase, faulted, semaphore, client, deleting, hashOf, info,
                   complete, files, cleanup, target, got, tries>>

\* The info is there: the wrapper is registered, its monitor started and m.mu
\* released.
Insert(c) ==
    /\ Up /\ pc[c] = "await" /\ info[got[c]]
    /\ LET h == target[c]
           t == got[c] IN
         /\ torrents' = [torrents EXCEPT ![h] = t]
         /\ lastAccessed' = [lastAccessed EXCEPT ![h] = 0]
         /\ touched' = [touched EXCEPT ![t] = 0]
         /\ monitor' = [monitor EXCEPT ![t] = "select"]
    /\ mu' = "free"
    /\ Goto(c, "release")
    /\ UNCHANGED <<phase, faulted, semaphore, client, deleting, hashOf, info,
                   complete, files, cleanup, target, got, tries>>

\* Mutant: the token is released on success only.
ReleaseSemaphoreIfAdded(c) ==
    /\ Up /\ pc[c] = "release"
    /\ semaphore' = IF got[c] = NoTorrent THEN semaphore ELSE semaphore - 1
    /\ IF got[c] = NoTorrent
       THEN Goto(c, "idle") /\ target' = [target EXCEPT ![c] = NoHash]
       ELSE Goto(c, "held") /\ UNCHANGED target
    /\ UNCHANGED <<phase, faulted, mu, client, monitor, deleting, registry,
                   objects, files, cleanup, got, tries>>

\* The deferred receive on m.semaphore; GetTorrent returns.
ReleaseSemaphore(c) ==
    /\ Up /\ pc[c] = "release"
    /\ semaphore' = semaphore - 1
    /\ IF got[c] = NoTorrent
       THEN Goto(c, "idle") /\ target' = [target EXCEPT ![c] = NoHash]
       ELSE Goto(c, "held") /\ UNCHANGED target
    /\ UNCHANGED <<phase, faulted, mu, client, monitor, deleting, registry,
                   objects, files, cleanup, got, tries>>

\* The handler that called GetTorrent is done with the torrent.
Finish(c) ==
    /\ Up /\ pc[c] = "held"
    /\ Goto(c, "idle")
    /\ target' = [target EXCEPT ![c] = NoHash]
    /\ got' = [got EXCEPT ![c] = NoTorrent]
    /\ UNCHANGED <<phase, faulted, mu, semaphore, client, monitor, deleting,
                   registry, objects, files, cleanup, tries>>

------------------------------------------------------------------------------
(* The torrent client and the clock *)

\* A peer sends the info of a torrent.
InfoArrives(t) ==
    /\ Up /\ phase # "closed"
    /\ Live(t) /\ ~info[t]
    /\ info' = [info EXCEPT ![t] = TRUE]
    /\ UNCHANGED <<phase, faulted, mu, semaphore, client, monitor, deleting,
                   registry, hashOf, complete, touched, files, cleanup,
                   callerVars>>

\* The content of a torrent is written to disk and verified.
Download(t) ==
    /\ Up /\ Live(t) /\ info[t] /\ ~complete[t]
    /\ complete' = [complete EXCEPT ![t] = TRUE]
    /\ files' = files \cup {hashOf[t]}
    /\ UNCHANGED <<phase, faulted, mu, semaphore, client, monitor, deleting,
                   registry, hashOf, info, touched, cleanup,
                   callerVars>>

\* Time passes.  Only a monitor in its loop ever reads the age of a wrapper, and
\* only the entries of registered hashes are ever loaded.
Tick ==
    /\ Up
    /\ lastAccessed' = [h \in Hashes |->
                          IF torrents[h] = NoTorrent THEN lastAccessed[h]
                          ELSE Older(lastAccessed[h])]
    /\ touched' = [t \in Torrents |->
                     IF monitor[t] = "select" THEN Older(touched[t])
                     ELSE touched[t]]
    /\ UNCHANGED <<phase, faulted, mu, semaphore, client, monitor, deleting,
                   torrents, hashOf, info, complete, files, cleanup,
                   callerVars>>

------------------------------------------------------------------------------
(* Removal of torrents *)

\* Mutant: the torrent is dropped but stays in the map.
RemoveNotFromMap(h) ==
    LET t == torrents[h] IN
      /\ client' = [client EXCEPT ![h] = IF @ = t THEN NoTorrent ELSE @]
      /\ UNCHANGED <<torrents, lastAccessed>>
      /\ deleting' = IF KeepFiles THEN deleting
                     ELSE [deleting EXCEPT ![t] = "files"]

\* Torrent.Drop followed by the two deletes and go m.deleteFiles, for the
\* torrent registered under h.
Remove(h) ==
    LET t == torrents[h] IN
      /\ client' = [client EXCEPT ![h] = IF @ = t THEN NoTorrent ELSE @]
      /\ torrents' = [torrents EXCEPT ![h] = NoTorrent]
      /\ lastAccessed' = [lastAccessed EXCEPT ![h] = Absent]
      /\ deleting' = IF KeepFiles THEN deleting
                     ELSE [deleting EXCEPT ![t] = "files"]

\* Mutant: the monitor ends on an idle torrent whether complete or not.
MonitorTickGivesUp(t) ==
    /\ Up /\ monitor[t] = "select" /\ mu = "free"
    /\ monitor' = [monitor EXCEPT ![t] =
                     IF torrents[hashOf[t]] = NoTorrent THEN "none"
                     ELSE IF IsIdle(touched[t]) /\ complete[t] THEN "idle"
                     ELSE IF IsIdle(touched[t]) THEN "none"
                     ELSE "select"]
    /\ touched' = IF monitor'[t] = "select" THEN touched
                  ELSE [touched EXCEPT ![t] = 0]
    /\ UNCHANGED <<phase, faulted, mu, semaphore, client, deleting, registry,
                   hashOf, info, complete, files, cleanup, callerVars>>

\* monitorTorrent: its ticker fires.  It ends if nothing is registered for the
\* hash; it goes on to remove if its own wrapper is idle and complete.  Only a
\* registered torrent is ever touched, so reading the wrapper in a later step
\* than the map would show nothing else.
MonitorTick(t) ==
    /\ Up /\ monitor[t] = "select" /\ mu = "free"
    /\ monitor' = [monitor EXCEPT ![t] =
                     IF torrents[hashOf[t]] = NoTorrent THEN "none"
                     ELSE IF IsIdle(touched[t]) /\ complete[t] THEN "idle"
                     ELSE "select"]
    /\ touched' = IF monitor'[t] = "select" THEN touched
                  ELSE [touched EXCEPT ![t] = 0]
    /\ UNCHANGED <<phase, faulted, mu, semaphore, client, deleting, registry,
                   hashOf, info, complete, files, cleanup, callerVars>>

\* MaxDownloadTime has passed since the monitor started.
MonitorExpires(t) ==
    /\ Up /\ monitor[t] = "select"
    /\ monitor' = [monitor EXCEPT ![t] = "expired"]
    /\ touched' = [touched EXCEPT ![t] = 0]
    /\ UNCHANGED <<phase, faulted, mu, semaphore, client, deleting, registry,
                   hashOf, info, complete, files, cleanup, callerVars>>

\* removeTorrent(infoHash): whatever is registered for the hash by now goes.
MonitorRemove(t) ==
    /\ Up /\ monitor[t] \in {"idle", "expired"} /\ mu = "free"
    /\ monitor' = [monitor EXCEPT ![t] = "none"]
    /\ IF torrents[hashOf[t]] # NoTorrent
       THEN Remove(hashOf[t])
       ELSE UNCHANGED <<client, registry, deleting>>
    /\ UNCHANGED <<phase, faulted, mu, semaphore, objects, files, cleanup,
                   callerVars>>

\* Mutant: the monitor does not listen to Closed().
MonitorStopsOnCancel(t) ==
    /\ Up /\ monitor[t] = "select"
    /\ ~Running
    /\ monitor' = [monitor EXCEPT ![t] = "none"]
    /\ touched' = [touched EXCEPT ![t] = 0]
    /\ UNCHANGED <<phase, faulted, mu, semaphore, client, deleting, registry,
                   hashOf, info, complete, files, cleanup, callerVars>>

\* wrapper.Torrent.Closed() or m.ctx.Done() is ready.
MonitorStops(t) ==
    /\ Up /\ monitor[t] = "select"
    /\ ~Live(t) \/ ~Running
    /\ monitor' = [monitor EXCEPT ![t] = "none"]
    /\ touched' = [touched EXCEPT ![t] = 0]
    /\ UNCHANGED <<phase, faulted, mu, semaphore, client, deleting, registry,
                   hashOf, info, complete, files, cleanup, callerVars>>

\* cleanupRoutine: its ticker fires; it holds m.mu while it ranges over the map.
CleanupTick ==
    /\ Up /\ cleaner = "select" /\ mu = "free"
    /\ mu' = "cleanup"
    /\ cleaner' = "range"
    /\ todo' = {h \in Hashes : torrents[h] # NoTorrent}
    /\ UNCHANGED <<phase, faulted, semaphore, client, monitor, deleting,
                   registry, objects, files, victim, callerVars>>

\* Mutant: the comparison of the age is the wrong way round.
CleanupVisitYoung(h) ==
    /\ Up /\ cleaner = "range" /\ h \in todo
    /\ todo' = todo \ {h}
    /\ IF lastAccessed[h] < IdleLimit
       THEN cleaner' = "evict" /\ victim' = h
       ELSE UNCHANGED <<cleaner, victim>>
    /\ UNCHANGED <<phase, faulted, mu, semaphore, client, monitor, deleting,
                   registry, objects, files, callerVars>>

\* It loads the entry of the sync.Map, which callers store to without m.mu.
CleanupVisit(h) ==
    /\ Up /\ cleaner = "range" /\ h \in todo
    /\ todo' = todo \ {h}
    /\ IF IsIdle(lastAccessed[h])
       THEN cleaner' = "evict" /\ victim' = h
       ELSE UNCHANGED <<cleaner, victim>>
    /\ UNCHANGED <<phase, faulted, mu, semaphore, client, monitor, deleting,
                   registry, objects, files, callerVars>>

CleanupEvict ==
    /\ Up /\ cleaner = "evict"
    /\ Remove(victim)
    /\ cleaner' = "range"
    /\ victim' = NoHash
    /\ UNCHANGED <<phase, faulted, mu, semaphore, monitor, objects, files,
                   todo, callerVars>>

\* Mutant: the lock is not released after the range.
CleanupDoneKeepsLock ==
    /\ Up /\ cleaner = "range" /\ todo = {}
    /\ UNCHANGED mu
    /\ cleaner' = "select"
    /\ UNCHANGED <<phase, faulted, semaphore, client, monitor, deleting,
                   registry, objects, files, todo, victim, callerVars>>

CleanupDone ==
    /\ Up /\ cleaner = "range" /\ todo = {}
    /\ mu' = "free"
    /\ cleaner' = "select"
    /\ UNCHANGED <<phase, faulted, semaphore, client, monitor, deleting,
                   registry, objects, files, todo, victim, callerVars>>

CleanupStops ==
    /\ Up /\ cleaner = "select" /\ ~Running
    /\ cleaner' = "stopped"
    /\ UNCHANGED <<phase, faulted, mu, semaphore, client, monitor, deleting,
                   registry, objects, files, todo, victim, callerVars>>

\* deleteFiles of a removed torrent: by path, so by hash.  The removal may
\* fail for good after its retries.
DeleteFiles(t) ==
    /\ Up /\ deleting[t] = "files"
    /\ files' \in {files, files \ {hashOf[t]}}
    /\ deleting' = [deleting EXCEPT ![t] = "none"]
    /\ UNCHANGED <<phase, faulted, mu, semaphore, client, monitor, registry,
                   objects, cleanup, callerVars>>

------------------------------------------------------------------------------
(* Manager.Close, and the fault of the Go runtime *)

Cancel ==
    /\ Up /\ phase = "running"
    /\ phase' = "cancelled"
    /\ UNCHANGED <<faulted, mu, semaphore, client, monitor, deleting,
                   registry, objects, files, cleanup, callerVars>>

\* Mutant: the torrents are left in the client.
CloseForgetsClient ==
    /\ Up /\ phase = "cancelled" /\ mu = "free"
    /\ phase' = "closed"
    /\ UNCHANGED client
    /\ files' = {}
    /\ UNCHANGED <<faulted, mu, semaphore, monitor, deleting, registry, objects,
                   cleanup, callerVars>>

\* Every torrent is dropped and the client closed, which drops the torrents
\* the map does not know; the download directory is removed.  m.torrents and
\* m.lastAccessed keep their entries.
Close ==
    /\ Up /\ phase = "cancelled" /\ mu = "free"
    /\ phase' = "closed"
    /\ client' = [h \in Hashes |-> NoTorrent]
    /\ files' = {}
    /\ UNCHANGED <<faulted, mu, semaphore, monitor, deleting, registry, objects,
                   cleanup, callerVars>>

\* Some goroutine holding, or just about to take, m.mu writes m.torrents next.
MapWriter ==
    \/ \E c \in Callers : pc[c] = "await" /\ info[got[c]]
    \/ cleaner = "evict"
    \/ \E t \in Torrents : /\ monitor[t] \in {"idle", "expired"}
                           /\ mu = "free"
                           /\ torrents[hashOf[t]] # NoTorrent

\* The unlocked read of m.torrents in updateLastAccessed meets a write: the
\* runtime may detect it and abort the process.
MapFault(c) ==
    /\ Up /\ pc[c] = "touch" /\ MapWriter
    /\ faulted' = TRUE
    /\ UNCHANGED <<phase, mu, semaphore, client, monitor, deleting, registry,
                   objects, files, cleanup, callerVars>>

Faulted == faulted /\ UNCHANGED vars

------------------------------------------------------------------------------
CallerStep(c) ==
    \/ LimiterPass(c) \/ LimiterFail(c) \/ Lookup(c)
    \/ StoreAccess(c) \/ TouchWrapper(c)
    \/ TrySemaphore(c) \/ SemaphoreFull(c)
    \/ RecheckHit(c) \/ RecheckMiss(c)
    \/ AddMagnet(c) \/ AddFails(c) \/ AwaitExpires(c)
    \/ Insert(c) \/ ReleaseSemaphore(c)

MonitorStep(t) ==
    \/ MonitorTick(t) \/ MonitorExpires(t)
    \/ MonitorRemove(t) \/ MonitorStops(t)

CleanupStep ==
    \/ CleanupTick \/ \E h \in Hashes : CleanupVisit(h)
    \/ CleanupEvict \/ CleanupDone \/ CleanupStops

Next ==
    \/ \E c \in Callers : \/ Request(c) \/ CallerStep(c) \/ Finish(c)
                          \/ MapFault(c)
    \/ \E t \in Torrents : \/ InfoArrives(t) \/ Download(t) \/ MonitorStep(t)
                           \/ DeleteFiles(t)
    \/ CleanupStep \/ Tick
    \/ Cancel \/ Close
    \/ Faulted

Spec == Init /\ [][Next]_vars

\* Fairness.  A goroutine that can run does, so that whoever holds m.mu goes on
\* and releases it: every wait made under the lock ends by itself (30 seconds
\* for the info, MaxRetries magnets, a finite range over the map).  It is strong
\* fairness because m.mu is free again and again rather than for good:
\* sync.RWMutex blocks new readers once a writer waits and serves waiters in
\* order, so nobody waits for ever for a lock that keeps being released.
\* Nothing obliges a client to call, a peer to answer, or Close to be called.
FairSpec ==
    /\ Spec
    /\ \A c \in Callers : SF_vars(CallerStep(c))
    /\ SF_vars(CleanupStep) /\ SF_vars(Close)
    /\ \A t \in Torrents : SF_vars(MonitorRemove(t) \/ MonitorStops(t))

------------------------------------------------------------------------------
(* Safety *)

\* Every variable keeps its type.
TypeOK ==
    /\ phase \in {"running", "cancelled", "closed"}
    /\ faulted \in BOOLEAN
    /\ mu \in Callers \cup {"free", "cleanup"}
    /\ torrents \in [Hashes -> Torrents \cup {NoTorrent}]
    /\ lastAccessed \in [Hashes -> Ages \cup {Absent}]
    /\ semaphore \in 0 .. MaxConcurrentTorrents
    /\ client \in [Hashes -> Torrents \cup {NoTorrent}]
    /\ hashOf \in [Torrents -> Hashes \cup {NoHash}]
    /\ info \in [Torrents -> BOOLEAN]
    /\ complete \in [Torrents -> BOOLEAN]
    /\ touched \in [Torrents -> Ages]
    /\ monitor \in [Torrents -> {"none", "select", "idle", "expired"}]
    /\ deleting \in [Torrents -> {"none", "files"}]
    /\ files \subseteq Hashes
    /\ cleaner \in {"select", "range", "evict", "stopped"}
    /\ todo \subseteq Hashes
    /\ victim \in Hashes \cup {NoHash}
    /\ pc \in [Callers -> Locations]
    /\ target \in [Callers -> Hashes \cup {NoHash}]
    /\ got \in [Callers -> Torrents \cup {NoTorrent}]
    /\ tries \in [Callers -> 0 .. MaxRetries - 1]

\* Until Close is done, the torrent registered for a hash is the one the
\* client holds for that hash: no path drops a torrent and leaves it in
\* m.torrents, or registers another than the client's (GetTorrent,
\* removeTorrent, cleanupRoutine).
RegisteredIsLive ==
    phase # "closed" =>
      \A h \in Hashes : torrents[h] # NoTorrent => client[h] = torrents[h]

\* A caller that adds a torrent finds no other registered for its hash from
\* the second lookup to the insertion (GetTorrent, lines 36 to 54): two
\* concurrent requests never register, and monitor, one torrent twice.
AddsOnlyMissing ==
    \A c \in Callers : pc[c] \in Adding => torrents[target[c]] = NoTorrent

\* While the manager runs every registered torrent has a monitor goroutine:
\* none of the monitor's returns leaves a registered torrent unwatched.
RegisteredIsMonitored ==
    Running => \A h \in Hashes :
      torrents[h] # NoTorrent => monitor[torrents[h]] # "none"

\* Every registered torrent has an entry in the sync.Map, although callers
\* write it without m.mu: cleanupRoutine skips a torrent without one, for ever.
RegisteredIsTracked ==
    \A h \in Hashes : torrents[h] # NoTorrent => lastAccessed[h] # Absent

\* The semaphore counts the callers between its acquisition and the deferred
\* release, on every path out of GetTorrent.
AdmittedCallers == {c \in Callers : pc[c] \in Admitted}
SemaphoreCounts == semaphore = Cardinality(AdmittedCallers)

\* Once Close is done no registered torrent is live, none becomes live again
\* and no content comes back to the removed download directory, although a
\* caller past the limiter can still add a magnet.
ClosedIsQuiet ==
    phase = "closed" =>
      /\ files = {}
      /\ \A h \in Hashes : torrents[h] # NoTorrent => client[h] # torrents[h]

(* The inductive invariant behind the safety properties *)

\* m.mu is held by exactly the goroutines that are inside it.
LockInv ==
    /\ \A c \in Callers : pc[c] \in Adding <=> mu = c
    /\ cleaner \in {"range", "evict"} <=> mu = "cleanup"

\* What a caller has in hand at each of its locations.
CallerInv ==
    \A c \in Callers :
      /\ IF pc[c] = "idle" THEN target[c] = NoHash ELSE target[c] \in Hashes
      /\ pc[c] \in Outside \cup {"lock", "add"} => got[c] = NoTorrent
      /\ pc[c] \in Serving \cup {"await"} => got[c] \in Torrents
      /\ pc[c] = "await" => client[target[c]] = got[c]

\* The torrents the cleanup has still to visit, and its victim, are registered.
CleanupInv ==
    cleaner \in {"range", "evict"} =>
      /\ \A h \in todo : torrents[h] # NoTorrent
      /\ cleaner = "evict" =>
           victim \in Hashes \ todo /\ torrents[victim] # NoTorrent

\* A torrent serves one hash.
HashInv ==
    /\ \A h \in Hashes, t \in Torrents :
         client[h] = t \/ torrents[h] = t => hashOf[t] = h
    /\ \A t \in Torrents : monitor[t] # "none" => hashOf[t] \in Hashes

\* After Close the client gets no info, so no caller can register a torrent.
ClosedInv ==
    phase = "closed" =>
      \A h \in Hashes : client[h] # NoTorrent => ~info[client[h]]

IInv ==
    /\ TypeOK /\ LockInv /\ CallerInv /\ CleanupInv /\ HashInv /\ ClosedInv
    /\ RegisteredIsLive /\ AddsOnlyMissing /\ RegisteredIsMonitored
    /\ RegisteredIsTracked /\ SemaphoreCounts /\ ClosedIsQuiet

(* What callers see of the manager *)

\* A call has its answer once it has a torrent that is registered.
Registry == INSTANCE TorrentRegistry WITH
    registered <- torrents,
    open       <- phase # "closed",
    asked      <- target,
    answer     <- [c \in Callers |-> IF pc[c] \in Serving \cup {"release"}
                                    THEN got[c] ELSE NoTorrent]

\* GetTorrent is atomic to its callers: the torrent it returns was registered
\* for its hash at some instant of the call, one torrent is never registered
\* twice nor over another, and none once Close is done, whatever the monitors,
\* the cleanup and other calls do between its two lookups and its insertion.
ImplementsRegistry == Registry!Spec

(* Liveness *)

\* Every call of GetTorrent returns, whatever holds m.mu meanwhile.
CallReturns ==
    \A c \in Callers : pc[c] = "limiter" ~> (pc[c] \in {"idle", "held"} \/ ~Up)

\* A torrent nobody has accessed for longer than the limit is removed, unless
\* it is accessed after all or the manager stops.
InactiveIsRemoved ==
    \A h \in Hashes :
      (torrents[h] # NoTorrent /\ IsIdle(lastAccessed[h]))
        ~> \/ torrents[h] = NoTorrent \/ ~IsIdle(lastAccessed[h])
           \/ ~Running \/ ~Up

\* Close ends: whoever holds m.mu when it is called releases it.
CloseCompletes == phase = "cancelled" ~> (phase = "closed" \/ ~Up)

\* The monitor of a torrent that was dropped ends, even when another torrent
\* is registered for its hash by then.
MonitorEnds ==
    \A t \in Torrents :
      (monitor[t] # "none" /\ ~Live(t)) ~> (monitor[t] = "none" \/ ~Up)
==============================================================================
