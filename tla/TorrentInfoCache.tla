------------------------- MODULE TorrentInfoCache -------------------------
(***************************************************************************)
(* GET /torrent/{infoHash}: requests for the same torrent share one call    *)
(* (singleflight), whose first caller, the leader, looks the information up *)
(* in a cache, or waits for the torrent's metadata and stores it there.     *)
(*                                                                          *)
(* The cache is a sync.Map without a lock of its own: what it counts, looks *)
(* for and deletes are separate steps, of evictIfNeeded in any number of    *)
(* handlers and of cleanupRoutine.  One Range is taken as one step.         *)
(***************************************************************************)
EXTENDS Naturals, Sequences, FiniteSets, SequencesExt

CONSTANTS
    Requests,    \* each is made once (a bound)
    Hashes,
    MaxSize,     \* maxSize: zero keeps nothing, below zero evictIfNeeded spins
    TTL,         \* ttl, in ticks
    None

ASSUME CacheAssumption ==
    /\ MaxSize \in Nat /\ TTL \in Nat \ {0}
    /\ None \notin Requests \cup Hashes

VARIABLES
    entries,   \* the cached hashes in the order of their CacheTime
    age,       \* time since the CacheTime of each entry
    flight,    \* the request that leads the call for a hash, or None
    pc,        \* where a request is
    hash,      \* the hash it asks for
    ctx,       \* its context: "live", or "ended" by the client or the timeout
    victim,    \* what its evictIfNeeded is about to delete
    doomed,    \* what cleanupRoutine is about to delete, or None
    lost       \* history: hashes whose last entry has been deleted

vars == <<entries, age, flight, pc, hash, ctx, victim, doomed, lost>>
cache == <<entries, age, lost>>
request == <<hash, ctx>>

Leading == {"get", "torrent", "info", "count", "oldest", "delete", "final"}
Answers == {"complete", "empty", "error"}
Cached == ToSet(entries)

Init ==
    /\ entries = <<>>
    /\ age = [h \in Hashes |-> 0]
    /\ flight = [h \in Hashes |-> None]
    /\ pc = [r \in Requests |-> "idle"]
    /\ hash = [r \in Requests |-> None]
    /\ ctx = [r \in Requests |-> "live"]
    /\ victim = [r \in Requests |-> None]
    /\ doomed = None
    /\ lost = {}

Goto(r, loc) == pc' = [pc EXCEPT ![r] = loc]

\* Get of the cache finds an entry that has not expired.
Fresh(h) == h \in Cached /\ age[h] < TTL

\* Delete of the map; a key that is not there is no error.
Delete(h) ==
    /\ entries' = RemoveFirst(entries, h)
    /\ lost' = lost \cup (Cached \cap {h})
    /\ age' = [g \in Hashes |-> IF g = h THEN 0 ELSE age[g]]

\* The shared call returns: all that wait for it get the leader's answer.
Answer(r, answer) ==
    /\ pc' = [q \in Requests |->
                IF q = r \/ (pc[q] = "wait" /\ hash[q] = hash[r]) THEN answer ELSE pc[q]]
    /\ flight' = [flight EXCEPT ![hash[r]] = None]

------------------------------------------------------------------------------
(* GetTorrentInfo *)

Arrive(r, h) ==
    /\ pc[r] = "idle"
    /\ hash' = [hash EXCEPT ![r] = h]
    /\ IF flight[h] = None
       THEN flight' = [flight EXCEPT ![h] = r] /\ Goto(r, "get")
       ELSE Goto(r, "wait") /\ UNCHANGED flight
    /\ UNCHANGED <<cache, ctx, victim, doomed>>

\* The client goes away, or the 30 seconds pass.  Nobody looks at the context
\* of a request that waits for another, nor later.
CtxEnds(r) ==
    /\ pc[r] \in {"get", "torrent", "info"} /\ ctx[r] = "live"
    /\ ctx' = [ctx EXCEPT ![r] = "ended"]
    /\ UNCHANGED <<cache, flight, pc, hash, victim, doomed>>

Get(r) ==
    /\ pc[r] = "get"
    /\ IF Fresh(hash[r]) THEN Answer(r, "complete") ELSE Goto(r, "torrent") /\ UNCHANGED flight
    /\ UNCHANGED <<cache, request, victim, doomed>>

\* Mutant: the manager's error ends the leader's request and not the call.
GetTorrentErrUnshared(r) ==
    /\ pc[r] = "torrent"
    /\ Goto(r, "error")
    /\ UNCHANGED <<cache, flight, request, victim, doomed>>

\* tm.GetTorrent fails, ...
GetTorrentErr(r) ==
    /\ pc[r] = "torrent"
    /\ Answer(r, "error")
    /\ UNCHANGED <<cache, request, victim, doomed>>

\* Mutant: the handler does not wait for its goroutine.
GetTorrentUnawaited(r) ==
    /\ pc[r] = "torrent"
    /\ \E loc \in {"info", "final"} : Goto(r, loc)
    /\ UNCHANGED <<cache, flight, request, victim, doomed>>

\* ... or returns the torrent.
GetTorrent(r) ==
    /\ pc[r] = "torrent"
    /\ Goto(r, "info")
    /\ UNCHANGED <<cache, flight, request, victim, doomed>>

\* GotInfo fires and Set stores the entry under the time of now; CtxDone may
\* be ready too, and select takes either.
GotInfo(r) ==
    /\ pc[r] = "info"
    /\ entries' = Append(RemoveFirst(entries, hash[r]), hash[r])
    /\ age' = [age EXCEPT ![hash[r]] = 0]
    /\ lost' = lost \ {hash[r]}
    /\ Goto(r, "count")
    /\ UNCHANGED <<flight, request, victim, doomed>>

\* The context is the leader's, whoever waits with it.
CtxDone(r) ==
    /\ pc[r] = "info" /\ ctx[r] = "ended"
    /\ Goto(r, "final")
    /\ UNCHANGED <<cache, flight, request, victim, doomed>>

\* An entry that is missing by now is the zero TorrentInfo.  Its Seeders are 0
\* and not -1, so that the basic information is never the answer.
Final(r) ==
    /\ pc[r] = "final"
    /\ Answer(r, IF Fresh(hash[r]) THEN "complete" ELSE "empty")
    /\ UNCHANGED <<cache, request, victim, doomed>>

------------------------------------------------------------------------------
(* evictIfNeeded *)

\* Mutant: one more entry than maxSize stays.
EvictCountLate(r) ==
    /\ pc[r] = "count"
    /\ Goto(r, IF Cardinality(Cached) <= MaxSize + 1 THEN "final" ELSE "oldest")
    /\ UNCHANGED <<cache, flight, request, victim, doomed>>

EvictCount(r) ==
    /\ pc[r] = "count"
    /\ Goto(r, IF Cardinality(Cached) <= MaxSize THEN "final" ELSE "oldest")
    /\ UNCHANGED <<cache, flight, request, victim, doomed>>

EvictOldest(r) ==
    /\ pc[r] = "oldest"
    /\ victim' = [victim EXCEPT ![r] = IF entries = <<>> THEN None ELSE Head(entries)]
    /\ Goto(r, "delete")
    /\ UNCHANGED <<cache, flight, request, doomed>>

\* Mutant: the entries are counted once, before the loop.
EvictDeleteUncounted(r) ==
    /\ pc[r] = "delete"
    /\ Delete(victim[r])
    /\ victim' = [victim EXCEPT ![r] = None]
    /\ Goto(r, "oldest")
    /\ UNCHANGED <<flight, request, doomed>>

\* Deleted by its key: it may have been stored anew.
EvictDelete(r) ==
    /\ pc[r] = "delete"
    /\ Delete(victim[r])
    /\ victim' = [victim EXCEPT ![r] = None]
    /\ Goto(r, "count")
    /\ UNCHANGED <<flight, request, doomed>>

------------------------------------------------------------------------------
(* cleanupRoutine *)

CleanupFind(h) ==
    /\ doomed = None /\ h \in Cached /\ age[h] > TTL
    /\ doomed' = h
    /\ UNCHANGED <<cache, flight, pc, request, victim>>

\* This too may delete an entry that was stored since.
CleanupDelete ==
    /\ doomed # None
    /\ Delete(doomed)
    /\ doomed' = None
    /\ UNCHANGED <<flight, pc, request, victim>>

Tick ==
    /\ age' = [h \in Hashes |-> IF h \in Cached /\ age[h] <= TTL THEN age[h] + 1 ELSE age[h]]
    /\ UNCHANGED <<entries, lost, flight, pc, request, victim, doomed>>

------------------------------------------------------------------------------
Lead(r) ==
    \/ Get(r) \/ GetTorrentErr(r) \/ GetTorrent(r) \/ CtxDone(r) \/ Final(r)
    \/ EvictCount(r) \/ EvictOldest(r) \/ EvictDelete(r)

Next ==
    \/ \E r \in Requests :
         \/ \E h \in Hashes : Arrive(r, h)
         \/ CtxEnds(r) \/ Lead(r) \/ GotInfo(r)
    \/ \E h \in Hashes : CleanupFind(h)
    \/ CleanupDelete \/ Tick

Spec == Init /\ [][Next]_vars

\* A handler goes on and its timeout passes; the metadata may never come.
\* GetTorrent returns (CallReturns of TorrentManager).
FairSpec == Spec /\ \A r \in Requests : WF_vars(Lead(r)) /\ WF_vars(CtxEnds(r))

------------------------------------------------------------------------------
(* Properties *)

\* Every variable keeps its type, and a call under way has a leader that is
\* still at it (GetTorrentInfo, singleflight).
TypeOK ==
    /\ Cached \subseteq Hashes /\ IsInjective(entries)
    /\ age \in [Hashes -> 0 .. TTL + 1]
    /\ flight \in [Hashes -> Requests \cup {None}]
    /\ pc \in [Requests -> Leading \cup Answers \cup {"idle", "wait"}]
    /\ hash \in [Requests -> Hashes \cup {None}]
    /\ ctx \in [Requests -> {"live", "ended"}]
    /\ victim \in [Requests -> Hashes \cup {None}]
    /\ doomed \in Hashes \cup {None}
    /\ lost \subseteq Hashes
    /\ \A h \in Hashes : flight[h] # None => pc[flight[h]] \in Leading /\ hash[flight[h]] = h

\* Whatever evictIfNeeded counts, finds and deletes while others do so too, the
\* cache has outgrown maxSize only as long as a handler is at evicting.
SizeBounded ==
    Cardinality(Cached) > MaxSize =>
      \E r \in Requests : pc[r] \in {"count", "oldest", "delete"}

\* A call that answers with nothing was led by a request whose context had
\* ended, or the entry expired or was deleted between Set and the second Get:
\* it does not answer before its goroutine is done (GetTorrentInfo).
EmptyHasCause ==
    [][\A r \in Requests :
         pc[r] \in Leading /\ pc'[r] = "empty" =>
           ctx[r] = "ended" \/ hash[r] \in lost \/ age[hash[r]] >= TTL]_vars

\* Every request is answered, also one that waits for the call of another and
\* when the metadata never comes (the timeout of GetTorrentInfo).
RequestEnds == \A r \in Requests : pc[r] # "idle" ~> pc[r] \in Answers
==============================================================================
