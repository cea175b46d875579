---------------------------- MODULE TorrentRegistry ----------------------------
(***************************************************************************)
(* What torrent.Manager promises its callers, without locks, retries,      *)
(* timers or goroutines: GetTorrent behaves as if it looked its hash up,   *)
(* or registered a new torrent for it, at one instant between the call and *)
(* its return.  At most one torrent is registered for a hash, it goes      *)
(* before another comes, and none comes after the manager is closed.       *)
(***************************************************************************)
CONSTANTS Hashes, Torrents, Callers, NoHash, NoTorrent

VARIABLES
    registered,  \* the torrent registered for each hash, or NoTorrent
    open,        \* Manager.Close is not done
    asked,       \* the hash a call is about, NoHash when there is no call
    answer       \* the torrent a call returns, NoTorrent until it has one

vars == <<registered, open, asked, answer>>

Init ==
    /\ registered = [h \in Hashes |-> NoTorrent]
    /\ open = TRUE
    /\ asked = [c \in Callers |-> NoHash]
    /\ answer = [c \in Callers |-> NoTorrent]

Pending(c) == asked[c] # NoHash /\ answer[c] = NoTorrent

Call(c) ==
    /\ asked[c] = NoHash
    /\ \E h \in Hashes : asked' = [asked EXCEPT ![c] = h]
    /\ UNCHANGED <<registered, open, answer>>

\* The call finds what is registered for its hash.
Find(c) ==
    /\ Pending(c)
    /\ registered[asked[c]] # NoTorrent
    /\ answer' = [answer EXCEPT ![c] = registered[asked[c]]]
    /\ UNCHANGED <<registered, open, asked>>

\* The call registers a torrent that serves no other hash.
Add(c) ==
    /\ Pending(c) /\ open
    /\ registered[asked[c]] = NoTorrent
    /\ \E t \in Torrents :
         /\ \A h \in Hashes : registered[h] # t
         /\ registered' = [registered EXCEPT ![asked[c]] = t]
         /\ answer' = [answer EXCEPT ![c] = t]
    /\ UNCHANGED <<open, asked>>

\* The call returns, or its caller is done with the torrent it got.
Return(c) ==
    /\ asked[c] # NoHash
    /\ asked' = [asked EXCEPT ![c] = NoHash]
    /\ answer' = [answer EXCEPT ![c] = NoTorrent]
    /\ UNCHANGED <<registered, open>>

\* A torrent is removed; calls that have it keep it.
Remove(h) ==
    /\ registered[h] # NoTorrent
    /\ registered' = [registered EXCEPT ![h] = NoTorrent]
    /\ UNCHANGED <<open, asked, answer>>

Close ==
    /\ open
    /\ open' = FALSE
    /\ UNCHANGED <<registered, asked, answer>>

Next ==
    \/ \E c \in Callers : Call(c) \/ Find(c) \/ Add(c) \/ Return(c)
    \/ \E h \in Hashes : Remove(h)
    \/ Close

Spec == Init /\ [][Next]_vars
==============================================================================
