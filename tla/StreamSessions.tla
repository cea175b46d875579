---------------------------- MODULE StreamSessions ----------------------------
(***************************************************************************)
(* Streaming over HTTP: the handlers of GET /stream, the registry of        *)
(* sessions they share, the streaming.Buffer of each session, and the       *)
(* goroutines that sweep idle sessions.                                     *)
(*                                                                          *)
(* Contents are byte positions: a read of a file delivers the position it   *)
(* was made at, and a chunk is one byte, so every short read is a case of   *)
(* its own.  Nothing in the program writes into the ring of a Buffer or     *)
(* starts its background tasks: Buffer.Read finds it empty, and ReadAt      *)
(* always goes to the reader the requests of a session share.               *)
(***************************************************************************)
EXTENDS Integers, FiniteSets

CONSTANTS
    Files,         \* session identifiers: one file of one torrent
    Requests,      \* handler goroutines
    Sessions,      \* pool of StreamSession objects (a bound: see Free)
    NoFile, NoSession,
    FileSize,      \* bytes in a file
    MaxReads,      \* maxConcurrentReads, the capacity of readSemaphore
    IdleLimit      \* SessionTimeout, in ticks of the model's clock

ASSUME NullsAssumption == NoFile \notin Files /\ NoSession \notin Sessions
ASSUME SizesAssumption ==
    /\ FileSize \in Nat \ {0}
    /\ MaxReads \in Nat \ {0}
    /\ IdleLimit \in Nat
ASSUME RequestsAssumption == IsFiniteSet(Requests)

VARIABLES
    registry,     \* sessions: the session of a file
    fileOf,       \* file of a session object, NoFile before its first use
    idleFor,      \* age of session.LastAccessTime
    dropped,      \* has the torrent of session.File been dropped
    closed,       \* b.isClosed, with b.ctx cancelled
    tokens,       \* len(b.readSemaphore)
    position,     \* position of b.reader
    sweeper,      \* where the sweep of manageSessions is
    todo,         \* files it has still to visit
    victim,       \* session it is closing
    pc,           \* where each handler is
    kind,         \* "range" for a Range request, "full" for one without
    file, ses,    \* file of a request and its session
    next, last,   \* next and last position it has to deliver
    probing,      \* is it in the read that only probes the start of the range
    outcome,      \* how it ended
    wrong,        \* history: it delivered a byte of another position
    shared        \* history: another request was inside ReadAt at the same time

sessionVars == <<registry, fileOf, idleFor, dropped, closed>>
readerVars  == <<tokens, position>>
sweepVars   == <<sweeper, todo, victim>>
params      == <<kind, file, last>>
history     == <<wrong, shared>>
progress    == <<next, probing, outcome>>
vars == <<sessionVars, readerVars, sweepVars, pc, ses, params, history, progress>>

Positions == 0 .. FileSize - 1
IsIdle(s) == idleFor[s] > IdleLimit
Reading == {"seek", "read"}                  \* hold b.mu.RLock
Admitted == Reading \cup {"enter"}           \* hold a token
InBuffer(s) == {r \in Requests : ses[r] = s /\ pc[r] \in Reading}

\* sessionMutex is held for writing during a sweep; every other use is one step.
MutexFree == sweeper = "ticker"

Referenced(s) ==
    \/ \E f \in Files : registry[f] = s
    \/ \E r \in Requests : ses[r] = s
    \/ victim = s
Free == {s \in Sessions : ~Referenced(s)}

Init ==
    /\ registry = [f \in Files |-> NoSession]
    /\ fileOf = [s \in Sessions |-> NoFile]
    /\ idleFor = [s \in Sessions |-> 0]
    /\ dropped = [s \in Sessions |-> FALSE]
    /\ closed = [s \in Sessions |-> TRUE]
    /\ tokens = [s \in Sessions |-> 0]
    /\ position = [s \in Sessions |-> 0]
    /\ sweeper = "ticker" /\ todo = {} /\ victim = NoSession
    /\ pc = [r \in Requests |-> "idle"]
    /\ kind = [r \in Requests |-> "full"]
    /\ file = [r \in Requests |-> NoFile]
    /\ ses = [r \in Requests |-> NoSession]
    /\ next = [r \in Requests |-> 0]
    /\ last = [r \in Requests |-> 0]
    /\ probing = [r \in Requests |-> FALSE]
    /\ outcome = [r \in Requests |-> "none"]
    /\ wrong = [r \in Requests |-> FALSE]
    /\ shared = [r \in Requests |-> FALSE]

Goto(r, loc) == pc' = [pc EXCEPT ![r] = loc]
Ends(r, how) == Goto(r, "done") /\ outcome' = [outcome EXCEPT ![r] = how]

------------------------------------------------------------------------------
(* The handler up to its session *)

\* A request arrives.  A Range header that parseRange accepts asks for some of
\* the file; without one all of it is asked for.
Arrive(r) ==
    /\ pc[r] = "idle"
    /\ Goto(r, "lookup")
    /\ \E f \in Files : file' = [file EXCEPT ![r] = f]
    /\ \E k \in {"range", "full"} : kind' = [kind EXCEPT ![r] = k]
    /\ \E first, end \in Positions :
         /\ first <= end
         /\ kind'[r] = "full" => first = 0 /\ end = FileSize - 1
         /\ next' = [next EXCEPT ![r] = first]
         /\ last' = [last EXCEPT ![r] = end]
    /\ probing' = [probing EXCEPT ![r] = kind'[r] = "range"]
    /\ outcome' = [outcome EXCEPT ![r] = "none"]
    /\ UNCHANGED <<sessionVars, readerVars, sweepVars, ses, history>>

\* getOrCreateSession: the lookup under the read lock.
Lookup(r) ==
    /\ pc[r] = "lookup" /\ MutexFree
    /\ ses' = [ses EXCEPT ![r] = registry[file[r]]]
    /\ Goto(r, IF registry[file[r]] = NoSession THEN "create" ELSE "touch")
    /\ UNCHANGED <<sessionVars, readerVars, sweepVars, params, history, progress>>

\* Under the write lock another request's session is found after all ...
CreateFinds(r) ==
    /\ pc[r] = "create" /\ MutexFree
    /\ LET s == registry[file[r]] IN
         /\ s # NoSession
         /\ ses' = [ses EXCEPT ![r] = s]
         /\ idleFor' = [idleFor EXCEPT ![s] = 0]
    /\ Goto(r, "acquire")
    /\ UNCHANGED <<registry, fileOf, dropped, closed, readerVars, sweepVars,
                   params, history, progress>>

\* Mutant: the session is made without looking again under the write lock.
CreateUnchecked(r) ==
    /\ pc[r] = "create" /\ MutexFree
    /\ \E s \in Free :
         /\ registry' = [registry EXCEPT ![file[r]] = s]
         /\ fileOf' = [fileOf EXCEPT ![s] = file[r]]
         /\ idleFor' = [idleFor EXCEPT ![s] = 0]
         /\ dropped' = [dropped EXCEPT ![s] = FALSE]
         /\ closed' = [closed EXCEPT ![s] = FALSE]
         /\ tokens' = [tokens EXCEPT ![s] = 0]
         /\ position' = [position EXCEPT ![s] = 0]
         /\ ses' = [ses EXCEPT ![r] = s]
    /\ Goto(r, "acquire")
    /\ UNCHANGED <<sweepVars, params, history, progress>>

\* ... or one is made, on the file of the torrent the manager has now.
Create(r) ==
    /\ pc[r] = "create" /\ MutexFree
    /\ registry[file[r]] = NoSession
    /\ \E s \in Free :
         /\ registry' = [registry EXCEPT ![file[r]] = s]
         /\ fileOf' = [fileOf EXCEPT ![s] = file[r]]
         /\ idleFor' = [idleFor EXCEPT ![s] = 0]
         /\ dropped' = [dropped EXCEPT ![s] = FALSE]
         /\ closed' = [closed EXCEPT ![s] = FALSE]
         /\ tokens' = [tokens EXCEPT ![s] = 0]
         /\ position' = [position EXCEPT ![s] = 0]
         /\ ses' = [ses EXCEPT ![r] = s]
    /\ Goto(r, "acquire")
    /\ UNCHANGED <<sweepVars, params, history, progress>>

\* session.LastAccessTime is set without the lock on the hit path.
Touch(r) ==
    /\ pc[r] = "touch"
    /\ idleFor' = [idleFor EXCEPT ![ses[r]] = 0]
    /\ Goto(r, "acquire")
    /\ UNCHANGED <<registry, fileOf, dropped, closed, readerVars, sweepVars, ses,
                   params, history, progress>>

------------------------------------------------------------------------------
(* Buffer.Read and Buffer.ReadAt *)

\* readSemaphore has room.
Acquire(r) ==
    /\ pc[r] = "acquire" /\ tokens[ses[r]] < MaxReads
    /\ tokens' = [tokens EXCEPT ![ses[r]] = @ + 1]
    /\ Goto(r, "enter")
    /\ UNCHANGED <<sessionVars, position, sweepVars, ses, params, history, progress>>

\* A read that returns no data.  streamRange fails the request if it was
\* probing, and otherwise takes it for the end of the range.
NoData(r) == Ends(r, IF probing[r] THEN "error" ELSE "ok")

\* b.ctx is done: io.EOF without a token.
AcquireCancelled(r) ==
    /\ pc[r] = "acquire" /\ closed[ses[r]]
    /\ NoData(r)
    /\ UNCHANGED <<sessionVars, readerVars, sweepVars, ses, params, history, next,
                   probing>>

Release(r) == tokens' = [tokens EXCEPT ![ses[r]] = @ - 1]

\* b.mu.RLock waits while Buffer.Close waits for the write lock.
MayEnter(r) == pc[r] = "enter" /\ victim # ses[r]

\* Mutant: the token is only released after a read.
EnterEOFKeepsToken(r) ==
    /\ MayEnter(r)
    /\ closed[ses[r]] \/ kind[r] = "full"
    /\ UNCHANGED tokens
    /\ NoData(r)
    /\ UNCHANGED <<sessionVars, position, sweepVars, ses, params, history, next,
                   probing>>

\* The buffer is closed, or Read finds its ring empty: io.EOF.
EnterEOF(r) ==
    /\ MayEnter(r)
    /\ closed[ses[r]] \/ kind[r] = "full"
    /\ Release(r)
    /\ NoData(r)
    /\ UNCHANGED <<sessionVars, position, sweepVars, ses, params, history, next,
                   probing>>

\* Mutant: ReadAt does not look at isClosed.
EnterUnchecked(r) ==
    /\ MayEnter(r)
    /\ kind[r] = "range"
    /\ Goto(r, "seek")
    /\ LET others == InBuffer(ses[r]) IN
         shared' = [q \in Requests |->
                      shared[q] \/ (others # {} /\ q \in others \cup {r})]
    /\ UNCHANGED <<sessionVars, readerVars, sweepVars, ses, params, wrong, progress>>

Enter(r) ==
    /\ MayEnter(r)
    /\ ~closed[ses[r]] /\ kind[r] = "range"
    /\ Goto(r, "seek")
    /\ LET others == InBuffer(ses[r]) IN
         shared' = [q \in Requests |->
                      shared[q] \/ (others # {} /\ q \in others \cup {r})]
    /\ UNCHANGED <<sessionVars, readerVars, sweepVars, ses, params, wrong, progress>>

\* Mutant: only the first read of a request positions the reader.
SeekOnce(r) ==
    /\ pc[r] = "seek"
    /\ position' = IF probing[r] THEN [position EXCEPT ![ses[r]] = next[r]]
                   ELSE position
    /\ Goto(r, "read")
    /\ UNCHANGED <<sessionVars, tokens, sweepVars, ses, params, history, progress>>

\* ReadAt positions the reader all requests of the session use ...
Seek(r) ==
    /\ pc[r] = "seek"
    /\ position' = [position EXCEPT ![ses[r]] = next[r]]
    /\ Goto(r, "read")
    /\ UNCHANGED <<sessionVars, tokens, sweepVars, ses, params, history, progress>>

\* ... and reads where it stands by then.  The byte is written to the client,
\* unless it was read to probe the start of the range.
Read(r) ==
    /\ pc[r] = "read" /\ ~dropped[ses[r]]
    /\ LET s == ses[r]
           p == position[s] IN
         /\ p \in Positions
         /\ position' = [position EXCEPT ![s] = p + 1]
         /\ IF probing[r]
            THEN /\ probing' = [probing EXCEPT ![r] = FALSE]
                 /\ Goto(r, "acquire")
                 /\ UNCHANGED <<next, wrong, outcome>>
            ELSE /\ wrong' = [wrong EXCEPT ![r] = @ \/ p # next[r]]
                 /\ next' = [next EXCEPT ![r] = @ + 1]
                 /\ IF next[r] < last[r]
                    THEN Goto(r, "acquire") /\ UNCHANGED outcome
                    ELSE Ends(r, "ok")
                 /\ UNCHANGED probing
    /\ Release(r)
    /\ UNCHANGED <<sessionVars, sweepVars, ses, params, shared>>

\* io.EOF: alone when the reader stands at the end, and with the byte itself
\* when that is the last of the file, which fails the probe.
ReadEOF(r) ==
    /\ pc[r] = "read" /\ ~dropped[ses[r]]
    /\ \/ position[ses[r]] = FileSize /\ UNCHANGED position
       \/ /\ probing[r] /\ position[ses[r]] = FileSize - 1
          /\ position' = [position EXCEPT ![ses[r]] = FileSize]
    /\ Release(r)
    /\ NoData(r)
    /\ UNCHANGED <<sessionVars, sweepVars, ses, params, history, next, probing>>

\* Mutant: the error path returns without its token.
ReadFailsKeepsToken(r) ==
    /\ pc[r] = "read" /\ dropped[ses[r]]
    /\ UNCHANGED tokens
    /\ Ends(r, "error")
    /\ UNCHANGED <<sessionVars, position, sweepVars, ses, params, history, next,
                   probing>>

\* Mutant: a read error of the torrent is taken for the end of the range.
ReadFailsSilently(r) ==
    /\ pc[r] = "read" /\ dropped[ses[r]]
    /\ Release(r)
    /\ NoData(r)
    /\ UNCHANGED <<sessionVars, position, sweepVars, ses, params, history, next,
                   probing>>

\* The torrent is gone: an error each time retryRead tries.
ReadFails(r) ==
    /\ pc[r] = "read" /\ dropped[ses[r]]
    /\ Release(r)
    /\ Ends(r, "error")
    /\ UNCHANGED <<sessionVars, position, sweepVars, ses, params, history, next,
                   probing>>

\* The client has gone: the next write fails.
Abandon(r) ==
    /\ pc[r] = "acquire" /\ kind[r] = "range" /\ ~probing[r]
    /\ Ends(r, "error")
    /\ UNCHANGED <<sessionVars, readerVars, sweepVars, ses, params, history, next,
                   probing>>

\* The handler returns.
Return(r) ==
    /\ pc[r] = "done"
    /\ Goto(r, "idle")
    /\ file' = [file EXCEPT ![r] = NoFile]
    /\ ses' = [ses EXCEPT ![r] = NoSession]
    /\ kind' = [kind EXCEPT ![r] = "full"]
    /\ last' = [last EXCEPT ![r] = 0]
    /\ next' = [next EXCEPT ![r] = 0]
    /\ probing' = [probing EXCEPT ![r] = FALSE]
    /\ outcome' = [outcome EXCEPT ![r] = "none"]
    /\ wrong' = [wrong EXCEPT ![r] = FALSE]
    /\ shared' = [shared EXCEPT ![r] = FALSE]
    /\ UNCHANGED <<sessionVars, readerVars, sweepVars>>

------------------------------------------------------------------------------
(* The sweep of idle sessions *)

\* manageSessions: a ticker fires.  One goroutine per session ever created
\* runs this loop for ever; sessionMutex makes their sweeps take turns.
SweepTick ==
    /\ sweeper = "ticker"
    /\ \E s \in Sessions : fileOf[s] # NoFile
    /\ sweeper' = "range"
    /\ todo' = {f \in Files : registry[f] # NoSession}
    /\ UNCHANGED <<sessionVars, readerVars, victim, pc, ses, params, history, progress>>

\* Mutant: a session one tick over the limit is kept.
SweepKeepsOlder(f) ==
    /\ sweeper = "range" /\ f \in todo
    /\ idleFor[registry[f]] <= IdleLimit + 1
    /\ todo' = todo \ {f}
    /\ UNCHANGED <<sessionVars, readerVars, sweeper, victim, pc, ses, params,
                   history, progress>>

SweepKeeps(f) ==
    /\ sweeper = "range" /\ f \in todo
    /\ ~IsIdle(registry[f])
    /\ todo' = todo \ {f}
    /\ UNCHANGED <<sessionVars, readerVars, sweeper, victim, pc, ses, params,
                   history, progress>>

\* An idle session is unregistered, and its buffer marked closed and cancelled;
\* Buffer.Close then waits for the write lock with sessionMutex held.
SweepCloses(f) ==
    /\ sweeper = "range" /\ f \in todo
    /\ IsIdle(registry[f])
    /\ registry' = [registry EXCEPT ![f] = NoSession]
    /\ closed' = [closed EXCEPT ![registry[f]] = TRUE]
    /\ victim' = registry[f]
    /\ sweeper' = "drain"
    /\ todo' = todo \ {f}
    /\ UNCHANGED <<fileOf, idleFor, dropped, readerVars, pc, ses, params, history,
                   progress>>

SweepDrained ==
    /\ sweeper = "drain" /\ InBuffer(victim) = {}
    /\ victim' = NoSession
    /\ sweeper' = "range"
    /\ UNCHANGED <<sessionVars, readerVars, todo, pc, ses, params, history, progress>>

SweepDone ==
    /\ sweeper = "range" /\ todo = {}
    /\ sweeper' = "ticker"
    /\ UNCHANGED <<sessionVars, readerVars, todo, victim, pc, ses, params, history,
                   progress>>

------------------------------------------------------------------------------
(* The torrent manager and the clock *)

\* The manager drops the torrent of a file.  The next request for it makes the
\* manager add it again, but a session that exists keeps the file it has.
DropTorrent(f) ==
    /\ \E s \in Sessions \ Free : fileOf[s] = f /\ ~dropped[s]
    /\ dropped' = [s \in Sessions |->
                     dropped[s] \/ (s \notin Free /\ fileOf[s] = f)]
    /\ UNCHANGED <<registry, fileOf, idleFor, closed, readerVars, sweepVars, pc,
                   ses, params, history, progress>>

\* Time passes; only the ages of registered sessions are ever read.
Tick ==
    /\ idleFor' = [s \in Sessions |->
                     IF IsIdle(s) \/ \A f \in Files : registry[f] # s
                     THEN idleFor[s] ELSE idleFor[s] + 1]
    /\ UNCHANGED <<registry, fileOf, dropped, closed, readerVars, sweepVars, pc,
                   ses, params, history, progress>>

------------------------------------------------------------------------------
ReadStep(r) == Read(r) \/ ReadEOF(r) \/ ReadFails(r)

HandlerStep(r) ==
    \/ Lookup(r) \/ CreateFinds(r) \/ Create(r) \/ Touch(r)
    \/ Acquire(r) \/ AcquireCancelled(r) \/ EnterEOF(r) \/ Enter(r) \/ Seek(r)
    \/ Return(r)

SweepStep ==
    \/ SweepDrained \/ SweepDone
    \/ \E f \in Files : SweepKeeps(f) \/ SweepCloses(f)

Next ==
    \/ \E r \in Requests :
         Arrive(r) \/ HandlerStep(r) \/ ReadStep(r) \/ Abandon(r)
    \/ SweepTick \/ SweepStep
    \/ \E f \in Files : DropTorrent(f)
    \/ Tick

Spec == Init /\ [][Next]_vars

\* Fairness.  A handler that can run does, and those who wait for a token or for
\* sessionMutex are served in order.  A read that waits for a piece ends: the
\* piece comes, or the manager drops the torrent after MaxDownloadTime at the
\* latest.  A sweep that has begun goes on, and tickers fire.  Nothing obliges
\* clients to ask or to stay, and no torrent has to be dropped.
HandlerFairness == \A r \in Requests : SF_vars(HandlerStep(r) \/ ReadStep(r))
SweepFairness == WF_vars(SweepTick \/ SweepStep)

FairSpec == Spec /\ HandlerFairness /\ SweepFairness

------------------------------------------------------------------------------
(* Safety *)

\* The type of every variable.
Types ==
    /\ registry \in [Files -> Sessions \cup {NoSession}]
    /\ fileOf \in [Sessions -> Files \cup {NoFile}]
    /\ idleFor \in [Sessions -> 0 .. IdleLimit + 1]
    /\ dropped \in [Sessions -> BOOLEAN]
    /\ closed \in [Sessions -> BOOLEAN]
    /\ tokens \in [Sessions -> 0 .. MaxReads]
    /\ position \in [Sessions -> 0 .. FileSize]
    /\ sweeper \in {"ticker", "range", "drain"}
    /\ todo \subseteq Files
    /\ victim \in Sessions \cup {NoSession}
    /\ pc \in [Requests -> {"idle", "lookup", "create", "touch", "acquire",
                            "enter", "seek", "read", "done"}]
    /\ kind \in [Requests -> {"range", "full"}]
    /\ file \in [Requests -> Files \cup {NoFile}]
    /\ ses \in [Requests -> Sessions \cup {NoSession}]
    /\ next \in [Requests -> 0 .. FileSize]
    /\ last \in [Requests -> Positions]
    /\ probing \in [Requests -> BOOLEAN]
    /\ outcome \in [Requests -> {"none", "ok", "error"}]
    /\ wrong \in [Requests -> BOOLEAN]
    /\ shared \in [Requests -> BOOLEAN]

ReadersOf(s) == {r \in Requests : ses[r] = s /\ pc[r] \in Admitted}
TokensCount == \A s \in Sessions : tokens[s] = Cardinality(ReadersOf(s))

\* Every variable keeps its type, and the tokens of readSemaphore are exactly
\* those of the reads under way: every return of Read and ReadAt gives its
\* token back.
TypeOK == Types /\ TokensCount

\* A session is open exactly while it is registered: no request is given the
\* session of another file or one already closed, and no open session is lost
\* to the sweep (double-checked creation; manageSessions).
OpenIsRegistered ==
    /\ \A f \in Files : registry[f] # NoSession =>
         ~closed[registry[f]] /\ fileOf[registry[f]] = f
    /\ \A s \in Sessions : ~closed[s] => registry[fileOf[s]] = s

\* Buffer.Close returns after the last ReadAt that found the buffer open: a
\* request still inside a closed buffer is one Close is waiting for.
CloseWaits ==
    \A r \in Requests :
      pc[r] \in Reading /\ closed[ses[r]] => victim = ses[r]

\* A request that never had company inside ReadAt delivers the right bytes,
\* whatever earlier requests did to the reader of the session.
AloneIsRight == \A r \in Requests : wrong[r] => shared[r]

\* A range request that ends without an error before the end of its range was
\* cut off by the sweep, or had company in ReadAt: nothing else makes
\* streamRange take an io.EOF for the end.
CutOnlyBySweep ==
    \A r \in Requests :
      outcome[r] = "ok" /\ kind[r] = "range" /\ next[r] <= last[r] =>
        closed[ses[r]] \/ shared[r]

(* What the code does not guarantee: refuted by a run *)

\* buffer.go:312 "ReadAt reads len(p) bytes into p starting at offset off in the
\* underlying file".
ReadsAtOffset == \A r \in Requests : ~wrong[r]

(* Liveness *)

\* Every request ends: no lost token, no lock left behind by a sweep.
RequestEnds == \A r \in Requests : pc[r] = "lookup" ~> pc[r] = "done"

\* A session nobody asks for any more is closed.
IdleIsClosed ==
    \A f \in Files :
      (registry[f] # NoSession /\ IsIdle(registry[f]))
        ~> (registry[f] = NoSession \/ ~IsIdle(registry[f]))
==============================================================================
