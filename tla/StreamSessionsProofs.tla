------------------------ MODULE StreamSessionsProofs ------------------------
(***************************************************************************)
(* StreamSessions, for any number of files, requests and session objects    *)
(* and any sizes: what the handlers and the sweep keep true of the sessions *)
(* they share, and what a request can rely on.                              *)
(***************************************************************************)
EXTENDS StreamSessions, FiniteSetTheorems, TLAPS

\* Where a request has a session, and where it has still something to read.
HasSession == {"touch", "acquire", "enter", "seek", "read", "done"}
Busy == {"lookup", "create"} \cup (HasSession \ {"done"})

\* What a request has in hand at each of its places.
RequestInv ==
    \A r \in Requests :
      /\ pc[r] # "idle" => file[r] \in Files
      /\ IF pc[r] \in HasSession THEN ses[r] \in Sessions ELSE ses[r] = NoSession
      /\ pc[r] \in Busy => next[r] <= last[r]
      /\ outcome[r] # "none" => pc[r] = "done"

\* An open session has a file, and is the session of that file.
SessionInv ==
    /\ OpenIsRegistered
    /\ \A s \in Sessions : ~closed[s] => fileOf[s] \in Files

\* What the sweep has still to visit stays registered, since it holds the
\* lock; the session it closes is one that is closed already.
SweepInv ==
    /\ MutexFree \/ \A f \in todo : registry[f] # NoSession
    /\ sweeper = "drain" <=> victim # NoSession
    /\ CloseWaits

\* Two requests inside one buffer have company; one without it finds the reader
\* where it has put it.
ReadInv ==
    /\ \A r, q \in Requests :
         /\ r # q /\ pc[r] \in Reading /\ pc[q] \in Reading /\ ses[r] = ses[q]
         => shared[r]
    /\ \A r \in Requests :
         pc[r] = "read" /\ ~shared[r] => position[ses[r]] = next[r]
    /\ AloneIsRight

IInv ==
    /\ Types /\ TokensCount /\ RequestInv /\ SessionInv /\ SweepInv /\ ReadInv
    /\ CutOnlyBySweep

\* Lists of variables that every step sees through.
USE DEF sessionVars, readerVars, sweepVars, params, history, progress, Goto, Ends

------------------------------------------------------------------------------
(* Initial states and types *)

LEMMA Initially == Init => IInv
<1> SUFFICES ASSUME Init  PROVE IInv
  OBVIOUS
<1>1. Types
  BY SizesAssumption DEF Init, Types, Positions
<1>2. TokensCount
  <2>1. \A s \in Sessions : ReadersOf(s) = {}
    BY DEF Init, ReadersOf, Admitted, Reading
  <2> QED  BY <2>1, FS_EmptySet DEF Init, TokensCount
<1>3. RequestInv /\ SessionInv /\ SweepInv
  BY DEF Init, RequestInv, HasSession, Busy, SessionInv, OpenIsRegistered, SweepInv,
         MutexFree, CloseWaits, Reading
<1>4. ReadInv /\ CutOnlyBySweep
  BY DEF Init, ReadInv, AloneIsRight, CutOnlyBySweep, Reading
<1> QED  BY <1>1, <1>2, <1>3, <1>4 DEF IInv

\* The token a request gives back is there.
LEMMA HasToken ==
    ASSUME IInv, NEW r \in Requests, pc[r] \in Admitted
    PROVE  tokens[ses[r]] > 0
<1>1. ses[r] \in Sessions /\ r \in ReadersOf(ses[r])
  BY DEF IInv, RequestInv, HasSession, Admitted, Reading, ReadersOf
<1>2. IsFiniteSet(ReadersOf(ses[r]))
  BY RequestsAssumption, FS_Subset DEF ReadersOf
<1>3. Cardinality(ReadersOf(ses[r])) # 0 /\ Cardinality(ReadersOf(ses[r])) \in Nat
  BY <1>1, <1>2, FS_EmptySet, FS_CardinalityType
<1> QED  BY <1>1, <1>3 DEF IInv, TokensCount

LEMMA HandlerTypes ==
    ASSUME IInv, NEW r \in Requests,
           Arrive(r) \/ HandlerStep(r) \/ ReadStep(r) \/ Abandon(r)
    PROVE  Types'
<1> USE SizesAssumption DEF IInv, Types, Positions
<1>1. CASE Arrive(r)           BY <1>1 DEF Arrive
<1>2. CASE Lookup(r)           BY <1>2 DEF Lookup, RequestInv
<1>3. CASE CreateFinds(r)      BY <1>3 DEF CreateFinds, RequestInv
<1>4. CASE Create(r)           BY <1>4 DEF Create, RequestInv, Free
<1>5. CASE Touch(r)            BY <1>5 DEF Touch, RequestInv, HasSession
<1>6. CASE Acquire(r)          BY <1>6 DEF Acquire, RequestInv, HasSession
<1>7. CASE AcquireCancelled(r) BY <1>7 DEF AcquireCancelled, NoData
<1>8. CASE EnterEOF(r)
  BY <1>8, HasToken DEF EnterEOF, NoData, MayEnter, Release, RequestInv, HasSession, Admitted
<1>9. CASE Enter(r)            BY <1>9 DEF Enter
<1>10. CASE Seek(r)            BY <1>10 DEF Seek, RequestInv, HasSession
<1>11. CASE Return(r)          BY <1>11 DEF Return
<1>12. CASE Abandon(r)         BY <1>12 DEF Abandon
<1>13. CASE Read(r)
  <2>1. /\ tokens' \in [Sessions -> 0 .. MaxReads]
        /\ position' \in [Sessions -> 0 .. FileSize]
    BY <1>13, HasToken DEF Read, Release, RequestInv, HasSession, Admitted, Reading
  <2>2. CASE probing[r]
    <3>1. /\ pc' = [pc EXCEPT ![r] = "acquire"]
          /\ probing' = [probing EXCEPT ![r] = FALSE]
          /\ UNCHANGED <<next, wrong, outcome, sessionVars, sweepVars, ses, params, shared>>
      BY <1>13, <2>2 DEF Read
    <3> QED  BY <2>1, <3>1
  <2>3. CASE ~probing[r]
    <3>1. next[r] <= last[r]
      BY <1>13 DEF Read, RequestInv, HasSession, Busy
    <3>2. next' \in [Requests -> 0 .. FileSize]
      BY <1>13, <2>3, <3>1 DEF Read
    <3>3. wrong' \in [Requests -> BOOLEAN]
      BY <1>13, <2>3 DEF Read
    <3> QED  BY <1>13, <2>1, <2>3, <3>2, <3>3 DEF Read
  <2> QED  BY <2>2, <2>3
<1>14. CASE ReadEOF(r)
  BY <1>14, HasToken DEF ReadEOF, NoData, Release, RequestInv, HasSession, Admitted, Reading
<1>15. CASE ReadFails(r)
  BY <1>15, HasToken DEF ReadFails, Release, RequestInv, HasSession, Admitted, Reading
<1> QED
  BY <1>1, <1>2, <1>3, <1>4, <1>5, <1>6, <1>7, <1>8, <1>9, <1>10, <1>11, <1>12, <1>13,
     <1>14, <1>15 DEF HandlerStep, ReadStep

\* The sweep, the manager and the clock.
Other ==
    \/ SweepTick \/ SweepStep \/ Tick
    \/ \E f \in Files : DropTorrent(f)

LEMMA OtherTypes ==
    ASSUME IInv, Other
    PROVE  Types'
<1> USE DEF IInv, Types
<1>1. CASE SweepTick     BY <1>1 DEF SweepTick
<1>2. CASE SweepDrained  BY <1>2 DEF SweepDrained
<1>3. CASE SweepDone     BY <1>3 DEF SweepDone
<1>4. ASSUME NEW f \in Files, SweepKeeps(f)  PROVE Types'
  BY <1>4 DEF SweepKeeps
<1>5. ASSUME NEW f \in Files, SweepCloses(f)  PROVE Types'
  BY <1>5 DEF SweepCloses, SweepInv, MutexFree
<1>6. ASSUME NEW f \in Files, DropTorrent(f)  PROVE Types'
  BY <1>6 DEF DropTorrent
<1>7. CASE Tick          BY <1>7, SizesAssumption DEF Tick, IsIdle
<1> QED  BY <1>1, <1>2, <1>3, <1>4, <1>5, <1>6, <1>7 DEF Other, SweepStep

------------------------------------------------------------------------------
(* Tokens *)

\* One request more in the buffer of its session, ...
LEMMA Joins ==
    ASSUME IInv, NEW r \in Requests, ReadersOf(ses[r])' = ReadersOf(ses[r]) \cup {r},
           ses' = ses, ses[r] \in Sessions, r \notin ReadersOf(ses[r])
    PROVE  Cardinality(ReadersOf(ses[r])') = tokens[ses[r]] + 1
<1>1. IsFiniteSet(ReadersOf(ses[r]))
  BY RequestsAssumption, FS_Subset DEF ReadersOf
<1>2. Cardinality(ReadersOf(ses[r]) \cup {r}) = Cardinality(ReadersOf(ses[r])) + 1
  BY <1>1, FS_AddElement
<1> QED  BY <1>2 DEF IInv, TokensCount

\* ... or one less.
LEMMA Leaves ==
    ASSUME IInv, NEW r \in Requests, ReadersOf(ses[r])' = ReadersOf(ses[r]) \ {r},
           ses' = ses, ses[r] \in Sessions, r \in ReadersOf(ses[r])
    PROVE  Cardinality(ReadersOf(ses[r])') = tokens[ses[r]] - 1
<1>1. IsFiniteSet(ReadersOf(ses[r]))
  BY RequestsAssumption, FS_Subset DEF ReadersOf
<1>2. Cardinality(ReadersOf(ses[r]) \ {r}) = Cardinality(ReadersOf(ses[r])) - 1
  BY <1>1, FS_RemoveElement
<1> QED  BY <1>2 DEF IInv, TokensCount

\* A read that ends gives its token back.
LEMMA Released ==
    ASSUME IInv, NEW r \in Requests, pc[r] \in Admitted, Release(r), ses' = ses,
           NEW loc \in {"acquire", "done"}, pc' = [pc EXCEPT ![r] = loc]
    PROVE  TokensCount'
<1>1. ses[r] \in Sessions
  BY DEF IInv, RequestInv, HasSession, Admitted, Reading
<1>2. /\ r \in ReadersOf(ses[r])
      /\ ReadersOf(ses[r])' = ReadersOf(ses[r]) \ {r}
      /\ \A s \in Sessions \ {ses[r]} : ReadersOf(s)' = ReadersOf(s)
  BY DEF IInv, Types, ReadersOf, Admitted, Reading
<1>3. Cardinality(ReadersOf(ses[r])') = tokens[ses[r]] - 1
  BY <1>1, <1>2, Leaves
<1>4. \A s \in Sessions : tokens'[s] = IF s = ses[r] THEN tokens[s] - 1 ELSE tokens[s]
  BY DEF Release, IInv, Types
<1>5. ASSUME NEW s \in Sessions  PROVE tokens'[s] = Cardinality(ReadersOf(s)')
  BY <1>2, <1>3, <1>4, <1>5 DEF IInv, TokensCount
<1> QED  BY <1>5 DEF TokensCount

LEMMA HandlerTokens ==
    ASSUME IInv, NEW r \in Requests,
           Arrive(r) \/ HandlerStep(r) \/ ReadStep(r) \/ Abandon(r)
    PROVE  TokensCount'
<1> USE DEF IInv, Types, RequestInv, HasSession, Admitted, Reading
<1>1. ASSUME tokens' = tokens, \A s \in Sessions : ReadersOf(s)' = ReadersOf(s)
      PROVE  TokensCount'
  BY <1>1 DEF TokensCount
<1>2. CASE Arrive(r)            BY <1>1, <1>2 DEF Arrive, ReadersOf
<1>3. CASE Lookup(r)            BY <1>1, <1>3 DEF Lookup, ReadersOf
<1>4. CASE CreateFinds(r)       BY <1>1, <1>4 DEF CreateFinds, ReadersOf
<1>5. CASE Create(r)
  <2>1. PICK s \in Free : tokens' = [tokens EXCEPT ![s] = 0] /\ ses' = [ses EXCEPT ![r] = s]
    BY <1>5 DEF Create
  <2>2. \A x \in Sessions : ReadersOf(x)' = ReadersOf(x)
    BY <1>5, <2>1 DEF Create, ReadersOf
  <2>3. ReadersOf(s) = {}
    BY <2>1 DEF ReadersOf, Free, Referenced
  <2>4. \A x \in Sessions : tokens[x] = Cardinality(ReadersOf(x))
    BY DEF TokensCount
  <2>5. \A x \in Sessions : tokens'[x] = IF x = s THEN 0 ELSE tokens[x]
    BY <2>1
  <2>6. Cardinality(ReadersOf(s)) = 0
    BY <2>3, FS_EmptySet
  <2>7. \A x \in Sessions : tokens'[x] = Cardinality(ReadersOf(x))
    BY <2>4, <2>5, <2>6
  <2> QED  BY <2>2, <2>7 DEF TokensCount
<1>6. CASE Touch(r)             BY <1>1, <1>6 DEF Touch, ReadersOf
<1>7. CASE Acquire(r)
  <2>1. ses[r] \in Sessions
    BY <1>7 DEF Acquire
  <2>2. /\ r \notin ReadersOf(ses[r])
        /\ ReadersOf(ses[r])' = ReadersOf(ses[r]) \cup {r}
        /\ \A s \in Sessions \ {ses[r]} : ReadersOf(s)' = ReadersOf(s)
    BY <1>7 DEF Acquire, ReadersOf
  <2>3. Cardinality(ReadersOf(ses[r])') = tokens[ses[r]] + 1
    BY <1>7, <2>1, <2>2, Joins DEF Acquire
  <2>4. \A s \in Sessions : tokens'[s] = IF s = ses[r] THEN tokens[s] + 1 ELSE tokens[s]
    BY <1>7 DEF Acquire
  <2>5. ASSUME NEW s \in Sessions, s # ses[r]  PROVE tokens'[s] = Cardinality(ReadersOf(s)')
    BY <2>2, <2>4, <2>5 DEF TokensCount
  <2>6. tokens'[ses[r]] = Cardinality(ReadersOf(ses[r])')
    BY <2>1, <2>3, <2>4
  <2> QED  BY <2>5, <2>6, <1>7 DEF TokensCount, Acquire
<1>8. CASE AcquireCancelled(r)  BY <1>1, <1>8 DEF AcquireCancelled, NoData, ReadersOf
<1>9. CASE EnterEOF(r)          BY <1>9, Released DEF EnterEOF, NoData, MayEnter
<1>10. CASE Enter(r)            BY <1>1, <1>10 DEF Enter, MayEnter, ReadersOf
<1>11. CASE Seek(r)             BY <1>1, <1>11 DEF Seek, ReadersOf
<1>12. CASE Return(r)           BY <1>1, <1>12 DEF Return, ReadersOf
<1>13. CASE Abandon(r)          BY <1>1, <1>13 DEF Abandon, ReadersOf
<1>14. CASE Read(r)
  <2>1. PICK loc \in {"acquire", "done"} : pc' = [pc EXCEPT ![r] = loc]
    BY <1>14 DEF Read
  <2> QED  BY <1>14, <2>1, Released DEF Read
<1>15. CASE ReadEOF(r)          BY <1>15, Released DEF ReadEOF, NoData
<1>16. CASE ReadFails(r)        BY <1>16, Released DEF ReadFails
<1> QED
  BY <1>2, <1>3, <1>4, <1>5, <1>6, <1>7, <1>8, <1>9, <1>10, <1>11, <1>12, <1>13,
     <1>14, <1>15, <1>16 DEF HandlerStep, ReadStep

\* Nobody else enters a buffer or leaves it.
LEMMA OtherSteps == Other => UNCHANGED <<tokens, position, pc, ses, params, history, progress>>
BY DEF Other, SweepStep, SweepTick, SweepDrained, SweepDone, SweepKeeps, SweepCloses,
       DropTorrent, Tick

LEMMA OtherTokens == IInv /\ Other => TokensCount'
BY OtherSteps DEF IInv, TokensCount, ReadersOf

------------------------------------------------------------------------------
(* Requests and sessions *)

LEMMA HandlerRequests ==
    ASSUME IInv, NEW r \in Requests,
           Arrive(r) \/ HandlerStep(r) \/ ReadStep(r) \/ Abandon(r)
    PROVE  RequestInv'
<1> USE DEF IInv, Types, RequestInv, HasSession, Busy
<1>1. CASE Arrive(r)            BY <1>1 DEF Arrive, Positions
<1>2. CASE Lookup(r)            BY <1>2 DEF Lookup
<1>3. CASE CreateFinds(r)       BY <1>3 DEF CreateFinds
<1>4. CASE Create(r)            BY <1>4 DEF Create, Free
<1>5. CASE Touch(r)             BY <1>5 DEF Touch
<1>6. CASE Acquire(r)           BY <1>6 DEF Acquire
<1>7. CASE AcquireCancelled(r)  BY <1>7 DEF AcquireCancelled, NoData
<1>8. CASE EnterEOF(r)          BY <1>8 DEF EnterEOF, NoData, MayEnter
<1>9. CASE Enter(r)             BY <1>9 DEF Enter, MayEnter
<1>10. CASE Seek(r)             BY <1>10 DEF Seek
<1>11. CASE Return(r)           BY <1>11 DEF Return
<1>12. CASE Abandon(r)          BY <1>12 DEF Abandon
<1>13. CASE Read(r)             BY <1>13, SizesAssumption DEF Read, Positions
<1>14. CASE ReadEOF(r)          BY <1>14 DEF ReadEOF, NoData
<1>15. CASE ReadFails(r)        BY <1>15 DEF ReadFails
<1> QED
  BY <1>1, <1>2, <1>3, <1>4, <1>5, <1>6, <1>7, <1>8, <1>9, <1>10, <1>11, <1>12, <1>13,
     <1>14, <1>15 DEF HandlerStep, ReadStep

LEMMA OtherRequests == IInv /\ Other => RequestInv'
BY OtherSteps DEF IInv, RequestInv

\* What most handlers leave alone.
Shared == <<registry, fileOf, closed, sweepVars>>

LEMMA HandlerShares ==
    ASSUME NEW r \in Requests, Arrive(r) \/ HandlerStep(r) \/ ReadStep(r) \/ Abandon(r)
    PROVE  Create(r) \/ UNCHANGED Shared
BY DEF Shared, HandlerStep, ReadStep, Arrive, Lookup, CreateFinds, Touch, Acquire,
       AcquireCancelled, EnterEOF, Enter, Seek, Return, Abandon, Read, ReadEOF, ReadFails

\* A session that is made was closed, and nobody had it.
LEMMA CreateSessions ==
    ASSUME IInv, NEW r \in Requests, Create(r)
    PROVE  SessionInv' /\ SweepInv'
<1> USE DEF IInv, Types
<1>1. PICK s \in Free :
        /\ registry' = [registry EXCEPT ![file[r]] = s]
        /\ fileOf' = [fileOf EXCEPT ![s] = file[r]]
        /\ closed' = [closed EXCEPT ![s] = FALSE]
        /\ ses' = [ses EXCEPT ![r] = s]
  BY DEF Create
<1>2. /\ s \in Sessions /\ \A f \in Files : registry[f] # s
      /\ \A q \in Requests : ses[q] # s
  BY <1>1 DEF Free, Referenced
<1>3. file[r] \in Files /\ registry[file[r]] = NoSession /\ MutexFree
  BY DEF Create, RequestInv
<1>4. closed[s]
  BY <1>2 DEF SessionInv, OpenIsRegistered
<1>5. \A f \in Files : registry'[f] # NoSession =>
         ~closed'[registry'[f]] /\ fileOf'[registry'[f]] = f
  BY <1>1, <1>2, <1>3 DEF SessionInv, OpenIsRegistered
<1>6. \A x \in Sessions : ~closed'[x] => fileOf'[x] \in Files /\ registry'[fileOf'[x]] = x
  BY <1>1, <1>2, <1>3, NullsAssumption DEF SessionInv, OpenIsRegistered
<1>7. CloseWaits'
  <2>1. ASSUME NEW q \in Requests, pc'[q] \in Reading, closed'[ses'[q]]
        PROVE  victim' = ses'[q]
    <3>1. q # r /\ pc[q] \in Reading
      BY <2>1 DEF Create, Reading
    <3>2. ses[q] \in Sessions /\ ses'[q] = ses[q]
      BY <1>1, <3>1 DEF RequestInv, HasSession, Reading
    <3>3. closed[ses[q]]
      BY <1>1, <1>2, <2>1, <3>2
    <3> QED  BY <3>1, <3>2, <3>3 DEF SweepInv, CloseWaits, Create
  <2> QED  BY <2>1 DEF CloseWaits
<1>8. SweepInv'
  BY <1>3, <1>7 DEF SweepInv, Create, MutexFree
<1> QED  BY <1>5, <1>6, <1>8 DEF SessionInv, OpenIsRegistered

\* A read begins in an open buffer only.
LEMMA HandlerSessions ==
    ASSUME IInv, NEW r \in Requests,
           Arrive(r) \/ HandlerStep(r) \/ ReadStep(r) \/ Abandon(r)
    PROVE  SessionInv' /\ SweepInv'
<1>1. CASE Create(r)
  BY <1>1, CreateSessions
<1>2. ASSUME UNCHANGED Shared, CloseWaits'
      PROVE  SessionInv' /\ SweepInv'
  BY <1>2 DEF IInv, Shared, SessionInv, OpenIsRegistered, SweepInv, MutexFree
<1>3. ASSUME UNCHANGED Shared, ~Enter(r)
      PROVE  \A q \in Requests : pc'[q] \in Reading => pc[q] \in Reading /\ ses'[q] = ses[q]
  BY <1>3 DEF HandlerStep, ReadStep, Arrive, Lookup, CreateFinds, Touch, Acquire,
       AcquireCancelled, EnterEOF, Seek, Return, Abandon, Read, ReadEOF, ReadFails, NoData,
       MayEnter, Reading, IInv, Types, Create
<1>4. CASE Enter(r)
  BY <1>2, <1>4 DEF Enter, MayEnter, Shared, IInv, Types, SweepInv, CloseWaits, Reading
<1>5. CASE ~Create(r) /\ ~Enter(r)
  <2>1. UNCHANGED Shared
    BY <1>5, HandlerShares
  <2>2. CloseWaits'
    BY <1>3, <1>5, <2>1 DEF Shared, IInv, SweepInv, CloseWaits
  <2> QED  BY <1>2, <2>1, <2>2
<1> QED  BY <1>1, <1>4, <1>5

LEMMA OtherSessions ==
    ASSUME IInv, Other
    PROVE  SessionInv' /\ SweepInv'
<1> USE OtherSteps
        DEF IInv, Types, SessionInv, OpenIsRegistered, SweepInv, MutexFree, CloseWaits
<1>1. CASE SweepTick     BY <1>1 DEF SweepTick
<1>2. CASE SweepDrained  BY <1>2, NullsAssumption DEF SweepDrained, InBuffer
<1>3. CASE SweepDone     BY <1>3 DEF SweepDone
<1>4. ASSUME NEW f \in Files, SweepKeeps(f)  PROVE SessionInv' /\ SweepInv'
  BY <1>4 DEF SweepKeeps
<1>5. ASSUME NEW f \in Files, SweepCloses(f)  PROVE SessionInv' /\ SweepInv'
  <2> DEFINE s == registry[f]
  <2>1. /\ s \in Sessions /\ s # NoSession /\ fileOf[s] = f /\ victim = NoSession
        /\ victim' = s /\ closed' = [closed EXCEPT ![s] = TRUE]
        /\ registry' = [registry EXCEPT ![f] = NoSession]
    BY <1>5, NullsAssumption DEF SweepCloses
  <2>2. SessionInv'
    BY <1>5, <2>1 DEF SweepCloses
  <2>3. \A q \in Requests : pc[q] \in Reading => ses[q] \in Sessions /\ ~closed[ses[q]]
    BY <2>1, NullsAssumption DEF RequestInv, HasSession, Reading
  <2>4. CloseWaits'
    BY <2>1, <2>3
  <2> QED  BY <1>5, <2>1, <2>2, <2>4 DEF SweepCloses
<1>6. ASSUME NEW f \in Files, DropTorrent(f)  PROVE SessionInv' /\ SweepInv'
  BY <1>6 DEF DropTorrent
<1>7. CASE Tick          BY <1>7 DEF Tick
<1> QED  BY <1>1, <1>2, <1>3, <1>4, <1>5, <1>6, <1>7 DEF Other, SweepStep

------------------------------------------------------------------------------
(* What a request reads *)

\* The company inside a buffer, the places of the reader and what has been
\* delivered, when neither changes.
LEMMA ReadSame ==
    ASSUME IInv, UNCHANGED <<position, history, next>>,
           \A q \in Requests : pc'[q] \in Reading => pc'[q] = pc[q] /\ ses'[q] = ses[q]
    PROVE  ReadInv'
BY DEF IInv, ReadInv, AloneIsRight, Reading

LEMMA HandlerReads ==
    ASSUME IInv, NEW r \in Requests,
           Arrive(r) \/ HandlerStep(r) \/ ReadStep(r) \/ Abandon(r)
    PROVE  ReadInv'
<1> USE DEF IInv, Types, ReadInv, AloneIsRight, Reading
<1>1. CASE Arrive(r)            BY <1>1 DEF Arrive
<1>2. CASE Lookup(r)            BY <1>2, ReadSame DEF Lookup
<1>3. CASE CreateFinds(r)       BY <1>3, ReadSame DEF CreateFinds
<1>4. CASE Create(r)
  <2>1. PICK s \in Free :
          /\ position' = [position EXCEPT ![s] = 0]
          /\ ses' = [ses EXCEPT ![r] = s]
    BY <1>4 DEF Create
  <2>2. s \in Sessions /\ \A q \in Requests : ses[q] # s
    BY <2>1 DEF Free, Referenced
  <2> QED  BY <1>4, <2>1, <2>2 DEF Create
<1>5. CASE Touch(r)             BY <1>5, ReadSame DEF Touch
<1>6. CASE Acquire(r)           BY <1>6, ReadSame DEF Acquire
<1>7. CASE AcquireCancelled(r)  BY <1>7, ReadSame DEF AcquireCancelled, NoData
<1>8. CASE EnterEOF(r)          BY <1>8, ReadSame DEF EnterEOF, NoData, MayEnter
<1>9. CASE Enter(r)             BY <1>9 DEF Enter, MayEnter, InBuffer
<1>10. CASE Seek(r)             BY <1>10 DEF Seek, RequestInv, HasSession
<1>11. CASE Return(r)           BY <1>11 DEF Return
<1>12. CASE Abandon(r)          BY <1>12, ReadSame DEF Abandon
<1>13. CASE Read(r)
  <2>1. /\ pc[r] = "read" /\ ses[r] \in Sessions /\ pc'[r] \in {"acquire", "done"}
        /\ \A q \in Requests \ {r} :
             /\ pc'[q] = pc[q] /\ next'[q] = next[q] /\ wrong'[q] = wrong[q]
             /\ ses[q] # ses[r] => position'[ses[q]] = position[ses[q]]
        /\ wrong'[r] = wrong[r] \/ (wrong'[r] <=> position[ses[r]] # next[r])
        /\ ses' = ses /\ shared' = shared
    BY <1>13 DEF Read, RequestInv, HasSession
  <2>2. AloneIsRight'
    BY <2>1
  <2>3. \A q, u \in Requests :
          q # u /\ pc'[q] \in Reading /\ pc'[u] \in Reading /\ ses[q] = ses[u] => shared[q]
    BY <2>1
  <2>4. ASSUME NEW q \in Requests, pc'[q] = "read", ~shared[q]
        PROVE  position'[ses[q]] = next'[q]
    BY <2>1, <2>4
  <2> QED  BY <2>1, <2>2, <2>3, <2>4
<1>14. CASE ReadEOF(r)          BY <1>14 DEF ReadEOF, NoData, RequestInv, HasSession
<1>15. CASE ReadFails(r)        BY <1>15, ReadSame DEF ReadFails
<1> QED
  BY <1>1, <1>2, <1>3, <1>4, <1>5, <1>6, <1>7, <1>8, <1>9, <1>10, <1>11, <1>12, <1>13,
     <1>14, <1>15 DEF HandlerStep, ReadStep

LEMMA OtherReads == IInv /\ Other => ReadInv'
BY OtherSteps, ReadSame

------------------------------------------------------------------------------
(* How a request ends *)

\* A session that is closed stays so while a request has it.
LEMMA StaysClosed ==
    ASSUME IInv, Next, NEW q \in Requests, closed[ses[q]], ses'[q] = ses[q], ses[q] \in Sessions
    PROVE  closed'[ses'[q]]
<1>1. ASSUME NEW r \in Requests, Create(r)  PROVE closed'[ses[q]]
  BY <1>1 DEF Create, Free, Referenced, IInv, Types
<1>2. ASSUME NEW f \in Files, SweepCloses(f)  PROVE closed'[ses[q]]
  BY <1>2 DEF SweepCloses, IInv, Types
<1>3. ASSUME closed' = closed  PROVE closed'[ses[q]]
  BY <1>3
<1> QED
  BY <1>1, <1>2, <1>3, HandlerShares
     DEF Next, Shared, SweepStep, SweepTick, SweepDrained, SweepDone, SweepKeeps, DropTorrent, Tick

Cut(q) == outcome[q] = "ok" /\ kind[q] = "range" /\ next[q] <= last[q]

\* The request that ends in this step.
LEMMA OwnEnd ==
    ASSUME IInv, NEW r \in Requests,
           Arrive(r) \/ HandlerStep(r) \/ ReadStep(r) \/ Abandon(r), Cut(r)'
    PROVE  closed'[ses'[r]] \/ shared'[r]
<1> USE DEF IInv, Types, RequestInv, Cut
<1>1. CASE Arrive(r)            BY <1>1 DEF Arrive
<1>2. CASE Lookup(r)            BY <1>2 DEF Lookup
<1>3. CASE CreateFinds(r)       BY <1>3 DEF CreateFinds
<1>4. CASE Create(r)            BY <1>4 DEF Create
<1>5. CASE Touch(r)             BY <1>5 DEF Touch
<1>6. CASE Acquire(r)           BY <1>6 DEF Acquire
<1>7. CASE AcquireCancelled(r)  BY <1>7 DEF AcquireCancelled
<1>8. CASE EnterEOF(r)          BY <1>8 DEF EnterEOF
<1>9. CASE Enter(r)             BY <1>9 DEF Enter, MayEnter
<1>10. CASE Seek(r)             BY <1>10 DEF Seek
<1>11. CASE Return(r)           BY <1>11 DEF Return
<1>12. CASE Abandon(r)          BY <1>12 DEF Abandon
<1>13. CASE Read(r)
  <2>1. outcome'[r] = "ok" => next'[r] = next[r] + 1 /\ ~(next[r] < last[r])
    BY <1>13 DEF Read
  <2> QED  BY <1>13, <2>1 DEF Read, Positions
<1>14. CASE ReadEOF(r)
  <2>1. ~probing[r] /\ position[ses[r]] = FileSize
    BY <1>14 DEF ReadEOF, NoData
  <2>2. next[r] <= last[r] /\ last[r] < FileSize /\ pc[r] = "read"
    BY <1>14, SizesAssumption DEF ReadEOF, Positions
  <2>3. next[r] # FileSize
    BY <2>2, SizesAssumption DEF Positions
  <2> QED  BY <1>14, <2>1, <2>2, <2>3 DEF ReadEOF, ReadInv
<1>15. CASE ReadFails(r)        BY <1>15 DEF ReadFails
<1> QED
  BY <1>1, <1>2, <1>3, <1>4, <1>5, <1>6, <1>7, <1>8, <1>9, <1>10, <1>11, <1>12, <1>13,
     <1>14, <1>15 DEF HandlerStep, ReadStep

\* No step takes anything from a request of another that has ended.
LEMMA OtherEnds ==
    ASSUME IInv, Next, NEW q \in Requests, Cut(q)', ses'[q] = ses[q],
           UNCHANGED <<outcome[q], kind[q], next[q], last[q]>>, shared[q] => shared'[q]
    PROVE  closed'[ses'[q]] \/ shared'[q]
<1>1. Cut(q) /\ ses[q] \in Sessions
  BY DEF Cut, IInv, RequestInv, HasSession
<1>2. closed[ses[q]] \/ shared[q]
  BY <1>1 DEF IInv, CutOnlyBySweep, Cut
<1> QED  BY <1>1, <1>2, StaysClosed

LEMMA HandlerEnds ==
    ASSUME IInv, Next, NEW r \in Requests,
           Arrive(r) \/ HandlerStep(r) \/ ReadStep(r) \/ Abandon(r)
    PROVE  CutOnlyBySweep'
<1>1. ASSUME NEW q \in Requests, q # r
      PROVE  /\ UNCHANGED <<outcome[q], kind[q], next[q], last[q], ses[q]>>
             /\ shared[q] => shared'[q]
  BY <1>1 DEF HandlerStep, ReadStep, Arrive, Lookup, CreateFinds, Create, Touch, Acquire,
       AcquireCancelled, EnterEOF, Enter, Seek, Return, Abandon, Read, ReadEOF, ReadFails,
       NoData, IInv, Types
<1>2. ASSUME NEW q \in Requests, Cut(q)'  PROVE closed'[ses'[q]] \/ shared'[q]
  BY <1>1, <1>2, OwnEnd, OtherEnds
<1> QED  BY <1>2 DEF CutOnlyBySweep, Cut

LEMMA OtherCuts == IInv /\ Next /\ Other => CutOnlyBySweep'
<1> SUFFICES ASSUME IInv, Next, Other, NEW q \in Requests, Cut(q)'
             PROVE  closed'[ses'[q]] \/ shared'[q]
  BY DEF CutOnlyBySweep, Cut
<1> QED  BY OtherSteps, OtherEnds

------------------------------------------------------------------------------
(* The invariant, and what follows from it *)

LEMMA Unchanged == IInv /\ UNCHANGED vars => IInv'
BY DEF vars, IInv, Types, TokensCount, ReadersOf, RequestInv, SessionInv, OpenIsRegistered,
       SweepInv, MutexFree, CloseWaits, ReadInv, AloneIsRight, CutOnlyBySweep

\* The strengthened invariant holds in every reachable state.
THEOREM Invariance == Spec => []IInv
<1>1. IInv /\ Next => IInv'
  <2> SUFFICES ASSUME IInv, Next  PROVE IInv'
    OBVIOUS
  <2>1. ASSUME NEW r \in Requests,
               Arrive(r) \/ HandlerStep(r) \/ ReadStep(r) \/ Abandon(r)
        PROVE  IInv'
    BY <2>1, HandlerTypes, HandlerTokens, HandlerRequests, HandlerSessions, HandlerReads,
       HandlerEnds DEF IInv
  <2>2. CASE Other
    BY <2>2, OtherTypes, OtherTokens, OtherRequests, OtherSessions, OtherReads, OtherCuts
       DEF IInv
  <2> QED  BY <2>1, <2>2 DEF Next, Other
<1> QED  BY Initially, Unchanged, <1>1, PTL DEF Spec

\* Every variable keeps its type, and every return of Read and ReadAt gives its
\* token back: those taken are those of the reads under way.
THEOREM TypeCorrect == Spec => []TypeOK
BY Invariance, PTL DEF IInv, TypeOK

\* The sessions are open exactly while they are registered, for any number of
\* requests that make, find and lose them (getOrCreateSession, manageSessions).
THEOREM SessionsOpen == Spec => []OpenIsRegistered
BY Invariance, PTL DEF IInv, SessionInv

\* The sweep is not past a buffer that has a reader inside (Buffer.Close).
THEOREM CloseWaiting == Spec => []CloseWaits
BY Invariance, PTL DEF IInv, SweepInv

\* A request alone in the buffer gets the bytes it has asked for (ReadAt,
\* streamRange).
THEOREM AloneRight == Spec => []AloneIsRight
BY Invariance, PTL DEF IInv, ReadInv

\* A range is cut short, without an error, by the sweep and by company only
\* (streamRange, manageSessions).
THEOREM CutBySweep == Spec => []CutOnlyBySweep
BY Invariance, PTL DEF IInv

------------------------------------------------------------------------------
(* How long a request and a sweep may take *)

\* The reads a request has still to make, and its steps: four for each read, and
\* those up to its session.
ReadsLeft(r) == last[r] - next[r] + (IF probing[r] THEN 2 ELSE 1)
RequestSteps(r) ==
    CASE pc[r] = "lookup"             -> 4 * ReadsLeft(r) + 6
      [] pc[r] \in {"create", "touch"} -> 4 * ReadsLeft(r) + 5
      [] pc[r] = "acquire"            -> 4 * ReadsLeft(r) + 4
      [] pc[r] = "enter"              -> 4 * ReadsLeft(r) + 3
      [] pc[r] = "seek"               -> 4 * ReadsLeft(r) + 2
      [] pc[r] = "read"               -> 4 * ReadsLeft(r) + 1
      [] OTHER                        -> 0
Waits(r) == UNCHANGED <<pc[r], next[r], last[r], probing[r]>>
Nearer(r) == Waits(r) \/ RequestSteps(r)' < RequestSteps(r)

\* What a sweep has left: the sessions to visit, and the one it closes.
SweepPlace == CASE sweeper = "drain" -> 2 [] sweeper = "range" -> 1 [] sweeper = "ticker" -> 0
SweepNearer ==
    \/ todo' \subseteq todo /\ todo' # todo
    \/ UNCHANGED todo /\ SweepPlace' < SweepPlace

LEMMA ReadsCounted ==
    ASSUME IInv, NEW r \in Requests
    PROVE  /\ ReadsLeft(r) \in Int
           /\ pc[r] \in Busy => ReadsLeft(r) \in 1 .. FileSize + 1
           /\ RequestSteps(r) \in 0 .. 4 * FileSize + 10
<1>1. next[r] \in 0 .. FileSize /\ last[r] \in 0 .. FileSize - 1
  BY DEF IInv, Types, Positions
<1>2. ReadsLeft(r) \in Int
  BY <1>1, SizesAssumption DEF ReadsLeft
<1>3. ASSUME pc[r] \in Busy  PROVE ReadsLeft(r) \in 1 .. FileSize + 1
  <2>1. next[r] <= last[r]
    BY <1>3 DEF IInv, RequestInv
  <2> QED  BY <1>1, <2>1, SizesAssumption DEF ReadsLeft
<1>4. RequestSteps(r) \in 0 .. 4 * FileSize + 10
  BY <1>3, SizesAssumption DEF RequestSteps, Busy, HasSession
<1> QED  BY <1>2, <1>3, <1>4

\* A step of the request itself that leaves its reads as they are.
LEMMA MovesOn ==
    ASSUME IInv, NEW r \in Requests, pc[r] \in Busy,
           UNCHANGED <<next[r], last[r], probing[r]>>,
           \/ pc[r] = "lookup" /\ pc'[r] \in {"create", "touch"}
           \/ pc[r] \in {"create", "touch"} /\ pc'[r] = "acquire"
           \/ pc[r] = "acquire" /\ pc'[r] = "enter"
           \/ pc[r] = "enter" /\ pc'[r] = "seek"
           \/ pc[r] = "seek" /\ pc'[r] = "read"
    PROVE  Nearer(r)
<1>1. ReadsLeft(r)' = ReadsLeft(r) /\ ReadsLeft(r) \in Int
  BY ReadsCounted DEF ReadsLeft
<1> QED  BY <1>1 DEF Nearer, RequestSteps

LEMMA EndsNearer ==
    ASSUME IInv, NEW r \in Requests, pc[r] \in Busy, pc'[r] = "done"
    PROVE  Nearer(r)
<1>1. ReadsLeft(r) \in Int /\ ReadsLeft(r) >= 1
  BY ReadsCounted, SizesAssumption
<1> QED  BY <1>1 DEF Nearer, RequestSteps, Busy, HasSession

LEMMA OwnStep ==
    ASSUME IInv, NEW r \in Requests, pc[r] \in Busy,
           Arrive(r) \/ HandlerStep(r) \/ ReadStep(r) \/ Abandon(r)
    PROVE  Nearer(r)
<1>0. pc \in [Requests -> {"idle", "lookup", "create", "touch", "acquire", "enter", "seek",
                           "read", "done"}]
  BY DEF IInv, Types
<1>1. CASE Lookup(r)
  BY <1>0, <1>1, MovesOn DEF Lookup
<1>2. CASE CreateFinds(r) \/ Create(r) \/ Touch(r)
  BY <1>0, <1>2, MovesOn DEF CreateFinds, Create, Touch
<1>3. CASE Acquire(r)
  BY <1>0, <1>3, MovesOn DEF Acquire
<1>4. CASE Enter(r)
  BY <1>0, <1>4, MovesOn DEF Enter, MayEnter
<1>5. CASE Seek(r)
  BY <1>0, <1>5, MovesOn DEF Seek
<1>6. CASE AcquireCancelled(r) \/ EnterEOF(r) \/ ReadEOF(r) \/ ReadFails(r) \/ Abandon(r)
  <2>1. pc'[r] = "done"
    BY <1>0, <1>6 DEF AcquireCancelled, EnterEOF, ReadEOF, ReadFails, Abandon, NoData
  <2> QED  BY <2>1, EndsNearer
<1>7. CASE Read(r)
  <2>0. /\ next \in [Requests -> 0 .. FileSize] /\ last \in [Requests -> Positions]
        /\ probing \in [Requests -> BOOLEAN]
    BY DEF IInv, Types
  <2>1. CASE pc'[r] = "done"
    BY <2>1, EndsNearer
  <2>2. CASE pc'[r] # "done"
    <3>1. /\ pc[r] = "read" /\ pc'[r] = "acquire" /\ last' = last
          /\ \/ probing[r] /\ ~probing'[r] /\ next'[r] = next[r]
             \/ ~probing[r] /\ ~probing'[r] /\ next'[r] = next[r] + 1
      BY <1>0, <1>7, <2>0, <2>2 DEF Read
    <3>2. next[r] \in Int /\ last[r] \in Int
      BY <2>0, SizesAssumption DEF Positions
    <3>3. ReadsLeft(r)' = ReadsLeft(r) - 1 /\ ReadsLeft(r) \in Int
      BY <3>1, <3>2 DEF ReadsLeft
    <3> QED  BY <3>1, <3>3 DEF Nearer, RequestSteps
  <2> QED  BY <2>1, <2>2
<1> QED
  BY <1>1, <1>2, <1>3, <1>4, <1>5, <1>6, <1>7
     DEF Arrive, Return, HandlerStep, ReadStep, Busy, HasSession

\* A request is left alone by the steps of others.
LEMMA OthersStep ==
    ASSUME IInv, NEW r \in Requests, NEW q \in Requests \ {r},
           Arrive(q) \/ HandlerStep(q) \/ ReadStep(q) \/ Abandon(q)
    PROVE  Waits(r) /\ ses'[r] = ses[r]
<1> USE DEF IInv, Types, Waits
<1>1. CASE Arrive(q)       BY <1>1 DEF Arrive
<1>2. CASE Lookup(q)       BY <1>2 DEF Lookup
<1>3. CASE CreateFinds(q)  BY <1>3 DEF CreateFinds
<1>4. CASE Create(q)       BY <1>4 DEF Create
<1>5. CASE Touch(q)        BY <1>5 DEF Touch
<1>6. CASE Acquire(q)      BY <1>6 DEF Acquire
<1>7. CASE AcquireCancelled(q) \/ EnterEOF(q)
  BY <1>7 DEF AcquireCancelled, EnterEOF, NoData
<1>8. CASE Enter(q)        BY <1>8 DEF Enter
<1>9. CASE Seek(q)         BY <1>9 DEF Seek
<1>10. CASE Return(q)      BY <1>10 DEF Return
<1>11. CASE Read(q)        BY <1>11 DEF Read
<1>12. CASE ReadEOF(q) \/ ReadFails(q) \/ Abandon(q)
  BY <1>12 DEF ReadEOF, ReadFails, Abandon, NoData
<1> QED
  BY <1>1, <1>2, <1>3, <1>4, <1>5, <1>6, <1>7, <1>8, <1>9, <1>10, <1>11, <1>12
     DEF HandlerStep, ReadStep

\* Every step of a request brings its end nearer, whatever the others and the
\* sweep do: it makes at most 4 * FileSize + 10 of them (StreamFile,
\* streamRange, ReadAt).
THEOREM RequestShortens ==
    Spec => /\ [](\A r \in Requests : RequestSteps(r) \in 0 .. 4 * FileSize + 10)
            /\ [][\A r \in Requests : pc[r] \in Busy => Nearer(r)]_vars
<1>1. IInv => \A r \in Requests : RequestSteps(r) \in 0 .. 4 * FileSize + 10
  BY ReadsCounted
<1>2. ASSUME IInv, Next, NEW r \in Requests, pc[r] \in Busy  PROVE Nearer(r)
  <2>1. CASE Other
    <3>1. Waits(r)
      BY <1>2, <2>1, OtherSteps DEF Waits
    <3> QED  BY <3>1 DEF Nearer
  <2>2. ASSUME NEW q \in Requests,
               Arrive(q) \/ HandlerStep(q) \/ ReadStep(q) \/ Abandon(q)
        PROVE  Nearer(r)
    <3>1. CASE q = r
      BY <1>2, <2>2, <3>1, OwnStep
    <3>2. CASE q # r
      BY <1>2, <2>2, <3>2, OthersStep DEF Nearer
    <3> QED  BY <3>1, <3>2
  <2> QED  BY <1>2, <2>1, <2>2 DEF Next, Other
<1>3. IInv /\ [Next]_vars => [\A r \in Requests : pc[r] \in Busy => Nearer(r)]_vars
  BY <1>2
<1> QED  BY Invariance, <1>1, <1>3, PTL DEF Spec

\* Every step of a sweep leaves it fewer sessions to visit, or ends the closing of
\* one, or the sweep itself; no session is added meanwhile, since it holds
\* sessionMutex (manageSessions).
THEOREM SweepShortens ==
    Spec => [][sweeper # "ticker" => UNCHANGED sweepVars \/ SweepNearer]_vars
<1>1. ASSUME IInv, Next, sweeper # "ticker"  PROVE UNCHANGED sweepVars \/ SweepNearer
  <2>1. ASSUME NEW r \in Requests,
               Arrive(r) \/ HandlerStep(r) \/ ReadStep(r) \/ Abandon(r)
        PROVE  UNCHANGED sweepVars
    BY <2>1
       DEF Arrive, HandlerStep, Lookup, CreateFinds, Create, Touch, Acquire,
           AcquireCancelled, EnterEOF, Enter, Seek, Return, ReadStep, Read, ReadEOF,
           ReadFails, Abandon
  <2>2. CASE SweepTick \/ Tick \/ \E f \in Files : DropTorrent(f)
    BY <1>1, <2>2 DEF SweepTick, Tick, DropTorrent
  <2>3. CASE SweepDrained \/ SweepDone
    BY <2>3 DEF SweepDrained, SweepDone, SweepNearer, SweepPlace
  <2>4. ASSUME NEW f \in Files, SweepKeeps(f) \/ SweepCloses(f)
        PROVE  SweepNearer
    BY <2>4 DEF SweepKeeps, SweepCloses, SweepNearer
  <2> QED  BY <1>1, <2>1, <2>2, <2>3, <2>4 DEF Next, SweepStep
<1>2. IInv /\ [Next]_vars => [sweeper # "ticker" => UNCHANGED sweepVars \/ SweepNearer]_vars
  BY <1>1
<1> QED  BY Invariance, <1>2, PTL DEF Spec

\* While Close waits for the readers of a buffer none joins them (ReadAt waits
\* for b.mu behind it), so that what Close waits for only shrinks.
THEOREM CloseDrains ==
    Spec => [][\A s \in Sessions : victim = s => InBuffer(s)' \subseteq InBuffer(s)]_vars
<1>1. ASSUME IInv, Next, NEW s \in Sessions, victim = s, NEW r \in InBuffer(s)'
      PROVE  r \in InBuffer(s)
  <2>0. /\ r \in Requests /\ ses'[r] = s /\ pc'[r] \in Reading
        /\ ses \in [Requests -> Sessions \cup {NoSession}]
        /\ pc \in [Requests -> {"idle", "lookup", "create", "touch", "acquire", "enter",
                                "seek", "read", "done"}]
    BY <1>1 DEF InBuffer, IInv, Types
  <2>1. CASE Other
    BY <1>1, <2>0, <2>1, OtherSteps DEF InBuffer
  <2>2. ASSUME NEW q \in Requests \ {r},
               Arrive(q) \/ HandlerStep(q) \/ ReadStep(q) \/ Abandon(q)
        PROVE  r \in InBuffer(s)
    BY <1>1, <2>0, <2>2, OthersStep DEF InBuffer, Waits
  <2>3. CASE Enter(r)
    BY <1>1, <2>0, <2>3 DEF Enter, MayEnter
  <2>4. CASE Seek(r)
    BY <1>1, <2>0, <2>4 DEF Seek, InBuffer, Reading
  <2>5. ASSUME \/ Arrive(r) \/ Lookup(r) \/ CreateFinds(r) \/ Create(r) \/ Touch(r)
               \/ Acquire(r) \/ AcquireCancelled(r) \/ EnterEOF(r) \/ Return(r)
               \/ ReadStep(r) \/ Abandon(r)
        PROVE  FALSE
    <3>1. pc'[r] \notin {"seek", "read"}
      BY <2>0, <2>5
         DEF Arrive, Lookup, CreateFinds, Create, Touch, Acquire, AcquireCancelled,
             EnterEOF, Return, ReadStep, Read, ReadEOF, ReadFails, Abandon, NoData
    <3> QED  BY <2>0, <3>1 DEF Reading
  <2> QED
    BY <1>1, <2>0, <2>1, <2>2, <2>3, <2>4, <2>5 DEF Next, Other, HandlerStep
<1>2. IInv /\ [Next]_vars =>
        [\A s \in Sessions : victim = s => InBuffer(s)' \subseteq InBuffer(s)]_vars
  BY <1>1
<1> QED  BY Invariance, <1>2, PTL DEF Spec
=============================================================================
