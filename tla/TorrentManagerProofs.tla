------------------------- MODULE TorrentManagerProofs -------------------------
(***************************************************************************)
(* Proofs about TorrentManager, for every number of hashes, torrents and   *)
(* callers and every configuration.                                        *)
(*                                                                         *)
(* IInv is the inductive invariant.  One lemma per group of actions shows  *)
(* that they preserve it; under each action there is one step for every    *)
(* conjunct the action can disturb and one for the conjuncts that speak of *)
(* nothing it changes.                                                     *)
(***************************************************************************)
EXTENDS TorrentManager, FiniteSetTheorems, TLAPS

\* Abbreviations every step of the proofs sees through.
USE DEF Up, Running, Goto, Adding, Admitted, Serving, Outside, Locations,
        Ages, Absent

------------------------------------------------------------------------------
(* How many callers hold a token of the semaphore *)

\* The callers are finitely many.
LEMMA AdmittedFinite == IsFiniteSet(AdmittedCallers)
  BY CallersAssumption, FS_Subset DEF AdmittedCallers

\* A caller that moves between locations on the same side of the semaphore
\* changes nothing.
LEMMA AdmittedSame ==
    ASSUME TypeOK, NEW c \in Callers, NEW loc \in Locations,
           pc' = [pc EXCEPT ![c] = loc],
           pc[c] \in Admitted <=> loc \in Admitted
    PROVE  AdmittedCallers' = AdmittedCallers
  BY DEF AdmittedCallers, TypeOK

\* One that acquires the semaphore is one more.
LEMMA AdmittedJoins ==
    ASSUME TypeOK, NEW c \in Callers, NEW loc \in Admitted,
           pc' = [pc EXCEPT ![c] = loc], pc[c] \notin Admitted
    PROVE  Cardinality(AdmittedCallers') = Cardinality(AdmittedCallers) + 1
<1>1. AdmittedCallers' = AdmittedCallers \cup {c} /\ c \notin AdmittedCallers
  BY DEF AdmittedCallers, TypeOK
<1> QED BY <1>1, AdmittedFinite, FS_AddElement

\* One that releases it was counted, and is one less.
LEMMA AdmittedLeaves ==
    ASSUME TypeOK, NEW c \in Callers, NEW loc \in Locations \ Admitted,
           pc' = [pc EXCEPT ![c] = loc], pc[c] \in Admitted
    PROVE  /\ Cardinality(AdmittedCallers) \in Nat \ {0}
           /\ Cardinality(AdmittedCallers') = Cardinality(AdmittedCallers) - 1
<1>1. AdmittedCallers' = AdmittedCallers \ {c} /\ c \in AdmittedCallers
  BY DEF AdmittedCallers, TypeOK
<1>2. Cardinality(AdmittedCallers) \in Nat
  BY AdmittedFinite, FS_CardinalityType
<1>3. Cardinality(AdmittedCallers) # 0
  BY <1>1, AdmittedFinite, FS_EmptySet
<1> QED BY <1>1, <1>2, <1>3, AdmittedFinite, FS_RemoveElement

------------------------------------------------------------------------------
(* Every action preserves the invariant *)


\* The inductive invariant is preserved by the steps of a caller outside m.mu.
LEMMA OutsidePreserves ==
    ASSUME IInv, NEW c \in Callers,
           \/ Request(c) \/ LimiterPass(c) \/ LimiterFail(c) \/ Lookup(c)
           \/ StoreAccess(c) \/ TouchWrapper(c) \/ SemaphoreFull(c)
           \/ Finish(c) \/ MapFault(c)
    PROVE  IInv'
<1>1. CASE Request(c)
  <2>1. TypeOK' BY <1>1 DEF IInv, TypeOK, Request, cleanup, objects, registry
  <2>2. LockInv' BY <1>1 DEF IInv, LockInv, Request, cleanup
  <2>3. CallerInv' BY <1>1 DEF IInv, CallerInv, TypeOK, Request
  <2>4. AddsOnlyMissing' BY <1>1 DEF IInv, AddsOnlyMissing, Request, registry
  <2>5. SemaphoreCounts' BY <1>1, AdmittedSame DEF IInv, TypeOK,
        SemaphoreCounts, Request
  <2>6. CleanupInv' /\ HashInv' /\ ClosedInv' /\ RegisteredIsLive'
        /\ RegisteredIsMonitored' /\ RegisteredIsTracked' /\ ClosedIsQuiet'
      BY <1>1 DEF IInv, CleanupInv, HashInv, ClosedInv, RegisteredIsLive,
            RegisteredIsMonitored, RegisteredIsTracked, ClosedIsQuiet,
            Request, cleanup, objects, registry
  <2> QED BY <2>1, <2>2, <2>3, <2>4, <2>5, <2>6 DEF IInv
<1>2. CASE LimiterPass(c)
  <2>1. TypeOK' BY <1>2 DEF IInv, TypeOK, LimiterPass, cleanup, objects,
        registry
  <2>2. LockInv' BY <1>2 DEF IInv, LockInv, LimiterPass, cleanup
  <2>3. CallerInv' BY <1>2 DEF IInv, CallerInv, LimiterPass
  <2>4. AddsOnlyMissing' BY <1>2 DEF IInv, AddsOnlyMissing, LimiterPass,
        registry
  <2>5. SemaphoreCounts' BY <1>2, AdmittedSame DEF IInv, TypeOK,
        SemaphoreCounts, LimiterPass
  <2>6. CleanupInv' /\ HashInv' /\ ClosedInv' /\ RegisteredIsLive'
        /\ RegisteredIsMonitored' /\ RegisteredIsTracked' /\ ClosedIsQuiet'
      BY <1>2 DEF IInv, CleanupInv, HashInv, ClosedInv, RegisteredIsLive,
            RegisteredIsMonitored, RegisteredIsTracked, ClosedIsQuiet,
            LimiterPass, cleanup, objects, registry
  <2> QED BY <2>1, <2>2, <2>3, <2>4, <2>5, <2>6 DEF IInv
<1>3. CASE LimiterFail(c)
  <2>1. TypeOK' BY <1>3 DEF IInv, TypeOK, LimiterFail, cleanup, objects,
        registry
  <2>2. LockInv' BY <1>3 DEF IInv, LockInv, LimiterFail, cleanup
  <2>3. CallerInv' BY <1>3 DEF IInv, CallerInv, TypeOK, LimiterFail
  <2>4. AddsOnlyMissing' BY <1>3 DEF IInv, AddsOnlyMissing, LimiterFail,
        registry
  <2>5. SemaphoreCounts' BY <1>3, AdmittedSame DEF IInv, TypeOK,
        SemaphoreCounts, LimiterFail
  <2>6. CleanupInv' /\ HashInv' /\ ClosedInv' /\ RegisteredIsLive'
        /\ RegisteredIsMonitored' /\ RegisteredIsTracked' /\ ClosedIsQuiet'
      BY <1>3 DEF IInv, CleanupInv, HashInv, ClosedInv, RegisteredIsLive,
            RegisteredIsMonitored, RegisteredIsTracked, ClosedIsQuiet,
            LimiterFail, cleanup, objects, registry
  <2> QED BY <2>1, <2>2, <2>3, <2>4, <2>5, <2>6 DEF IInv
<1>4. CASE Lookup(c)
  <2>1. TypeOK' BY <1>4 DEF IInv, TypeOK, CallerInv, Lookup, cleanup, objects,
        registry
  <2>2. LockInv' BY <1>4 DEF IInv, LockInv, Lookup, cleanup
  <2>3. CallerInv' BY <1>4 DEF IInv, CallerInv, TypeOK, Lookup
  <2>4. AddsOnlyMissing' BY <1>4 DEF IInv, AddsOnlyMissing, Lookup, registry
  <2>5. SemaphoreCounts' BY <1>4, AdmittedSame DEF IInv, TypeOK,
        SemaphoreCounts, Lookup
  <2>6. CleanupInv' /\ HashInv' /\ ClosedInv' /\ RegisteredIsLive'
        /\ RegisteredIsMonitored' /\ RegisteredIsTracked' /\ ClosedIsQuiet'
      BY <1>4 DEF IInv, CleanupInv, HashInv, ClosedInv, RegisteredIsLive,
            RegisteredIsMonitored, RegisteredIsTracked, ClosedIsQuiet, Lookup,
            cleanup, objects, registry
  <2> QED BY <2>1, <2>2, <2>3, <2>4, <2>5, <2>6 DEF IInv
<1>5. CASE StoreAccess(c)
  <2>1. TypeOK' BY <1>5, ConfigAssumption DEF IInv, TypeOK, CallerInv,
        StoreAccess, cleanup, objects
  <2>2. LockInv' BY <1>5 DEF IInv, LockInv, StoreAccess, cleanup
  <2>3. CallerInv' BY <1>5 DEF IInv, CallerInv, StoreAccess
  <2>4. AddsOnlyMissing' BY <1>5 DEF IInv, AddsOnlyMissing, StoreAccess
  <2>5. RegisteredIsTracked' BY <1>5 DEF IInv, RegisteredIsTracked,
        StoreAccess
  <2>6. SemaphoreCounts' BY <1>5, AdmittedSame DEF IInv, TypeOK,
        SemaphoreCounts, StoreAccess
  <2>7. CleanupInv' /\ HashInv' /\ ClosedInv' /\ RegisteredIsLive'
        /\ RegisteredIsMonitored' /\ ClosedIsQuiet'
      BY <1>5 DEF IInv, CleanupInv, HashInv, ClosedInv, RegisteredIsLive,
            RegisteredIsMonitored, ClosedIsQuiet, StoreAccess, cleanup,
            objects
  <2> QED BY <2>1, <2>2, <2>3, <2>4, <2>5, <2>6, <2>7 DEF IInv
<1>6. CASE TouchWrapper(c)
  <2>1. TypeOK' BY <1>6, ConfigAssumption DEF IInv, TypeOK, CallerInv,
        TouchWrapper, cleanup, registry
  <2>2. LockInv' BY <1>6 DEF IInv, LockInv, TouchWrapper, cleanup
  <2>3. CallerInv' BY <1>6 DEF IInv, CallerInv, TouchWrapper
  <2>4. AddsOnlyMissing' BY <1>6 DEF IInv, AddsOnlyMissing, TouchWrapper,
        registry
  <2>5. SemaphoreCounts' BY <1>6, AdmittedSame DEF IInv, TypeOK,
        SemaphoreCounts, TouchWrapper
  <2>6. CleanupInv' /\ HashInv' /\ ClosedInv' /\ RegisteredIsLive'
        /\ RegisteredIsMonitored' /\ RegisteredIsTracked' /\ ClosedIsQuiet'
      BY <1>6 DEF IInv, CleanupInv, HashInv, ClosedInv, RegisteredIsLive,
            RegisteredIsMonitored, RegisteredIsTracked, ClosedIsQuiet,
            TouchWrapper, cleanup, registry
  <2> QED BY <2>1, <2>2, <2>3, <2>4, <2>5, <2>6 DEF IInv
<1>7. CASE SemaphoreFull(c)
  <2>1. TypeOK' BY <1>7 DEF IInv, TypeOK, SemaphoreFull, cleanup, objects,
        registry
  <2>2. LockInv' BY <1>7 DEF IInv, LockInv, SemaphoreFull, cleanup
  <2>3. CallerInv' BY <1>7 DEF IInv, CallerInv, TypeOK, SemaphoreFull
  <2>4. AddsOnlyMissing' BY <1>7 DEF IInv, AddsOnlyMissing, SemaphoreFull,
        registry
  <2>5. SemaphoreCounts' BY <1>7, AdmittedSame DEF IInv, TypeOK,
        SemaphoreCounts, SemaphoreFull
  <2>6. CleanupInv' /\ HashInv' /\ ClosedInv' /\ RegisteredIsLive'
        /\ RegisteredIsMonitored' /\ RegisteredIsTracked' /\ ClosedIsQuiet'
      BY <1>7 DEF IInv, CleanupInv, HashInv, ClosedInv, RegisteredIsLive,
            RegisteredIsMonitored, RegisteredIsTracked, ClosedIsQuiet,
            SemaphoreFull, cleanup, objects, registry
  <2> QED BY <2>1, <2>2, <2>3, <2>4, <2>5, <2>6 DEF IInv
<1>8. CASE Finish(c)
  <2>1. TypeOK' BY <1>8 DEF IInv, TypeOK, Finish, cleanup, objects, registry
  <2>2. LockInv' BY <1>8 DEF IInv, LockInv, Finish, cleanup
  <2>3. CallerInv' BY <1>8 DEF IInv, CallerInv, TypeOK, Finish
  <2>4. AddsOnlyMissing' BY <1>8 DEF IInv, AddsOnlyMissing, Finish, registry
  <2>5. SemaphoreCounts' BY <1>8, AdmittedSame DEF IInv, TypeOK,
        SemaphoreCounts, Finish
  <2>6. CleanupInv' /\ HashInv' /\ ClosedInv' /\ RegisteredIsLive'
        /\ RegisteredIsMonitored' /\ RegisteredIsTracked' /\ ClosedIsQuiet'
      BY <1>8 DEF IInv, CleanupInv, HashInv, ClosedInv, RegisteredIsLive,
            RegisteredIsMonitored, RegisteredIsTracked, ClosedIsQuiet, Finish,
            cleanup, objects, registry
  <2> QED BY <2>1, <2>2, <2>3, <2>4, <2>5, <2>6 DEF IInv
<1>9. CASE MapFault(c)
  <2>1. TypeOK' BY <1>9 DEF IInv, TypeOK, MapFault, callerVars, cleanup,
        objects, registry
  <2>2. LockInv' /\ CallerInv' /\ CleanupInv' /\ HashInv' /\ ClosedInv'
        /\ RegisteredIsLive' /\ AddsOnlyMissing' /\ RegisteredIsMonitored'
        /\ RegisteredIsTracked' /\ SemaphoreCounts' /\ ClosedIsQuiet'
      BY <1>9 DEF IInv, LockInv, CallerInv, CleanupInv, HashInv, ClosedInv,
            RegisteredIsLive, AddsOnlyMissing, RegisteredIsMonitored,
            RegisteredIsTracked, SemaphoreCounts, ClosedIsQuiet, MapFault,
            callerVars, cleanup, objects, registry, AdmittedCallers
  <2> QED BY <2>1, <2>2 DEF IInv
<1> QED BY <1>1, <1>2, <1>3, <1>4, <1>5, <1>6, <1>7, <1>8, <1>9

\* The inductive invariant is preserved by the steps of a caller from the second lookup to the unlock.
LEMMA InsidePreserves ==
    ASSUME IInv, NEW c \in Callers,
           \/ RecheckHit(c) \/ RecheckMiss(c) \/ AddMagnet(c) \/ AddFails(c)
           \/ AwaitExpires(c) \/ Insert(c)
    PROVE  IInv'
<1>1. CASE RecheckHit(c)
  <2>1. TypeOK' BY <1>1, ConfigAssumption DEF IInv, TypeOK, CallerInv,
        RecheckHit, cleanup
  <2>2. LockInv' BY <1>1 DEF IInv, LockInv, RecheckHit, cleanup
  <2>3. CallerInv' BY <1>1 DEF IInv, CallerInv, TypeOK, RecheckHit
  <2>4. AddsOnlyMissing' BY <1>1 DEF IInv, AddsOnlyMissing, RecheckHit
  <2>5. RegisteredIsTracked' BY <1>1 DEF IInv, RegisteredIsTracked, RecheckHit
  <2>6. SemaphoreCounts' BY <1>1, AdmittedSame DEF IInv, TypeOK,
        SemaphoreCounts, RecheckHit
  <2>7. CleanupInv' /\ HashInv' /\ ClosedInv' /\ RegisteredIsLive'
        /\ RegisteredIsMonitored' /\ ClosedIsQuiet'
      BY <1>1 DEF IInv, CleanupInv, HashInv, ClosedInv, RegisteredIsLive,
            RegisteredIsMonitored, ClosedIsQuiet, RecheckHit, cleanup
  <2> QED BY <2>1, <2>2, <2>3, <2>4, <2>5, <2>6, <2>7 DEF IInv
<1>2. CASE RecheckMiss(c)
  <2>1. TypeOK' BY <1>2, ConfigAssumption DEF IInv, TypeOK, RecheckMiss,
        cleanup, objects, registry
  <2>2. LockInv' BY <1>2, CallersAssumption DEF IInv, LockInv, TypeOK,
        RecheckMiss, cleanup
  <2>3. CallerInv' BY <1>2, ConfigAssumption DEF IInv, CallerInv, TypeOK,
        RecheckMiss
  <2>4. AddsOnlyMissing' BY <1>2 DEF IInv, AddsOnlyMissing, RecheckMiss,
        registry
  <2>5. SemaphoreCounts' BY <1>2, AdmittedSame DEF IInv, TypeOK,
        SemaphoreCounts, RecheckMiss
  <2>6. CleanupInv' /\ HashInv' /\ ClosedInv' /\ RegisteredIsLive'
        /\ RegisteredIsMonitored' /\ RegisteredIsTracked' /\ ClosedIsQuiet'
      BY <1>2 DEF IInv, CleanupInv, HashInv, ClosedInv, RegisteredIsLive,
            RegisteredIsMonitored, RegisteredIsTracked, ClosedIsQuiet,
            RecheckMiss, cleanup, objects, registry
  <2> QED BY <2>1, <2>2, <2>3, <2>4, <2>5, <2>6 DEF IInv
<1>3. CASE AddMagnet(c)
  <2>1. TypeOK'
    <3>1. CASE client[target[c]] # NoTorrent
      BY <1>3, <3>1, ConfigAssumption DEF IInv, TypeOK, CallerInv, AddMagnet,
            objects, registry, cleanup
    <3>2. CASE client[target[c]] = NoTorrent
      <4> PICK t \in Free :
             /\ got' = [got EXCEPT ![c] = t]
             /\ client' = [client EXCEPT ![target[c]] = t]
             /\ hashOf' = [hashOf EXCEPT ![t] = target[c]]
             /\ info' = [info EXCEPT ![t] = FALSE]
             /\ complete' = [complete EXCEPT ![t] = FALSE]
             /\ touched' = [touched EXCEPT ![t] = 0]
        BY <1>3, <3>2 DEF AddMagnet
      <4>1. got' \in [Callers -> Torrents \cup {NoTorrent}]
        BY DEF IInv, TypeOK, Free
      <4>2. client' \in [Hashes -> Torrents \cup {NoTorrent}]
        BY <1>3 DEF IInv, TypeOK, CallerInv, AddMagnet, Free
      <4>3. hashOf' \in [Torrents -> Hashes \cup {NoHash}]
        BY <1>3 DEF IInv, TypeOK, CallerInv, AddMagnet, Free
      <4>4. info' \in [Torrents -> BOOLEAN] /\ complete' \in [Torrents -> BOOLEAN]
        BY DEF IInv, TypeOK, Free
      <4>5. touched' \in [Torrents -> Ages]
        BY ConfigAssumption DEF IInv, TypeOK, Free
      <4>6. tries' \in [Callers -> 0 .. MaxRetries - 1]
        BY <1>3, ConfigAssumption DEF IInv, TypeOK, AddMagnet
      <4> QED BY <1>3, <4>1, <4>2, <4>3, <4>4, <4>5, <4>6
            DEF IInv, TypeOK, AddMagnet, registry, cleanup
    <3> QED BY <3>1, <3>2
  <2>2. LockInv' BY <1>3 DEF IInv, LockInv, AddMagnet, Free, Referenced,
        cleanup
  <2>3. CallerInv' BY <1>3, NullsAssumption DEF IInv, CallerInv, TypeOK,
        AddMagnet, Free, Referenced
  <2>4. HashInv' BY <1>3 DEF IInv, HashInv, TypeOK, AddMagnet, Free,
        Referenced, objects, registry
  <2>5. ClosedInv' BY <1>3 DEF IInv, ClosedInv, TypeOK, AddMagnet, Free,
        Referenced, objects
  <2>6. RegisteredIsLive' BY <1>3 DEF IInv, RegisteredIsLive, TypeOK,
        AddMagnet, Free, Referenced, registry
  <2>7. AddsOnlyMissing' BY <1>3 DEF IInv, AddsOnlyMissing, AddMagnet, Free,
        Referenced, registry
  <2>8. SemaphoreCounts' BY <1>3, AdmittedSame DEF IInv, TypeOK,
        SemaphoreCounts, AddMagnet, Free, Referenced
  <2>9. ClosedIsQuiet' BY <1>3 DEF IInv, ClosedIsQuiet, TypeOK, AddMagnet,
        Free, Referenced, registry
  <2>10. CleanupInv' /\ RegisteredIsMonitored' /\ RegisteredIsTracked'
      BY <1>3 DEF IInv, CleanupInv, RegisteredIsMonitored,
            RegisteredIsTracked, AddMagnet, cleanup, registry
  <2> QED BY <2>1, <2>2, <2>3, <2>4, <2>5, <2>6, <2>7, <2>8, <2>9, <2>10 DEF IInv
<1>4. CASE AddFails(c)
  <2>1. TypeOK' BY <1>4, ConfigAssumption DEF IInv, TypeOK, CallerInv,
        AddFails, cleanup, objects, registry
  <2>2. LockInv' BY <1>4, CallersAssumption DEF IInv, LockInv, TypeOK,
        AddFails, cleanup
  <2>3. CallerInv' BY <1>4 DEF IInv, CallerInv, TypeOK, AddFails
  <2>4. AddsOnlyMissing' BY <1>4 DEF IInv, AddsOnlyMissing, TypeOK, AddFails,
        registry
  <2>5. SemaphoreCounts' BY <1>4, AdmittedSame DEF IInv, TypeOK,
        SemaphoreCounts, AddFails
  <2>6. CleanupInv' /\ HashInv' /\ ClosedInv' /\ RegisteredIsLive'
        /\ RegisteredIsMonitored' /\ RegisteredIsTracked' /\ ClosedIsQuiet'
      BY <1>4 DEF IInv, CleanupInv, HashInv, ClosedInv, RegisteredIsLive,
            RegisteredIsMonitored, RegisteredIsTracked, ClosedIsQuiet,
            AddFails, cleanup, objects, registry
  <2> QED BY <2>1, <2>2, <2>3, <2>4, <2>5, <2>6 DEF IInv
<1>5. CASE AwaitExpires(c)
  <2>1. TypeOK' BY <1>5 DEF IInv, TypeOK, AwaitExpires, cleanup, objects,
        registry
  <2>2. LockInv' BY <1>5, CallersAssumption DEF IInv, LockInv, TypeOK,
        AwaitExpires, cleanup
  <2>3. CallerInv' BY <1>5 DEF IInv, CallerInv, TypeOK, AwaitExpires
  <2>4. AddsOnlyMissing' BY <1>5 DEF IInv, AddsOnlyMissing, AwaitExpires,
        registry
  <2>5. SemaphoreCounts' BY <1>5, AdmittedSame DEF IInv, TypeOK,
        SemaphoreCounts, AwaitExpires
  <2>6. CleanupInv' /\ HashInv' /\ ClosedInv' /\ RegisteredIsLive'
        /\ RegisteredIsMonitored' /\ RegisteredIsTracked' /\ ClosedIsQuiet'
      BY <1>5 DEF IInv, CleanupInv, HashInv, ClosedInv, RegisteredIsLive,
            RegisteredIsMonitored, RegisteredIsTracked, ClosedIsQuiet,
            AwaitExpires, cleanup, objects, registry
  <2> QED BY <2>1, <2>2, <2>3, <2>4, <2>5, <2>6 DEF IInv
<1>6. CASE Insert(c)
  <2>1. TypeOK' BY <1>6, ConfigAssumption DEF IInv, TypeOK, CallerInv, Insert,
        cleanup
  <2>2. LockInv' BY <1>6, CallersAssumption DEF IInv, LockInv, TypeOK, Insert,
        cleanup
  <2>3. CallerInv' BY <1>6 DEF IInv, CallerInv, Insert
  <2>4. CleanupInv' BY <1>6, CallersAssumption DEF IInv, CleanupInv, TypeOK,
        LockInv, Insert, cleanup
  <2>5. HashInv' BY <1>6 DEF IInv, HashInv, TypeOK, CallerInv, Insert
  <2>6. RegisteredIsLive' BY <1>6 DEF IInv, RegisteredIsLive, TypeOK,
        CallerInv, Insert
  <2>7. AddsOnlyMissing' BY <1>6 DEF IInv, AddsOnlyMissing, TypeOK, LockInv,
        Insert, cleanup
  <2>8. RegisteredIsMonitored' BY <1>6 DEF IInv, RegisteredIsMonitored,
        TypeOK, Insert
  <2>9. RegisteredIsTracked' BY <1>6 DEF IInv, RegisteredIsTracked, TypeOK,
        Insert
  <2>10. SemaphoreCounts' BY <1>6, AdmittedSame DEF IInv, TypeOK,
        SemaphoreCounts, Insert
  <2>11. ClosedIsQuiet' BY <1>6 DEF IInv, ClosedIsQuiet, TypeOK, CallerInv,
        ClosedInv, Insert
  <2>12. ClosedInv'
      BY <1>6 DEF IInv, ClosedInv, Insert
  <2> QED BY <2>1, <2>2, <2>3, <2>4, <2>5, <2>6, <2>7, <2>8, <2>9, <2>10, <2>11, <2>12 DEF IInv
<1> QED BY <1>1, <1>2, <1>3, <1>4, <1>5, <1>6

\* The inductive invariant is preserved by the steps that change the semaphore.
LEMMA SemaphorePreserves ==
    ASSUME IInv, NEW c \in Callers,
           \/ TrySemaphore(c) \/ ReleaseSemaphore(c)
    PROVE  IInv'
<1>1. CASE TrySemaphore(c)
  <2>1. TypeOK' BY <1>1, ConfigAssumption DEF IInv, TypeOK, TrySemaphore,
        cleanup, objects, registry
  <2>2. LockInv' BY <1>1 DEF IInv, LockInv, TrySemaphore, cleanup
  <2>3. CallerInv' BY <1>1 DEF IInv, CallerInv, TrySemaphore
  <2>4. AddsOnlyMissing' BY <1>1 DEF IInv, AddsOnlyMissing, TrySemaphore,
        registry
  <2>5. SemaphoreCounts' BY <1>1, AdmittedJoins DEF IInv, TypeOK,
        SemaphoreCounts, TrySemaphore
  <2>6. CleanupInv' /\ HashInv' /\ ClosedInv' /\ RegisteredIsLive'
        /\ RegisteredIsMonitored' /\ RegisteredIsTracked' /\ ClosedIsQuiet'
      BY <1>1 DEF IInv, CleanupInv, HashInv, ClosedInv, RegisteredIsLive,
            RegisteredIsMonitored, RegisteredIsTracked, ClosedIsQuiet,
            TrySemaphore, cleanup, objects, registry
  <2> QED BY <2>1, <2>2, <2>3, <2>4, <2>5, <2>6 DEF IInv
<1>2. CASE ReleaseSemaphore(c)
  <2>1. TypeOK' BY <1>2, NullsAssumption, CallersAssumption, ConfigAssumption,
        AdmittedLeaves DEF IInv, TypeOK, SemaphoreCounts, ReleaseSemaphore,
        cleanup, objects, registry
  <2>2. LockInv' BY <1>2 DEF IInv, LockInv, TypeOK, ReleaseSemaphore, cleanup
  <2>3. CallerInv' BY <1>2 DEF IInv, CallerInv, TypeOK, ReleaseSemaphore
  <2>4. AddsOnlyMissing' BY <1>2 DEF IInv, AddsOnlyMissing, TypeOK,
        ReleaseSemaphore, registry
  <2>5. SemaphoreCounts' BY <1>2, AdmittedLeaves DEF IInv, TypeOK,
        SemaphoreCounts, ReleaseSemaphore
  <2>6. CleanupInv' /\ HashInv' /\ ClosedInv' /\ RegisteredIsLive'
        /\ RegisteredIsMonitored' /\ RegisteredIsTracked' /\ ClosedIsQuiet'
      BY <1>2 DEF IInv, CleanupInv, HashInv, ClosedInv, RegisteredIsLive,
            RegisteredIsMonitored, RegisteredIsTracked, ClosedIsQuiet,
            ReleaseSemaphore, cleanup, objects, registry
  <2> QED BY <2>1, <2>2, <2>3, <2>4, <2>5, <2>6 DEF IInv
<1> QED BY <1>1, <1>2

\* The inductive invariant is preserved by the client, the monitors and the removal of files.
LEMMA TorrentPreserves ==
    ASSUME IInv, NEW t \in Torrents,
           \/ InfoArrives(t) \/ Download(t) \/ MonitorTick(t)
           \/ MonitorExpires(t) \/ MonitorRemove(t) \/ MonitorStops(t)
           \/ DeleteFiles(t)
    PROVE  IInv'
<1>1. CASE InfoArrives(t)
  <2>1. TypeOK' BY <1>1 DEF IInv, TypeOK, InfoArrives, Live, callerVars,
        cleanup, registry
  <2>2. ClosedInv' BY <1>1 DEF IInv, ClosedInv, InfoArrives, Live
  <2>3. LockInv' /\ CallerInv' /\ CleanupInv' /\ HashInv' /\ RegisteredIsLive'
        /\ AddsOnlyMissing' /\ RegisteredIsMonitored' /\ RegisteredIsTracked'
        /\ SemaphoreCounts' /\ ClosedIsQuiet'
      BY <1>1 DEF IInv, LockInv, CallerInv, CleanupInv, HashInv,
            RegisteredIsLive, AddsOnlyMissing, RegisteredIsMonitored,
            RegisteredIsTracked, SemaphoreCounts, ClosedIsQuiet, InfoArrives,
            callerVars, cleanup, registry, AdmittedCallers
  <2> QED BY <2>1, <2>2, <2>3 DEF IInv
<1>2. CASE Download(t)
  <2>1. TypeOK' BY <1>2 DEF IInv, TypeOK, HashInv, Download, Live, callerVars,
        cleanup, registry
  <2>2. ClosedIsQuiet' BY <1>2, NullsAssumption DEF IInv, ClosedIsQuiet,
        TypeOK, CallerInv, ClosedInv, Download, Live, callerVars, registry
  <2>3. LockInv' /\ CallerInv' /\ CleanupInv' /\ HashInv' /\ ClosedInv'
        /\ RegisteredIsLive' /\ AddsOnlyMissing' /\ RegisteredIsMonitored'
        /\ RegisteredIsTracked' /\ SemaphoreCounts'
      BY <1>2 DEF IInv, LockInv, CallerInv, CleanupInv, HashInv, ClosedInv,
            RegisteredIsLive, AddsOnlyMissing, RegisteredIsMonitored,
            RegisteredIsTracked, SemaphoreCounts, Download, callerVars,
            cleanup, registry, AdmittedCallers
  <2> QED BY <2>1, <2>2, <2>3 DEF IInv
<1>3. CASE MonitorTick(t)
  <2>1. TypeOK' BY <1>3, ConfigAssumption DEF IInv, TypeOK, MonitorTick,
        callerVars, cleanup, registry
  <2>2. HashInv' BY <1>3 DEF IInv, HashInv, MonitorTick, objects, registry
  <2>3. RegisteredIsMonitored' BY <1>3 DEF IInv, RegisteredIsMonitored,
        TypeOK, HashInv, MonitorTick, objects, registry
  <2>4. LockInv' /\ CallerInv' /\ CleanupInv' /\ ClosedInv'
        /\ RegisteredIsLive' /\ AddsOnlyMissing' /\ RegisteredIsTracked'
        /\ SemaphoreCounts' /\ ClosedIsQuiet'
      BY <1>3 DEF IInv, LockInv, CallerInv, CleanupInv, ClosedInv,
            RegisteredIsLive, AddsOnlyMissing, RegisteredIsTracked,
            SemaphoreCounts, ClosedIsQuiet, MonitorTick, callerVars, cleanup,
            objects, registry, AdmittedCallers
  <2> QED BY <2>1, <2>2, <2>3, <2>4 DEF IInv
<1>4. CASE MonitorExpires(t)
  <2>1. TypeOK' BY <1>4, ConfigAssumption DEF IInv, TypeOK, MonitorExpires,
        callerVars, cleanup, registry
  <2>2. HashInv' BY <1>4 DEF IInv, HashInv, MonitorExpires, objects, registry
  <2>3. RegisteredIsMonitored' BY <1>4 DEF IInv, RegisteredIsMonitored,
        MonitorExpires, registry
  <2>4. LockInv' /\ CallerInv' /\ CleanupInv' /\ ClosedInv'
        /\ RegisteredIsLive' /\ AddsOnlyMissing' /\ RegisteredIsTracked'
        /\ SemaphoreCounts' /\ ClosedIsQuiet'
      BY <1>4 DEF IInv, LockInv, CallerInv, CleanupInv, ClosedInv,
            RegisteredIsLive, AddsOnlyMissing, RegisteredIsTracked,
            SemaphoreCounts, ClosedIsQuiet, MonitorExpires, callerVars,
            cleanup, objects, registry, AdmittedCallers
  <2> QED BY <2>1, <2>2, <2>3, <2>4 DEF IInv
<1>5. CASE MonitorRemove(t)
  <2>1. TypeOK' BY <1>5 DEF IInv, TypeOK, MonitorRemove, Remove, callerVars,
        cleanup, objects, registry
  <2>2. CallerInv' BY <1>5, CallersAssumption DEF IInv, CallerInv, TypeOK,
        LockInv, MonitorRemove, Remove, callerVars, cleanup
  <2>3. CleanupInv' BY <1>5 DEF IInv, CleanupInv, TypeOK, LockInv,
        MonitorRemove, Remove, callerVars, cleanup, registry
  <2>4. HashInv' BY <1>5, NullsAssumption DEF IInv, HashInv, TypeOK,
        MonitorRemove, Remove, objects, registry
  <2>5. ClosedInv' BY <1>5 DEF IInv, ClosedInv, TypeOK, MonitorRemove, Remove,
        objects
  <2>6. RegisteredIsLive' BY <1>5 DEF IInv, RegisteredIsLive, TypeOK,
        MonitorRemove, Remove, registry
  <2>7. AddsOnlyMissing' BY <1>5, CallersAssumption DEF IInv, AddsOnlyMissing,
        TypeOK, LockInv, MonitorRemove, Remove, callerVars, cleanup, registry
  <2>8. RegisteredIsMonitored' BY <1>5 DEF IInv, RegisteredIsMonitored,
        TypeOK, HashInv, MonitorRemove, Remove, objects, registry
  <2>9. RegisteredIsTracked' BY <1>5 DEF IInv, RegisteredIsTracked, TypeOK,
        MonitorRemove, Remove, registry
  <2>10. ClosedIsQuiet' BY <1>5 DEF IInv, ClosedIsQuiet, TypeOK,
        MonitorRemove, Remove, registry
  <2>11. LockInv' /\ SemaphoreCounts'
      BY <1>5 DEF IInv, LockInv, SemaphoreCounts, MonitorRemove, callerVars,
            cleanup, AdmittedCallers
  <2> QED BY <2>1, <2>2, <2>3, <2>4, <2>5, <2>6, <2>7, <2>8, <2>9, <2>10, <2>11 DEF IInv
<1>6. CASE MonitorStops(t)
  <2>1. TypeOK' BY <1>6, ConfigAssumption DEF IInv, TypeOK, MonitorStops,
        callerVars, cleanup, registry
  <2>2. HashInv' BY <1>6 DEF IInv, HashInv, MonitorStops, Live, objects,
        registry
  <2>3. RegisteredIsMonitored' BY <1>6 DEF IInv, RegisteredIsMonitored,
        TypeOK, HashInv, RegisteredIsLive, MonitorStops, Live, objects,
        registry
  <2>4. LockInv' /\ CallerInv' /\ CleanupInv' /\ ClosedInv'
        /\ RegisteredIsLive' /\ AddsOnlyMissing' /\ RegisteredIsTracked'
        /\ SemaphoreCounts' /\ ClosedIsQuiet'
      BY <1>6 DEF IInv, LockInv, CallerInv, CleanupInv, ClosedInv,
            RegisteredIsLive, AddsOnlyMissing, RegisteredIsTracked,
            SemaphoreCounts, ClosedIsQuiet, MonitorStops, callerVars, cleanup,
            objects, registry, AdmittedCallers
  <2> QED BY <2>1, <2>2, <2>3, <2>4 DEF IInv
<1>7. CASE DeleteFiles(t)
  <2>1. TypeOK' BY <1>7 DEF IInv, TypeOK, DeleteFiles, callerVars, cleanup,
        objects, registry
  <2>2. ClosedIsQuiet' BY <1>7 DEF IInv, ClosedIsQuiet, DeleteFiles, registry
  <2>3. LockInv' /\ CallerInv' /\ CleanupInv' /\ HashInv' /\ ClosedInv'
        /\ RegisteredIsLive' /\ AddsOnlyMissing' /\ RegisteredIsMonitored'
        /\ RegisteredIsTracked' /\ SemaphoreCounts'
      BY <1>7 DEF IInv, LockInv, CallerInv, CleanupInv, HashInv, ClosedInv,
            RegisteredIsLive, AddsOnlyMissing, RegisteredIsMonitored,
            RegisteredIsTracked, SemaphoreCounts, DeleteFiles, callerVars,
            cleanup, objects, registry, AdmittedCallers
  <2> QED BY <2>1, <2>2, <2>3 DEF IInv
<1> QED BY <1>1, <1>2, <1>3, <1>4, <1>5, <1>6, <1>7

\* The inductive invariant is preserved by the cleanup goroutine.
LEMMA CleanupPreserves ==
    ASSUME IInv,
           \/ CleanupTick \/ \E h \in Hashes : CleanupVisit(h)
           \/ CleanupEvict \/ CleanupDone \/ CleanupStops
    PROVE  IInv'
<1>1. CASE CleanupTick
  <2>1. TypeOK' BY <1>1 DEF IInv, TypeOK, CleanupTick, callerVars, objects,
        registry
  <2>2. LockInv' BY <1>1, CallersAssumption DEF IInv, LockInv, CleanupTick,
        callerVars
  <2>3. CleanupInv' BY <1>1 DEF IInv, CleanupInv, CleanupTick, registry
  <2>4. CallerInv' /\ HashInv' /\ ClosedInv' /\ RegisteredIsLive'
        /\ AddsOnlyMissing' /\ RegisteredIsMonitored' /\ RegisteredIsTracked'
        /\ SemaphoreCounts' /\ ClosedIsQuiet'
      BY <1>1 DEF IInv, CallerInv, HashInv, ClosedInv, RegisteredIsLive,
            AddsOnlyMissing, RegisteredIsMonitored, RegisteredIsTracked,
            SemaphoreCounts, ClosedIsQuiet, CleanupTick, callerVars, objects,
            registry, AdmittedCallers
  <2> QED BY <2>1, <2>2, <2>3, <2>4 DEF IInv
<1>2. CASE \E h \in Hashes : CleanupVisit(h)
  <2>1. TypeOK' BY <1>2 DEF IInv, TypeOK, CleanupVisit, IsIdle, callerVars,
        objects, registry
  <2>2. LockInv' BY <1>2 DEF IInv, LockInv, CleanupVisit, IsIdle, callerVars
  <2>3. CleanupInv' BY <1>2 DEF IInv, CleanupInv, CleanupVisit, IsIdle,
        registry
  <2>4. CallerInv' /\ HashInv' /\ ClosedInv' /\ RegisteredIsLive'
        /\ AddsOnlyMissing' /\ RegisteredIsMonitored' /\ RegisteredIsTracked'
        /\ SemaphoreCounts' /\ ClosedIsQuiet'
      BY <1>2 DEF IInv, CallerInv, HashInv, ClosedInv, RegisteredIsLive,
            AddsOnlyMissing, RegisteredIsMonitored, RegisteredIsTracked,
            SemaphoreCounts, ClosedIsQuiet, CleanupVisit, callerVars, objects,
            registry, AdmittedCallers
  <2> QED BY <2>1, <2>2, <2>3, <2>4 DEF IInv
<1>3. CASE CleanupEvict
  <2>1. TypeOK' BY <1>3 DEF IInv, TypeOK, CleanupEvict, Remove, callerVars,
        objects
  <2>2. LockInv' BY <1>3 DEF IInv, LockInv, CleanupEvict, Remove, callerVars
  <2>3. CallerInv' BY <1>3, CallersAssumption DEF IInv, CallerInv, TypeOK,
        LockInv, CleanupEvict, Remove, callerVars
  <2>4. CleanupInv' BY <1>3 DEF IInv, CleanupInv, CleanupEvict, Remove
  <2>5. HashInv' BY <1>3, NullsAssumption DEF IInv, HashInv, CleanupEvict,
        Remove, objects
  <2>6. ClosedInv' BY <1>3 DEF IInv, ClosedInv, CleanupEvict, Remove, objects
  <2>7. RegisteredIsLive' BY <1>3 DEF IInv, RegisteredIsLive, TypeOK,
        CleanupEvict, Remove
  <2>8. AddsOnlyMissing' BY <1>3 DEF IInv, AddsOnlyMissing, CleanupEvict,
        Remove, callerVars
  <2>9. RegisteredIsMonitored' BY <1>3 DEF IInv, RegisteredIsMonitored,
        CleanupEvict, Remove
  <2>10. RegisteredIsTracked' BY <1>3 DEF IInv, RegisteredIsTracked, TypeOK,
        CleanupEvict, Remove
  <2>11. ClosedIsQuiet' BY <1>3 DEF IInv, ClosedIsQuiet, CleanupEvict, Remove
  <2>12. SemaphoreCounts'
      BY <1>3 DEF IInv, SemaphoreCounts, CleanupEvict, callerVars,
            AdmittedCallers
  <2> QED BY <2>1, <2>2, <2>3, <2>4, <2>5, <2>6, <2>7, <2>8, <2>9, <2>10, <2>11, <2>12 DEF IInv
<1>4. CASE CleanupDone
  <2>1. TypeOK' BY <1>4 DEF IInv, TypeOK, CleanupDone, callerVars, objects,
        registry
  <2>2. LockInv' BY <1>4, CallersAssumption DEF IInv, LockInv, CleanupDone,
        callerVars
  <2>3. CleanupInv' BY <1>4 DEF IInv, CleanupInv, CleanupDone, registry
  <2>4. CallerInv' /\ HashInv' /\ ClosedInv' /\ RegisteredIsLive'
        /\ AddsOnlyMissing' /\ RegisteredIsMonitored' /\ RegisteredIsTracked'
        /\ SemaphoreCounts' /\ ClosedIsQuiet'
      BY <1>4 DEF IInv, CallerInv, HashInv, ClosedInv, RegisteredIsLive,
            AddsOnlyMissing, RegisteredIsMonitored, RegisteredIsTracked,
            SemaphoreCounts, ClosedIsQuiet, CleanupDone, callerVars, objects,
            registry, AdmittedCallers
  <2> QED BY <2>1, <2>2, <2>3, <2>4 DEF IInv
<1>5. CASE CleanupStops
  <2>1. TypeOK' BY <1>5 DEF IInv, TypeOK, CleanupStops, callerVars, objects,
        registry
  <2>2. LockInv' BY <1>5 DEF IInv, LockInv, CleanupStops, callerVars
  <2>3. CleanupInv' BY <1>5 DEF IInv, CleanupInv, CleanupStops, registry
  <2>4. CallerInv' /\ HashInv' /\ ClosedInv' /\ RegisteredIsLive'
        /\ AddsOnlyMissing' /\ RegisteredIsMonitored' /\ RegisteredIsTracked'
        /\ SemaphoreCounts' /\ ClosedIsQuiet'
      BY <1>5 DEF IInv, CallerInv, HashInv, ClosedInv, RegisteredIsLive,
            AddsOnlyMissing, RegisteredIsMonitored, RegisteredIsTracked,
            SemaphoreCounts, ClosedIsQuiet, CleanupStops, callerVars, objects,
            registry, AdmittedCallers
  <2> QED BY <2>1, <2>2, <2>3, <2>4 DEF IInv
<1> QED BY <1>1, <1>2, <1>3, <1>4, <1>5

\* The inductive invariant is preserved by the clock and the end of the manager.
LEMMA ClosePreserves ==
    ASSUME IInv,
           \/ Tick \/ Cancel \/ Close
    PROVE  IInv'
<1>1. CASE Tick
  <2>1. TypeOK' BY <1>1, ConfigAssumption DEF IInv, TypeOK, Tick, Older,
        callerVars, cleanup
  <2>2. RegisteredIsTracked' BY <1>1 DEF IInv, RegisteredIsTracked, Tick,
        Older
  <2>3. LockInv' /\ CallerInv' /\ CleanupInv' /\ HashInv' /\ ClosedInv'
        /\ RegisteredIsLive' /\ AddsOnlyMissing' /\ RegisteredIsMonitored'
        /\ SemaphoreCounts' /\ ClosedIsQuiet'
      BY <1>1 DEF IInv, LockInv, CallerInv, CleanupInv, HashInv, ClosedInv,
            RegisteredIsLive, AddsOnlyMissing, RegisteredIsMonitored,
            SemaphoreCounts, ClosedIsQuiet, Tick, callerVars, cleanup,
            AdmittedCallers
  <2> QED BY <2>1, <2>2, <2>3 DEF IInv
<1>2. CASE Cancel
  <2>1. TypeOK' BY <1>2 DEF IInv, TypeOK, Cancel, callerVars, cleanup,
        objects, registry
  <2>2. ClosedInv' BY <1>2 DEF IInv, ClosedInv, Cancel, objects
  <2>3. RegisteredIsLive' BY <1>2 DEF IInv, RegisteredIsLive, Cancel, registry
  <2>4. RegisteredIsMonitored' BY <1>2 DEF IInv, RegisteredIsMonitored,
        Cancel, registry
  <2>5. ClosedIsQuiet' BY <1>2 DEF IInv, ClosedIsQuiet, Cancel, registry
  <2>6. LockInv' /\ CallerInv' /\ CleanupInv' /\ HashInv' /\ AddsOnlyMissing'
        /\ RegisteredIsTracked' /\ SemaphoreCounts'
      BY <1>2 DEF IInv, LockInv, CallerInv, CleanupInv, HashInv,
            AddsOnlyMissing, RegisteredIsTracked, SemaphoreCounts, Cancel,
            callerVars, cleanup, objects, registry, AdmittedCallers
  <2> QED BY <2>1, <2>2, <2>3, <2>4, <2>5, <2>6 DEF IInv
<1>3. CASE Close
  <2>1. TypeOK' BY <1>3 DEF IInv, TypeOK, Close, callerVars, cleanup, objects,
        registry
  <2>2. CallerInv' BY <1>3, CallersAssumption DEF IInv, CallerInv, TypeOK,
        LockInv, Close, callerVars, cleanup
  <2>3. HashInv' BY <1>3, NullsAssumption DEF IInv, HashInv, Close, objects,
        registry
  <2>4. ClosedInv' BY <1>3 DEF IInv, ClosedInv, Close, objects
  <2>5. RegisteredIsLive' BY <1>3 DEF IInv, RegisteredIsLive, Close, registry
  <2>6. RegisteredIsMonitored' BY <1>3 DEF IInv, RegisteredIsMonitored, Close,
        registry
  <2>7. ClosedIsQuiet' BY <1>3 DEF IInv, ClosedIsQuiet, Close, registry
  <2>8. LockInv' /\ CleanupInv' /\ AddsOnlyMissing' /\ RegisteredIsTracked'
        /\ SemaphoreCounts'
      BY <1>3 DEF IInv, LockInv, CleanupInv, AddsOnlyMissing,
            RegisteredIsTracked, SemaphoreCounts, Close, callerVars, cleanup,
            registry, AdmittedCallers
  <2> QED BY <2>1, <2>2, <2>3, <2>4, <2>5, <2>6, <2>7, <2>8 DEF IInv
<1> QED BY <1>1, <1>2, <1>3

------------------------------------------------------------------------------
(* The theorems *)

\* The invariant holds when NewManager returns.
LEMMA InitEstablishes == Init => IInv
<1> SUFFICES ASSUME Init PROVE IInv
  OBVIOUS
<1>1. TypeOK
  <2>1. 0 \in Ages /\ 0 \in 0 .. MaxConcurrentTorrents /\ 0 \in 0 .. MaxRetries - 1
    BY ConfigAssumption
  <2> QED BY <2>1 DEF Init, TypeOK
<1>2. SemaphoreCounts
  <2>1. AdmittedCallers = {}
    BY DEF Init, AdmittedCallers
  <2> QED BY <2>1, FS_EmptySet DEF Init, SemaphoreCounts
<1>3. LockInv /\ CallerInv /\ CleanupInv /\ ClosedInv
  BY CallersAssumption DEF Init, LockInv, CallerInv, CleanupInv, ClosedInv
<1>4. HashInv
  BY NullsAssumption DEF Init, HashInv
<1>5. /\ RegisteredIsLive /\ AddsOnlyMissing /\ RegisteredIsMonitored
      /\ RegisteredIsTracked /\ ClosedIsQuiet
  BY DEF Init, RegisteredIsLive, AddsOnlyMissing, RegisteredIsMonitored,
         RegisteredIsTracked, ClosedIsQuiet
<1> QED BY <1>1, <1>2, <1>3, <1>4, <1>5 DEF IInv

\* Stuttering changes nothing.
LEMMA StutterPreserves == IInv /\ UNCHANGED vars => IInv'
  BY DEF IInv, vars, registry, objects, cleanup, callerVars, TypeOK, LockInv,
         CallerInv, CleanupInv, HashInv, ClosedInv, RegisteredIsLive,
         AddsOnlyMissing, RegisteredIsMonitored, RegisteredIsTracked,
         SemaphoreCounts, AdmittedCallers, ClosedIsQuiet

\* Every step of the manager preserves the invariant.
LEMMA NextPreserves == IInv /\ [Next]_vars => IInv'
<1> SUFFICES ASSUME IInv, [Next]_vars PROVE IInv'
  OBVIOUS
<1>1. CASE UNCHANGED vars
  BY <1>1, StutterPreserves
<1>2. CASE \E c \in Callers : \/ Request(c) \/ CallerStep(c) \/ Finish(c)
                              \/ MapFault(c)
  <2> PICK c \in Callers :
        Request(c) \/ CallerStep(c) \/ Finish(c) \/ MapFault(c)
    BY <1>2
  <2>1. CASE \/ Request(c) \/ LimiterPass(c) \/ LimiterFail(c) \/ Lookup(c)
             \/ StoreAccess(c) \/ TouchWrapper(c) \/ SemaphoreFull(c)
             \/ Finish(c) \/ MapFault(c)
    BY <2>1, OutsidePreserves
  <2>2. CASE \/ RecheckHit(c) \/ RecheckMiss(c) \/ AddMagnet(c) \/ AddFails(c)
             \/ AwaitExpires(c) \/ Insert(c)
    BY <2>2, InsidePreserves
  <2>3. CASE TrySemaphore(c) \/ ReleaseSemaphore(c)
    BY <2>3, SemaphorePreserves
  <2> QED BY <1>2, <2>1, <2>2, <2>3 DEF CallerStep
<1>3. CASE \E t \in Torrents : \/ InfoArrives(t) \/ Download(t)
                               \/ MonitorStep(t) \/ DeleteFiles(t)
  BY <1>3, TorrentPreserves DEF MonitorStep
<1>4. CASE CleanupStep
  BY <1>4, CleanupPreserves DEF CleanupStep
<1>5. CASE Tick \/ Cancel \/ Close
  BY <1>5, ClosePreserves
<1>6. CASE Faulted
  BY <1>6, StutterPreserves DEF Faulted
<1> QED BY <1>1, <1>2, <1>3, <1>4, <1>5, <1>6 DEF Next

\* The inductive invariant is an invariant.
THEOREM Invariance == Spec => []IInv
  BY InitEstablishes, NextPreserves, PTL DEF Spec

------------------------------------------------------------------------------
(* What it implies *)

\* Every variable keeps its type: m.semaphore never exceeds its capacity, and
\* is never received from when it is empty.
THEOREM TypeCorrect == Spec => []TypeOK
  BY Invariance, PTL DEF IInv

\* A registered torrent is the client's live torrent of its hash, until Close.
THEOREM RegisteredLive == Spec => []RegisteredIsLive
  BY Invariance, PTL DEF IInv

\* Double-checked registration: nobody registers a torrent over another.
THEOREM AddsMissing == Spec => []AddsOnlyMissing
  BY Invariance, PTL DEF IInv

\* No registered torrent is left without its monitor while the manager runs.
THEOREM RegisteredMonitored == Spec => []RegisteredIsMonitored
  BY Invariance, PTL DEF IInv

\* No registered torrent is invisible to the cleanup.
THEOREM RegisteredTracked == Spec => []RegisteredIsTracked
  BY Invariance, PTL DEF IInv

\* No path out of GetTorrent loses or invents a token of the semaphore.
THEOREM SemaphoreCorrect == Spec => []SemaphoreCounts
  BY Invariance, PTL DEF IInv

\* Close is final, whatever callers and goroutines are still on their way.
THEOREM ClosedQuiet == Spec => []ClosedIsQuiet
  BY Invariance, PTL DEF IInv

------------------------------------------------------------------------------
(* The manager implements the registry *)

\* The steps of a call that decide nothing are invisible to the registry.
LEMMA CallStutters ==
    ASSUME IInv, NEW c \in Callers,
           \/ LimiterPass(c) \/ StoreAccess(c) \/ TouchWrapper(c)
           \/ TrySemaphore(c) \/ RecheckMiss(c) \/ AddMagnet(c) \/ AddFails(c)
           \/ AwaitExpires(c) \/ MapFault(c)
    PROVE  UNCHANGED Registry!vars
<1> DEFINE answer == [d \in Callers |-> IF pc[d] \in Serving \cup {"release"}
                                        THEN got[d] ELSE NoTorrent]
<1>1. UNCHANGED <<torrents, phase, target>>
  BY DEF LimiterPass, StoreAccess, TouchWrapper, TrySemaphore, RecheckMiss,
         AddMagnet, AddFails, AwaitExpires, MapFault, registry, callerVars
<1>2. \A d \in Callers : answer'[d] = answer[d]
  BY DEF IInv, TypeOK, CallerInv, LimiterPass, StoreAccess, TouchWrapper,
         TrySemaphore, RecheckMiss, AddMagnet, AddFails, AwaitExpires, MapFault,
         callerVars
<1>3. answer' = answer
  BY <1>2
<1> HIDE DEF answer
<1> QED BY <1>1, <1>3 DEF Registry!vars, answer

\* A call begins, finds the torrent of its hash, registers one, or returns: each
\* is one step of the registry.
LEMMA CallActs ==
    ASSUME IInv, NEW c \in Callers
    PROVE  /\ Request(c) => Registry!Call(c)
           /\ Lookup(c) => Registry!Find(c) \/ UNCHANGED Registry!vars
           /\ RecheckHit(c) => Registry!Find(c)
           /\ Insert(c) => Registry!Add(c)
           /\ LimiterFail(c) \/ SemaphoreFull(c) \/ Finish(c) => Registry!Return(c)
           /\ ReleaseSemaphore(c) => Registry!Return(c) \/ UNCHANGED Registry!vars
<1> DEFINE Answered == Serving \cup {"release"}
           answer == [d \in Callers |-> IF pc[d] \in Answered THEN got[d]
                                        ELSE NoTorrent]
\* Only the caller that steps may change its answer.
<1>1. ASSUME NEW loc \in Locations, NEW t \in Torrents \cup {NoTorrent},
             pc' = [pc EXCEPT ![c] = loc], got' = [got EXCEPT ![c] = t]
      PROVE  answer' = [answer EXCEPT ![c] = IF loc \in Answered THEN t
                                             ELSE NoTorrent]
  BY <1>1 DEF IInv, TypeOK
<1>2. ASSUME NEW loc \in Locations, pc' = [pc EXCEPT ![c] = loc], got' = got
      PROVE  answer' = [answer EXCEPT ![c] = IF loc \in Answered THEN got[c]
                                             ELSE NoTorrent]
  BY <1>2 DEF IInv, TypeOK
<1>3. /\ answer \in [Callers -> Torrents \cup {NoTorrent}]
      /\ answer[c] = IF pc[c] \in Answered THEN got[c] ELSE NoTorrent
  BY DEF IInv, TypeOK
<1>4. Request(c) => Registry!Call(c)
  <2> SUFFICES ASSUME Request(c) PROVE Registry!Call(c)
    OBVIOUS
  <2>1. answer' = [answer EXCEPT ![c] = NoTorrent]
    BY <1>2 DEF Request
  <2>2. answer' = answer
    BY <2>1, <1>3 DEF Request
  <2>3. target[c] = NoHash
    BY DEF IInv, CallerInv, Request
  <2> HIDE DEF answer
  <2> QED BY <2>2, <2>3 DEF Registry!Call, Request, registry, answer
<1>5. Lookup(c) => Registry!Find(c) \/ UNCHANGED Registry!vars
  <2> SUFFICES ASSUME Lookup(c)
               PROVE  Registry!Find(c) \/ UNCHANGED Registry!vars
    OBVIOUS
  <2>1. target[c] \in Hashes /\ target[c] # NoHash /\ answer[c] = NoTorrent
    BY <1>3, NullsAssumption DEF IInv, CallerInv, Lookup
  <2>2. torrents[target[c]] \in Torrents \cup {NoTorrent}
    BY <2>1 DEF IInv, TypeOK
  <2>3. CASE torrents[target[c]] # NoTorrent
    <3>1. answer' = [answer EXCEPT ![c] = torrents[target[c]]]
      BY <1>1, <2>2, <2>3 DEF Lookup
    <3> HIDE DEF answer
    <3> QED BY <2>1, <2>3, <3>1
          DEF Registry!Find, Registry!Pending, Lookup, registry, answer
  <2>4. CASE torrents[target[c]] = NoTorrent
    <3>1. answer' = [answer EXCEPT ![c] = NoTorrent]
      BY <1>1, <2>2, <2>4 DEF Lookup
    <3>2. answer' = answer
      BY <3>1, <2>1, <1>3
    <3> HIDE DEF answer
    <3> QED BY <3>2 DEF Registry!vars, Lookup, registry, answer
  <2> QED BY <2>3, <2>4
<1>6. RecheckHit(c) => Registry!Find(c)
  <2> SUFFICES ASSUME RecheckHit(c) PROVE Registry!Find(c)
    OBVIOUS
  <2>1. target[c] \in Hashes /\ target[c] # NoHash /\ answer[c] = NoTorrent
    BY <1>3, NullsAssumption DEF IInv, CallerInv, RecheckHit
  <2>2. torrents[target[c]] \in Torrents \cup {NoTorrent}
    BY <2>1 DEF IInv, TypeOK
  <2>3. answer' = [answer EXCEPT ![c] = torrents[target[c]]]
    BY <1>1, <2>2 DEF RecheckHit
  <2> HIDE DEF answer
  <2> QED BY <2>1, <2>3 DEF Registry!Find, Registry!Pending, RecheckHit, answer
<1>7. Insert(c) => Registry!Add(c)
  <2> SUFFICES ASSUME Insert(c) PROVE Registry!Add(c)
    OBVIOUS
  <2>1. /\ target[c] \in Hashes /\ target[c] # NoHash /\ answer[c] = NoTorrent
        /\ got[c] \in Torrents /\ client[target[c]] = got[c]
    BY <1>3, NullsAssumption DEF IInv, CallerInv, Insert
  <2>2. phase # "closed"
    BY <2>1, NullsAssumption DEF IInv, ClosedInv, Insert
  <2>3. torrents[target[c]] = NoTorrent
    BY DEF IInv, AddsOnlyMissing, Insert
  <2>4. \A h \in Hashes : torrents[h] # got[c]
    BY <2>1, <2>3, NullsAssumption DEF IInv, HashInv
  <2>5. answer' = [answer EXCEPT ![c] = got[c]]
    BY <1>2 DEF Insert
  <2>6. phase' # "closed" /\ torrents' = [torrents EXCEPT ![target[c]] = got[c]]
        /\ target' = target
    BY <2>2 DEF Insert
  <2> HIDE DEF answer
  <2> QED BY <2>1, <2>2, <2>3, <2>4, <2>5, <2>6
        DEF Registry!Add, Registry!Pending, answer
<1>8. LimiterFail(c) \/ SemaphoreFull(c) \/ Finish(c) => Registry!Return(c)
  <2> SUFFICES ASSUME LimiterFail(c) \/ SemaphoreFull(c) \/ Finish(c)
               PROVE  Registry!Return(c)
    OBVIOUS
  <2>1. target[c] # NoHash
    BY NullsAssumption DEF IInv, CallerInv, LimiterFail, SemaphoreFull, Finish
  <2>2. answer' = [answer EXCEPT ![c] = NoTorrent]
    <3>1. CASE LimiterFail(c)  BY <1>2, <3>1 DEF LimiterFail
    <3>2. CASE SemaphoreFull(c)  BY <1>2, <3>2 DEF SemaphoreFull
    <3>3. CASE Finish(c)  BY <1>1, <3>3 DEF Finish
    <3> QED BY <3>1, <3>2, <3>3
  <2>3. /\ target' = [target EXCEPT ![c] = NoHash]
        /\ UNCHANGED <<torrents, phase>>
    BY DEF LimiterFail, SemaphoreFull, Finish, registry
  <2> HIDE DEF answer
  <2> QED BY <2>1, <2>2, <2>3 DEF Registry!Return, answer
<1>9. ReleaseSemaphore(c) => Registry!Return(c) \/ UNCHANGED Registry!vars
  <2> SUFFICES ASSUME ReleaseSemaphore(c)
               PROVE  Registry!Return(c) \/ UNCHANGED Registry!vars
    OBVIOUS
  <2>1. target[c] # NoHash /\ UNCHANGED <<torrents, phase>>
    BY NullsAssumption DEF IInv, CallerInv, ReleaseSemaphore, registry
  <2>2. CASE got[c] = NoTorrent
    <3>1. answer' = [answer EXCEPT ![c] = NoTorrent]
      BY <1>2, <2>2 DEF ReleaseSemaphore
    <3> HIDE DEF answer
    <3> QED BY <2>1, <2>2, <3>1 DEF Registry!Return, ReleaseSemaphore, answer
  <2>3. CASE got[c] # NoTorrent
    <3>1. answer' = [answer EXCEPT ![c] = got[c]]
      BY <1>2, <2>3 DEF ReleaseSemaphore
    <3>2. answer' = answer
      BY <3>1, <1>3 DEF ReleaseSemaphore
    <3> HIDE DEF answer
    <3> QED BY <2>1, <2>3, <3>2 DEF Registry!vars, ReleaseSemaphore, answer
  <2> QED BY <2>2, <2>3
<1> QED BY <1>4, <1>5, <1>6, <1>7, <1>8, <1>9

\* What the client, the monitors, the cleanup, the clock and Close do is the
\* removal of a torrent, the end of the manager, or nothing.
LEMMA OthersAct ==
    ASSUME IInv,
           \/ \E t \in Torrents : InfoArrives(t) \/ Download(t) \/ MonitorStep(t)
                                  \/ DeleteFiles(t)
           \/ CleanupStep \/ Tick \/ Cancel \/ Close \/ Faulted
    PROVE  [Registry!Next]_(Registry!vars)
<1>1. UNCHANGED callerVars
  BY DEF InfoArrives, Download, MonitorStep, MonitorTick, MonitorExpires,
         MonitorRemove, MonitorStops, DeleteFiles, CleanupStep, CleanupTick,
         CleanupVisit, CleanupEvict, CleanupDone, CleanupStops, Tick, Cancel,
         Close, Faulted, vars
<1>2. UNCHANGED <<target, [c \in Callers |-> IF pc[c] \in Serving \cup {"release"}
                                             THEN got[c] ELSE NoTorrent]>>
  BY <1>1 DEF callerVars
<1>3. \/ \E h \in Hashes : /\ torrents[h] # NoTorrent
                           /\ torrents' = [torrents EXCEPT ![h] = NoTorrent]
                           /\ phase' = phase
      \/ phase # "closed" /\ phase' = "closed" /\ torrents' = torrents
      \/ torrents' = torrents /\ (phase' = "closed" <=> phase = "closed")
  <2>1. CASE \E t \in Torrents : MonitorRemove(t)
    <3> PICK t \in Torrents : MonitorRemove(t)
      BY <2>1
    <3>1. hashOf[t] \in Hashes
      BY DEF IInv, HashInv, MonitorRemove
    <3> QED BY <3>1 DEF MonitorRemove, Remove, registry
  <2>2. CASE CleanupEvict
    BY <2>2 DEF IInv, CleanupInv, CleanupEvict, Remove
  <2>3. CASE Close \/ Cancel
    BY <2>3 DEF Close, Cancel, registry
  <2>4. CASE \/ \E t \in Torrents : InfoArrives(t) \/ Download(t) \/ MonitorTick(t)
                  \/ MonitorExpires(t) \/ MonitorStops(t) \/ DeleteFiles(t)
             \/ CleanupTick \/ \E h \in Hashes : CleanupVisit(h)
             \/ CleanupDone \/ CleanupStops \/ Tick \/ Faulted
    BY <2>4 DEF InfoArrives, Download, MonitorTick, MonitorExpires,
         MonitorStops, DeleteFiles, CleanupTick, CleanupVisit, CleanupDone,
         CleanupStops, Tick, Faulted, vars, registry
  <2> QED BY <2>1, <2>2, <2>3, <2>4 DEF MonitorStep, CleanupStep
<1> QED BY <1>2, <1>3
      DEF Registry!Next, Registry!Remove, Registry!Close, Registry!vars

\* GetTorrent is atomic to its callers: the manager, with its two lookups, its
\* lock, its semaphore, its monitors and its cleanup, implements the registry.
THEOREM Implements == Spec => ImplementsRegistry
<1>1. Init => Registry!Init
  BY DEF Init, Registry!Init
<1>2. IInv /\ [Next]_vars => [Registry!Next]_(Registry!vars)
  <2> SUFFICES ASSUME IInv, [Next]_vars PROVE [Registry!Next]_(Registry!vars)
    OBVIOUS
  <2>1. CASE \E c \in Callers : Request(c) \/ CallerStep(c) \/ Finish(c) \/ MapFault(c)
    <3> PICK c \in Callers : Request(c) \/ CallerStep(c) \/ Finish(c) \/ MapFault(c)
      BY <2>1
    <3>1. CASE \/ LimiterPass(c) \/ StoreAccess(c) \/ TouchWrapper(c)
               \/ TrySemaphore(c) \/ RecheckMiss(c) \/ AddMagnet(c)
               \/ AddFails(c) \/ AwaitExpires(c) \/ MapFault(c)
      BY <3>1, CallStutters
    <3>2. CASE \/ Request(c) \/ Lookup(c) \/ RecheckHit(c) \/ Insert(c)
               \/ LimiterFail(c) \/ SemaphoreFull(c) \/ Finish(c)
               \/ ReleaseSemaphore(c)
      <4>1. \/ Registry!Call(c) \/ Registry!Find(c) \/ Registry!Add(c)
            \/ Registry!Return(c) \/ UNCHANGED Registry!vars
        BY <3>2, CallActs
      <4> QED BY <4>1 DEF Registry!Next
    <3> QED BY <3>1, <3>2 DEF CallerStep
  <2>2. CASE \/ \E t \in Torrents : InfoArrives(t) \/ Download(t)
                  \/ MonitorStep(t) \/ DeleteFiles(t)
             \/ CleanupStep \/ Tick \/ Cancel \/ Close \/ Faulted
    BY <2>2, OthersAct
  <2>3. CASE UNCHANGED vars
    BY <2>3 DEF vars, registry, callerVars, Registry!vars
  <2> QED BY <2>1, <2>2, <2>3 DEF Next
<1> QED BY <1>1, <1>2, Invariance, PTL DEF Spec, ImplementsRegistry, Registry!Spec

------------------------------------------------------------------------------
(* How long a call may take, and how long the lock may be held *)

\* The steps of GetTorrent that a caller has before it: from each place the
\* longest way to the end, with the attempts that are left.
CallSteps(c) ==
    CASE pc[c] = "limiter"              -> MaxRetries + 6
      [] pc[c] = "lookup"               -> MaxRetries + 5
      [] pc[c] = "semaphore"            -> MaxRetries + 4
      [] pc[c] = "lock"                 -> MaxRetries + 3
      [] pc[c] = "add"                  -> MaxRetries - tries[c] + 2
      [] pc[c] \in {"await", "store"}   -> 2
      [] pc[c] \in {"release", "touch"} -> 1
      [] pc[c] \in {"idle", "held"}     -> 0
CallWaits(c) == UNCHANGED <<pc[c], tries[c]>>
CallNearer(c) == CallWaits(c) \/ CallSteps(c)' < CallSteps(c)

\* The cleanup has one hash less to visit, or is done with one it removes.
CleanupNearer ==
    \/ UNCHANGED <<cleaner, todo>>
    \/ todo' \subseteq todo /\ todo' # todo
    \/ UNCHANGED todo /\ cleaner = "evict" /\ cleaner' = "range"

LEMMA StepsCounted ==
    ASSUME TypeOK, NEW c \in Callers
    PROVE  CallSteps(c) \in 0 .. MaxRetries + 6
<1>1. /\ pc \in [Callers -> {"idle", "limiter", "lookup", "semaphore", "lock", "add",
                             "await", "release", "store", "touch", "held"}]
      /\ tries \in [Callers -> 0 .. MaxRetries - 1] /\ MaxRetries \in Nat
  BY ConfigAssumption DEF TypeOK
<1> QED  BY <1>1 DEF CallSteps

\* A step of a caller leaves the others alone, and the cleanup.
LEMMA CallersApart ==
    ASSUME TypeOK, NEW c \in Callers, NEW d \in Callers \ {c},
           Request(d) \/ CallerStep(d) \/ Finish(d) \/ MapFault(d)
    PROVE  CallWaits(c)
BY DEF TypeOK, CallWaits, callerVars, Request, CallerStep, Finish, MapFault, LimiterPass,
       LimiterFail, Lookup, StoreAccess, TouchWrapper, TrySemaphore, SemaphoreFull,
       RecheckHit, RecheckMiss, AddMagnet, AddFails, AwaitExpires, Insert, ReleaseSemaphore

LEMMA CallersVisitNothing ==
    ASSUME NEW d \in Callers, Request(d) \/ CallerStep(d) \/ Finish(d) \/ MapFault(d)
    PROVE  UNCHANGED <<cleaner, todo>>
BY DEF cleanup, Request, CallerStep, Finish, MapFault, LimiterPass,
       LimiterFail, Lookup, StoreAccess, TouchWrapper, TrySemaphore, SemaphoreFull,
       RecheckHit, RecheckMiss, AddMagnet, AddFails, AwaitExpires, Insert, ReleaseSemaphore

\* The other goroutines leave every call where it is.
LEMMA CallsApart ==
    ASSUME \/ \E t \in Torrents : \/ InfoArrives(t) \/ Download(t) \/ MonitorStep(t)
                                  \/ DeleteFiles(t)
           \/ CleanupStep \/ Tick \/ Cancel \/ Close \/ Faulted
    PROVE  UNCHANGED callerVars
<1>1. ASSUME NEW t \in Torrents, InfoArrives(t) \/ Download(t) \/ MonitorStep(t) \/ DeleteFiles(t)
      PROVE  UNCHANGED callerVars
  BY <1>1 DEF InfoArrives, Download, MonitorStep, MonitorTick, MonitorExpires,
              MonitorRemove, MonitorStops, DeleteFiles
<1>2. CASE CleanupStep
  BY <1>2 DEF CleanupStep, CleanupTick, CleanupVisit, CleanupEvict, CleanupDone, CleanupStops
<1>3. CASE Tick \/ Cancel \/ Close \/ Faulted
  BY <1>3 DEF Tick, Cancel, Close, Faulted, vars
<1> QED  BY <1>1, <1>2, <1>3

\* Each step of a call itself is one less, the failed attempts included.
LEMMA CallerNearer ==
    ASSUME TypeOK, NEW c \in Callers, pc[c] \notin {"idle", "held"},
           Request(c) \/ CallerStep(c) \/ Finish(c) \/ MapFault(c)
    PROVE  CallNearer(c)
<1>1. /\ pc \in [Callers -> {"idle", "limiter", "lookup", "semaphore", "lock", "add",
                             "await", "release", "store", "touch", "held"}]
      /\ tries \in [Callers -> 0 .. MaxRetries - 1] /\ MaxRetries \in Nat /\ tries[c] \in Int
      /\ 0 <= tries[c] /\ tries[c] < MaxRetries
  BY ConfigAssumption DEF TypeOK
<1> USE DEF CallNearer, CallSteps
<1>2. CASE LimiterPass(c) \/ LimiterFail(c)
  BY <1>1, <1>2 DEF LimiterPass, LimiterFail
<1>3. CASE Lookup(c)
  BY <1>1, <1>3 DEF Lookup
<1>4. CASE StoreAccess(c) \/ TouchWrapper(c)
  BY <1>1, <1>4 DEF StoreAccess, TouchWrapper
<1>5. CASE TrySemaphore(c) \/ SemaphoreFull(c)
  BY <1>1, <1>5 DEF TrySemaphore, SemaphoreFull
<1>6. CASE RecheckHit(c)
  BY <1>1, <1>6 DEF RecheckHit
<1>7. CASE RecheckMiss(c)
  BY <1>1, <1>7 DEF RecheckMiss
<1>8. CASE AddMagnet(c)
  BY <1>1, <1>8 DEF AddMagnet
<1>9. CASE AddFails(c)
  BY <1>1, <1>9 DEF AddFails
<1>10. CASE AwaitExpires(c) \/ Insert(c)
  BY <1>1, <1>10 DEF AwaitExpires, Insert
<1>11. CASE ReleaseSemaphore(c)
  BY <1>1, <1>11 DEF ReleaseSemaphore
<1>12. CASE MapFault(c)
  BY <1>12 DEF MapFault, callerVars, CallWaits
<1> QED
  BY <1>2, <1>3, <1>4, <1>5, <1>6, <1>7, <1>8, <1>9, <1>10, <1>11, <1>12
     DEF Request, Finish, CallerStep

LEMMA CallsNearer ==
    ASSUME IInv, Next, NEW c \in Callers, pc[c] \notin {"idle", "held"}
    PROVE  CallNearer(c)
<1>1. TypeOK
  BY DEF IInv
<1>2. ASSUME NEW d \in Callers, Request(d) \/ CallerStep(d) \/ Finish(d) \/ MapFault(d)
      PROVE  CallNearer(c)
  BY <1>1, <1>2, CallersApart, CallerNearer DEF CallNearer
<1>3. CASE \/ \E t \in Torrents : \/ InfoArrives(t) \/ Download(t) \/ MonitorStep(t)
                                  \/ DeleteFiles(t)
           \/ CleanupStep \/ Tick \/ Cancel \/ Close \/ Faulted
  BY <1>3, CallsApart DEF CallNearer, CallWaits, callerVars
<1> QED  BY <1>2, <1>3 DEF Next

\* Every step of a call of GetTorrent brings its end nearer, whatever the others
\* do: it takes MaxRetries + 6 of them at most, and no path leads back (GetTorrent,
\* addTorrentWithRetry).
THEOREM CallShortens ==
    Spec => /\ [](\A c \in Callers : CallSteps(c) \in 0 .. MaxRetries + 6)
            /\ [][\A c \in Callers : pc[c] \notin {"idle", "held"} => CallNearer(c)]_vars
<1>1. IInv => \A c \in Callers : CallSteps(c) \in 0 .. MaxRetries + 6
  BY StepsCounted DEF IInv
<1>2. IInv /\ [Next]_vars =>
        [\A c \in Callers : pc[c] \notin {"idle", "held"} => CallNearer(c)]_vars
  BY CallsNearer
<1> QED  BY Invariance, <1>1, <1>2, PTL DEF Spec

\* Who keeps m.mu in a step waits, or is nearer to giving it back: a caller by a
\* step of its call, the cleanup by a hash.  Neither waits for the semaphore, nor
\* for another lock, while it has this one (GetTorrent, cleanupRoutine).
THEOREM LockReturns ==
    Spec => /\ [](\A c \in Callers : mu = c => pc[c] \in Adding)
            /\ [](mu = "cleanup" => cleaner \in {"range", "evict"})
            /\ [][mu' = mu \/ mu = "free" \/ mu' = "free"]_vars
            /\ [][\A c \in Callers : mu = c => CallNearer(c)]_vars
            /\ [][mu = "cleanup" => mu' = "free" \/ CleanupNearer]_vars
<1>1. IInv => /\ \A c \in Callers : mu = c => pc[c] \in Adding
              /\ mu = "cleanup" => cleaner \in {"range", "evict"}
  BY DEF IInv, LockInv
<1>2. ASSUME IInv, Next  PROVE mu' = mu \/ mu = "free" \/ mu' = "free"
  <2>1. ASSUME NEW c \in Callers, Request(c) \/ CallerStep(c) \/ Finish(c) \/ MapFault(c)
        PROVE  mu' = mu \/ mu = "free" \/ mu' = "free"
    BY <2>1
       DEF Request, CallerStep, Finish, MapFault, LimiterPass, LimiterFail, Lookup,
           StoreAccess, TouchWrapper, TrySemaphore, SemaphoreFull, RecheckHit, RecheckMiss,
           AddMagnet, AddFails, AwaitExpires, Insert, ReleaseSemaphore
  <2>2. ASSUME NEW t \in Torrents, \/ InfoArrives(t) \/ Download(t) \/ MonitorStep(t)
                                   \/ DeleteFiles(t)
        PROVE  mu' = mu
    BY <2>2 DEF InfoArrives, Download, MonitorStep, MonitorTick, MonitorExpires,
                MonitorRemove, MonitorStops, DeleteFiles
  <2>3. CASE CleanupStep
    BY <2>3 DEF CleanupStep, CleanupTick, CleanupVisit, CleanupEvict, CleanupDone, CleanupStops
  <2>4. CASE Tick \/ Cancel \/ Close \/ Faulted
    BY <2>4 DEF Tick, Cancel, Close, Faulted, vars
  <2> QED  BY <1>2, <2>1, <2>2, <2>3, <2>4 DEF Next
<1>3. ASSUME IInv, Next, NEW c \in Callers, mu = c  PROVE CallNearer(c)
  BY <1>1, <1>3, CallsNearer
<1>4. ASSUME IInv, Next, mu = "cleanup"  PROVE mu' = "free" \/ CleanupNearer
  <2>0. "cleanup" \notin Callers /\ "free" \notin Callers /\ cleaner \in {"range", "evict"}
    BY <1>1, <1>4, CallersAssumption
  <2>1. ASSUME NEW c \in Callers, Request(c) \/ CallerStep(c) \/ Finish(c) \/ MapFault(c)
        PROVE  CleanupNearer
    BY <2>1, CallersVisitNothing DEF CleanupNearer
  <2>2. ASSUME NEW t \in Torrents, \/ InfoArrives(t) \/ Download(t) \/ MonitorStep(t)
                                   \/ DeleteFiles(t)
        PROVE  CleanupNearer
    BY <2>2 DEF InfoArrives, Download, MonitorStep, MonitorTick, MonitorExpires,
                MonitorRemove, MonitorStops, DeleteFiles, CleanupNearer, cleanup
  <2>3. ASSUME NEW h \in Hashes, CleanupVisit(h)  PROVE CleanupNearer
    BY <2>3 DEF CleanupVisit, CleanupNearer
  <2>4. CASE CleanupEvict
    BY <2>4 DEF CleanupEvict, CleanupNearer
  <2>5. CASE CleanupTick \/ CleanupDone \/ CleanupStops
    BY <1>4, <2>0, <2>5 DEF CleanupTick, CleanupDone, CleanupStops
  <2>6. CASE Tick \/ Cancel \/ Close \/ Faulted
    BY <2>6 DEF Tick, Cancel, Close, Faulted, vars, CleanupNearer, cleanup
  <2> QED  BY <1>4, <2>1, <2>2, <2>3, <2>4, <2>5, <2>6 DEF Next, CleanupStep
<1>5. IInv /\ [Next]_vars =>
        /\ [mu' = mu \/ mu = "free" \/ mu' = "free"]_vars
        /\ [\A c \in Callers : mu = c => CallNearer(c)]_vars
        /\ [mu = "cleanup" => mu' = "free" \/ CleanupNearer]_vars
  BY <1>2, <1>3, <1>4
<1> QED  BY Invariance, <1>1, <1>5, PTL DEF Spec
------------------------------------------------------------------------------
(* The monitors *)

\* A torrent of the client that has a monitor is the registered one.
WatchedIsRegistered ==
    \A t \in Torrents : Live(t) /\ monitor[t] # "none" => torrents[hashOf[t]] = t

\* A monitor ends, or goes on to remove and then ends.
MonitorForward(t) ==
    \/ monitor'[t] \in {monitor[t], "none"}
    \/ monitor[t] = "select" /\ monitor'[t] \in {"idle", "expired"}

\* The torrent of a monitor is as it was, or it has been dropped.
StaysDropped(t) == ~Live(t) => ~Live(t)'

\* What monitors keep in a step.
Watching ==
    /\ WatchedIsRegistered'
    /\ \A t \in Torrents : monitor[t] # "none" => MonitorForward(t) /\ StaysDropped(t)

\* Nothing of this changes when the client and the map do not.
LEMMA WatchingSame ==
    ASSUME WatchedIsRegistered, UNCHANGED <<client, torrents, hashOf>>,
           \A t \in Torrents : monitor'[t] # "none" => monitor[t] # "none",
           \A t \in Torrents : monitor[t] # "none" => MonitorForward(t)
    PROVE  Watching
BY DEF WatchedIsRegistered, Watching, StaysDropped, Live

\* Whoever is removed is dropped by the client as well.
LEMMA WatchingRemoval ==
    ASSUME IInv, WatchedIsRegistered, NEW h \in Hashes, torrents[h] # NoTorrent, Remove(h),
           hashOf' = hashOf,
           \A t \in Torrents : monitor'[t] # "none" => monitor[t] # "none",
           \A t \in Torrents : monitor[t] # "none" => MonitorForward(t)
    PROVE  Watching
<1>1. ASSUME NEW t \in Torrents, NEW k \in Hashes, client'[k] = t
      PROVE  client[k] = t /\ hashOf[t] = k /\ (torrents[k] = t => torrents'[k] = t)
  BY <1>1, NullsAssumption DEF Remove, IInv, TypeOK, HashInv
<1>2. \A t \in Torrents : StaysDropped(t)
  BY <1>1 DEF StaysDropped, Live
<1>3. WatchedIsRegistered'
  BY <1>1 DEF WatchedIsRegistered, Live
<1> QED  BY <1>2, <1>3 DEF Watching

\* A caller adds a torrent nothing refers to, and starts a monitor only for one
\* that has none.
LEMMA WatchingCaller ==
    ASSUME IInv, WatchedIsRegistered, NEW c \in Callers,
           Request(c) \/ CallerStep(c) \/ Finish(c) \/ MapFault(c)
    PROVE  Watching
<1>1. CASE AddMagnet(c)
  <2>1. CASE client[target[c]] # NoTorrent
    BY <1>1, <2>1, WatchingSame DEF AddMagnet, objects, registry, MonitorForward
  <2>2. CASE client[target[c]] = NoTorrent
    <3>1. PICK u \in Free : /\ client' = [client EXCEPT ![target[c]] = u]
                            /\ hashOf' = [hashOf EXCEPT ![u] = target[c]]
      BY <1>1, <2>2 DEF AddMagnet
    <3>2. monitor' = monitor /\ torrents' = torrents /\ monitor[u] = "none" /\ u \in Torrents
      BY <1>1 DEF AddMagnet, registry, Free, Referenced
    <3>3. ASSUME NEW t \in Torrents, monitor[t] # "none"
          PROVE  t # u /\ (Live(t)' => Live(t)) /\ hashOf'[t] = hashOf[t]
      BY <3>1, <3>2, <3>3 DEF Live, IInv, TypeOK
    <3> QED  BY <3>2, <3>3 DEF Watching, WatchedIsRegistered, MonitorForward, StaysDropped
  <2> QED  BY <2>1, <2>2
<1>2. CASE Insert(c)
  <2> DEFINE h == target[c]  u == got[c]
  <2>1. /\ h \in Hashes /\ u \in Torrents /\ client[h] = u /\ hashOf[u] = h
        /\ torrents[h] = NoTorrent
    BY <1>2 DEF Insert, IInv, CallerInv, HashInv, AddsOnlyMissing
  <2>2. Live(u) /\ monitor[u] = "none"
    BY <2>1, NullsAssumption DEF Live, WatchedIsRegistered
  <2>3. /\ torrents' = [torrents EXCEPT ![h] = u]
        /\ monitor' = [monitor EXCEPT ![u] = "select"]
        /\ UNCHANGED <<client, hashOf>>
    BY <1>2 DEF Insert
  <2>4. ASSUME NEW t \in Torrents, t # u  PROVE monitor'[t] = monitor[t]
    BY <2>1, <2>3, <2>4 DEF IInv, TypeOK
  <2>5. ASSUME NEW t \in Torrents, Live(t)', monitor'[t] # "none"
        PROVE  torrents'[hashOf'[t]] = t
    <3>1. CASE t = u
      BY <2>1, <2>3, <3>1 DEF IInv, TypeOK
    <3>2. CASE t # u
      <4>1. Live(t) /\ torrents[hashOf[t]] = t
        BY <2>3, <2>4, <2>5, <3>2 DEF Live, WatchedIsRegistered
      <4>2. hashOf[t] # h
        BY <2>1, <4>1, NullsAssumption
      <4> QED  BY <2>3, <4>1, <4>2
    <3> QED  BY <3>1, <3>2
  <2> QED
    BY <2>2, <2>3, <2>4, <2>5 DEF Watching, WatchedIsRegistered, MonitorForward,
                                  StaysDropped, Live
<1>3. CASE ~AddMagnet(c) /\ ~Insert(c)
  <2>1. UNCHANGED <<client, torrents, hashOf, monitor>>
    BY <1>3 DEF registry, objects, Request, CallerStep, Finish, MapFault, LimiterPass,
                LimiterFail, Lookup, StoreAccess, TouchWrapper, TrySemaphore, SemaphoreFull,
                RecheckHit, RecheckMiss, AddFails, AwaitExpires, ReleaseSemaphore
  <2> QED  BY <2>1, WatchingSame DEF MonitorForward
<1> QED  BY <1>1, <1>2, <1>3

LEMMA WatchingStep == IInv /\ WatchedIsRegistered /\ Next => Watching
<1> SUFFICES ASSUME IInv, WatchedIsRegistered, Next  PROVE Watching
  OBVIOUS
<1>1. ASSUME NEW t \in Torrents, MonitorStep(t)  PROVE Watching
  <2>0. monitor \in [Torrents -> {"none", "select", "idle", "expired"}]
    BY DEF IInv, TypeOK
  <2>1. CASE MonitorTick(t)
    BY <2>0, <2>1, WatchingSame DEF MonitorTick, registry, MonitorForward
  <2>2. CASE MonitorExpires(t) \/ MonitorStops(t)
    BY <2>0, <2>2, WatchingSame DEF MonitorExpires, MonitorStops, registry, MonitorForward
  <2>3. CASE MonitorRemove(t)
    <3>1. /\ hashOf' = hashOf /\ hashOf[t] \in Hashes
          /\ \A u \in Torrents : monitor'[u] # "none" => monitor[u] # "none"
          /\ \A u \in Torrents : monitor[u] # "none" => MonitorForward(u)
      BY <2>0, <2>3 DEF MonitorRemove, objects, MonitorForward, IInv, HashInv
    <3>2. CASE torrents[hashOf[t]] # NoTorrent
      BY <2>3, <3>1, <3>2, WatchingRemoval DEF MonitorRemove
    <3>3. CASE torrents[hashOf[t]] = NoTorrent
      BY <2>3, <3>1, <3>3, WatchingSame DEF MonitorRemove, registry
    <3> QED  BY <3>2, <3>3
  <2> QED  BY <1>1, <2>1, <2>2, <2>3 DEF MonitorStep
<1>2. ASSUME NEW t \in Torrents, InfoArrives(t) \/ Download(t) \/ DeleteFiles(t)  PROVE Watching
  BY <1>2, WatchingSame DEF InfoArrives, Download, DeleteFiles, objects, registry, MonitorForward
<1>3. CASE CleanupEvict
  <2>1. victim \in Hashes /\ torrents[victim] # NoTorrent /\ hashOf' = hashOf /\ monitor' = monitor
    BY <1>3 DEF CleanupEvict, objects, IInv, CleanupInv
  <2> QED  BY <1>3, <2>1, WatchingRemoval DEF CleanupEvict, MonitorForward
<1>4. CASE CleanupStep /\ ~CleanupEvict
  BY <1>4, WatchingSame
     DEF CleanupStep, CleanupTick, CleanupVisit, CleanupDone, CleanupStops, objects, registry,
         MonitorForward
<1>5. CASE Close
  <2>1. UNCHANGED <<torrents, hashOf, monitor>> /\ \A t \in Torrents : ~Live(t)'
    BY <1>5, NullsAssumption DEF Close, objects, registry, Live
  <2> QED  BY <2>1 DEF Watching, WatchedIsRegistered, MonitorForward, StaysDropped
<1>6. CASE Tick \/ Cancel \/ Faulted
  BY <1>6, WatchingSame DEF Tick, Cancel, Faulted, vars, objects, registry, MonitorForward
<1> QED
  BY <1>1, <1>2, <1>3, <1>4, <1>5, <1>6, WatchingCaller DEF Next

\* A torrent is watched once: Insert starts a monitor only for one that has none,
\* and a torrent of the client that has one is the registered one.  A monitor
\* never goes back to its select, and one whose torrent has been dropped has a
\* case ready for good, though another torrent is registered for its hash
\* (GetTorrent, monitorTorrent).
THEOREM MonitorsLeave ==
    Spec => /\ []WatchedIsRegistered
            /\ [][\A c \in Callers : Insert(c) => monitor[got[c]] = "none"]_vars
            /\ [][\A t \in Torrents : monitor[t] # "none" => MonitorForward(t)]_vars
            /\ [][\A t \in Torrents : monitor[t] # "none" /\ ~Live(t) => ~Live(t)']_vars
<1>1. Init => WatchedIsRegistered
  BY DEF Init, WatchedIsRegistered
<1>2. IInv /\ WatchedIsRegistered /\ [Next]_vars => WatchedIsRegistered'
  <2>1. UNCHANGED vars /\ WatchedIsRegistered => WatchedIsRegistered'
    BY DEF vars, registry, objects, WatchedIsRegistered, Live
  <2> QED  BY <2>1, WatchingStep DEF Watching
<1>3. ASSUME IInv, WatchedIsRegistered, NEW c \in Callers, Insert(c)
      PROVE  monitor[got[c]] = "none"
  <2>1. /\ target[c] \in Hashes /\ got[c] \in Torrents /\ client[target[c]] = got[c]
        /\ hashOf[got[c]] = target[c] /\ torrents[target[c]] = NoTorrent
    BY <1>3 DEF Insert, IInv, CallerInv, HashInv, AddsOnlyMissing
  <2> QED  BY <1>3, <2>1, NullsAssumption DEF Live, WatchedIsRegistered
<1>4. IInv /\ WatchedIsRegistered /\ [Next]_vars =>
        /\ [\A c \in Callers : Insert(c) => monitor[got[c]] = "none"]_vars
        /\ [\A t \in Torrents : monitor[t] # "none" => MonitorForward(t)]_vars
        /\ [\A t \in Torrents : monitor[t] # "none" /\ ~Live(t) => ~Live(t)']_vars
  BY <1>3, WatchingStep DEF Watching, StaysDropped
<1> QED  BY Invariance, <1>1, <1>2, <1>4, PTL DEF Spec
==============================================================================
