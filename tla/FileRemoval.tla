----------------------------- MODULE FileRemoval -----------------------------
(***************************************************************************)
(* Manager.deleteFiles beside the calls of the FileStore it goes to when a *)
(* file is busy: retryFileOperation, handleBusyResource and                *)
(* removeEmptyDirs, which cleans DownloadDir and the store's directory in  *)
(* it.                                                                     *)
(*                                                                         *)
(* A busy file is handled twice over.  Within retryFileOperation           *)
(* handleBusyResource is given the path in the error's text, which has     *)
(* none in quotes: it closes the entry ".", pauses, and finds the empty    *)
(* path already removed, so the operation is tried again without backoff.  *)
(* Once the attempts are used up deleteFiles calls it with the path        *)
(* itself: it closes the entry the file is named after, pauses, and tries  *)
(* the removal as often again.                                             *)
(***************************************************************************)
EXTENDS FileStore

CONSTANTS
    MaxRetries,
    MaxFiles          \* the most files a torrent has (a bound)

ASSUME RetriesAssumption == MaxRetries \in Nat \ {0} /\ MaxFiles \in Nat

VARIABLES
    removal,   \* where deleteFiles is
    left,      \* files of the torrent it has still to delete
    round,     \* "first": retryFileOperation in deleteFiles, "again": in the
               \* handleBusyResource it calls
    attempt    \* of retryFileOperation; MaxRetries when they are used up

removalVars == <<removal, left, round, attempt>>
allVars == <<vars, removalVars>>

RemovalInit ==
    /\ Init
    /\ removal = "idle" /\ left = 0
    /\ round = "first" /\ attempt = 0

At(place) == removal' = place
NextFile ==
    /\ left' = left - 1
    /\ At(IF left = 1 THEN "dirs" ELSE "try")
    /\ round' = "first" /\ attempt' = 0

deleteFiles ==
    /\ removal = "idle"
    /\ \E n \in 0 .. MaxFiles : left' = n /\ At(IF n = 0 THEN "dirs" ELSE "try")
    /\ UNCHANGED <<vars, round, attempt>>

\* os.Remove succeeds, or there is no such file.
Removed ==
    /\ removal = "try"
    /\ NextFile
    /\ UNCHANGED vars

\* It fails with another error than "busy": again after the backoff.
Fails ==
    /\ removal = "try"
    /\ IF attempt + 1 < MaxRetries
       THEN attempt' = attempt + 1 /\ UNCHANGED <<removal, left, round>>
       ELSE NextFile
    /\ UNCHANGED vars

Busy ==
    /\ removal = "try"
    /\ At("acquire")
    /\ UNCHANGED <<vars, left, round, attempt>>

\* CloseFile gets a token of the store's semaphore ...
Acquire ==
    /\ removal = "acquire" /\ sem < MaxConcurrency
    /\ sem' = sem + 1
    /\ At("lock")
    /\ UNCHANGED <<store, mu, pc, key, size, left, round, attempt>>

\* Mutant: an attempt that found the file busy does not count.
HandledForFree ==
    IF attempt = MaxRetries
    THEN At("try") /\ round' = "again" /\ attempt' = 0 /\ UNCHANGED left
    ELSE IF attempt < MaxRetries
    THEN At("try") /\ UNCHANGED <<left, round, attempt>>
    ELSE IF round = "first"
    THEN /\ At("acquire")
         /\ attempt' = MaxRetries
         /\ UNCHANGED <<left, round>>
    ELSE NextFile

\* handleBusyResource after CloseFile, which may have failed.
Handled ==
    IF attempt = MaxRetries
    THEN At("try") /\ round' = "again" /\ attempt' = 0 /\ UNCHANGED left
    ELSE IF attempt + 1 < MaxRetries
    THEN At("try") /\ attempt' = attempt + 1 /\ UNCHANGED <<left, round>>
    ELSE IF round = "first"
    THEN /\ At("acquire")
         /\ attempt' = MaxRetries
         /\ UNCHANGED <<left, round>>
    ELSE NextFile

\* ... or not within five seconds.
GivesUp ==
    /\ removal = "acquire"
    /\ Handled
    /\ UNCHANGED vars

\* The entry the file is named after, if the store has one of that name; ".",
\* which it has not, while attempts are left.
Entry ==
    \/ attempt = MaxRetries /\ \E k \in Keys : Closed(k)
    \/ UNCHANGED <<cache, disk>>

\* Then it waits for the lock, without a timeout, and closes the entry.
CloseEntry ==
    /\ removal = "lock" /\ mu = NoClient
    /\ Entry
    /\ sem' = sem - 1
    /\ Handled
    /\ UNCHANGED <<currentSize, mu, dirThere, pc, key, size>>

\* A store's directory that is empty is removed; nothing makes it again.
removeEmptyDirs ==
    /\ removal = "dirs"
    /\ dirThere' = (dirThere /\ Files # {})
    /\ At("idle")
    /\ UNCHANGED <<cache, disk, currentSize, sem, mu, pc, key, size,
                   left, round, attempt>>

------------------------------------------------------------------------------
RemovalStep ==
    Removed \/ Fails \/ Busy \/ Acquire \/ GivesUp \/ removeEmptyDirs

RemovalNext ==
    \/ \E c \in Clients : Call(c) /\ UNCHANGED removalVars
    \/ deleteFiles \/ RemovalStep \/ CloseEntry

RemovalSpec == RemovalInit /\ [][RemovalNext]_allVars

\* The client that holds the lock goes on, and whoever waits for the lock gets
\* it.  Readers need not be closed.
RemovalFairSpec ==
    /\ RemovalSpec
    /\ WF_allVars((\E c \in Clients : StoreStep(c)) /\ UNCHANGED removalVars)
    /\ WF_allVars(RemovalStep) /\ SF_allVars(CloseEntry)

------------------------------------------------------------------------------
(* Properties *)

\* The tokens taken are those of the calls under way, of the open readers and
\* of the CloseFile of deleteFiles.
InCall == {c \in Clients : pc[c] # "idle"}
TokensHeld == sem = Cardinality(InCall) + (IF removal = "lock" THEN 1 ELSE 0)

\* Every variable keeps its type, and each way out of a call gives its token
\* back once (the deferred Release of each operation, semaphoreCloser.Close).
RemovalTypeOK ==
    /\ TypeOK /\ TokensHeld
    /\ removal \in {"idle", "try", "acquire", "lock", "dirs"}
    /\ left \in 0 .. MaxFiles /\ attempt \in 0 .. MaxRetries
    /\ round \in {"first", "again"}

\* deleteFiles ends, however busy the files are and however long the readers
\* of the store keep their tokens.
RemovalEnds == removal = "try" ~> removal = "idle"
==============================================================================
