----------------------------- MODULE StreamBuffer -----------------------------
(***************************************************************************)
(* streaming.Buffer as a buffer: Read and Write, its background tasks,     *)
(* Reset and Close.  (ReadAt, which the handlers use, is modelled with the *)
(* sessions that share it.)                                                *)
(*                                                                         *)
(* readIndex and writeIndex only grow; nothing takes them modulo the size. *)
(* A Read or Write whose slice bounds are out of range panics, and its     *)
(* deferred unlocks leave everything as it was: it is not an action.       *)
(***************************************************************************)
EXTENDS Integers, FiniteSets

CONSTANTS
    Readers,
    Size,                        \* of NewBuffer
    MinCacheSize, MaxCacheSize,
    MaxConcurrentReads,          \* capacity of readSemaphore
    MaxBytes                     \* the most one call asks for (a bound)

ASSUME SizesAssumption ==
    /\ Size \in Nat \ {0}
    /\ MinCacheSize \in Nat \ {0} /\ MaxCacheSize \in Nat /\ MinCacheSize <= MaxCacheSize
    /\ MaxConcurrentReads \in Nat \ {0} /\ MaxBytes \in Nat

VARIABLES
    data,         \* what is at each index: the position in the stream (from
                  \* 1) of the byte written last, 0 where there was none
    size,
    readIndex, writeIndex,
    copied,       \* bytes each Read has copied, 0 outside of one
    spoiled,      \* since the last Reset a write has passed the end, the
                  \* buffer has shrunk below writeIndex, or two Reads met
    isClosed,
    closer,       \* where the Close that closes the buffer is
    task          \* state of each background task

index == <<readIndex, writeIndex>>
vars == <<data, size, index, copied, spoiled, isClosed, closer, task>>

Tasks == {"prefetch", "adaptive", "bandwidth", "quality"}
Inside == {c \in Readers : copied[c] # 0}
MuFree == Inside = {}             \* b.mu can be locked for writing
Least(m, n) == IF m < n THEN m ELSE n

Init ==
    /\ size = Size /\ data = [i \in 0 .. Size - 1 |-> 0]
    /\ readIndex = 0 /\ writeIndex = 0
    /\ copied = [c \in Readers |-> 0]
    /\ spoiled = FALSE
    /\ isClosed = FALSE /\ closer = "open"
    /\ task = [t \in Tasks |-> "off"]

------------------------------------------------------------------------------
(* Read and Write *)

\* The indices are loaded and the bytes copied, in the range that does not
\* panic.
Read(c, n) ==
    /\ copied[c] = 0 /\ Cardinality(Inside) < MaxConcurrentReads
    /\ ~isClosed /\ readIndex # writeIndex
    /\ \/ /\ readIndex < writeIndex /\ writeIndex <= size
          /\ copied' = [copied EXCEPT ![c] = Least(n, writeIndex - readIndex)]
       \/ /\ writeIndex < readIndex /\ readIndex <= size
          /\ copied' = [copied EXCEPT ![c] = Least(n, size - readIndex + writeIndex)]
    /\ spoiled' = (spoiled \/ Inside # {})
    /\ UNCHANGED <<data, size, index, isClosed, closer, task>>

\* The index is advanced by what was copied, wherever it is by now.
ReadEnds(c) ==
    /\ copied[c] # 0
    /\ readIndex' = readIndex + copied[c]
    /\ copied' = [copied EXCEPT ![c] = 0]
    /\ UNCHANGED <<data, size, writeIndex, spoiled, isClosed, closer, task>>

availableSpace ==
    IF writeIndex >= readIndex THEN size - writeIndex + readIndex
    ELSE readIndex - writeIndex

\* Write puts in what there is room for, the part past the end at the start.
Write(n) ==
    LET taken == Least(n, availableSpace)
        end   == writeIndex + taken IN
    /\ MuFree /\ ~isClosed
    /\ taken >= 0 /\ (end <= size \/ writeIndex <= size)
    /\ data' = [i \in DOMAIN data |->
         CASE i < end - size -> size + i + 1
           [] i >= end - size /\ i \in writeIndex .. end - 1 -> i + 1
           [] OTHER -> data[i]]
    /\ writeIndex' = end
    /\ spoiled' = (spoiled \/ end > size)
    /\ UNCHANGED <<size, readIndex, copied, isClosed, closer, task>>

Reset ==
    /\ MuFree
    /\ readIndex' = 0 /\ writeIndex' = 0
    /\ spoiled' = FALSE
    /\ UNCHANGED <<data, size, copied, isClosed, closer, task>>

------------------------------------------------------------------------------
(* The background tasks *)

\* The owner starts them, if at all, before it closes the buffer.
StartBackgroundTasks ==
    /\ closer = "open" /\ \A t \in Tasks : task[t] = "off"
    /\ task' = [t \in Tasks |-> "select"]
    /\ UNCHANGED <<data, size, index, copied, spoiled, isClosed, closer>>

Cancelled == closer \notin {"open", "flagged"}

\* The ticker, which select may prefer to a cancelled context; the prefetch
\* loop does not wait for one.
TaskFires(t) ==
    /\ task[t] = "select"
    /\ t = "prefetch" => ~Cancelled
    /\ task' = [task EXCEPT ![t] = "busy"]
    /\ UNCHANGED <<data, size, index, copied, spoiled, isClosed, closer>>

\* Mutant: a routine does not listen to the context.
TaskEndsOrNot(t) ==
    /\ task[t] = "select" /\ Cancelled /\ t # "quality"
    /\ task' = [task EXCEPT ![t] = "ended"]
    /\ UNCHANGED <<data, size, index, copied, spoiled, isClosed, closer>>

TaskEnds(t) ==
    /\ task[t] = "select" /\ Cancelled
    /\ task' = [task EXCEPT ![t] = "ended"]
    /\ UNCHANGED <<data, size, index, copied, spoiled, isClosed, closer>>

\* The rounds that leave the buffer alone: a piece is prefetched (or is
\* already), a sample of the bandwidth taken, the quality adjusted.
Round(t) ==
    /\ task[t] = "busy"
    /\ t = "adaptive" => MuFree
    /\ task' = [task EXCEPT ![t] = "select"]
    /\ UNCHANGED <<data, size, index, copied, spoiled, isClosed, closer>>

\* Mutant: the contents are not kept.
ResizedEmpty(n) == [i \in 0 .. n - 1 |-> 0]

\* resizeBuffer keeps what fits.
Resized(n) == [i \in 0 .. n - 1 |-> IF i < size THEN data[i] ELSE 0]

Clamped(n) ==
    IF n < MinCacheSize THEN MinCacheSize ELSE Least(n, MaxCacheSize)

\* adjustCacheSize; few hits let the buffer grow, many let it shrink.
AdjustCacheSize ==
    /\ task["adaptive"] = "busy" /\ MuFree
    /\ \/ size < MaxCacheSize /\ size' = Clamped((size * 3) \div 2)
       \/ size > MinCacheSize /\ size' = Clamped((size * 4) \div 5)
    /\ data' = Resized(size')
    /\ spoiled' = (spoiled \/ size' < writeIndex)
    /\ task' = [task EXCEPT !["adaptive"] = "select"]
    /\ UNCHANGED <<index, copied, isClosed, closer>>

------------------------------------------------------------------------------
(* Close.  A second one returns at once. *)

CloseStarts ==
    /\ ~isClosed
    /\ isClosed' = TRUE /\ closer' = "flagged"
    /\ UNCHANGED <<data, size, index, copied, spoiled, task>>

CloseCancels ==
    /\ closer = "flagged" /\ closer' = "waiting"
    /\ UNCHANGED <<data, size, index, copied, spoiled, isClosed, task>>

\* StopBackgroundTasks returns.
CloseWaited ==
    /\ closer = "waiting" /\ \A t \in Tasks : task[t] \in {"off", "ended"}
    /\ closer' = "locking"
    /\ UNCHANGED <<data, size, index, copied, spoiled, isClosed, task>>

CloseEnds ==
    /\ closer = "locking" /\ MuFree
    /\ closer' = "closed"
    /\ UNCHANGED <<data, size, index, copied, spoiled, isClosed, task>>

------------------------------------------------------------------------------
Task(t) == TaskFires(t) \/ TaskEnds(t) \/ Round(t)
Closing == CloseCancels \/ CloseWaited \/ CloseEnds

Next ==
    \/ \E c \in Readers : ReadEnds(c) \/ \E n \in 1 .. MaxBytes : Read(c, n)
    \/ \E n \in 0 .. MaxBytes : Write(n)
    \/ Reset \/ StartBackgroundTasks \/ AdjustCacheSize
    \/ \E t \in Tasks : Task(t)
    \/ CloseStarts \/ Closing

Spec == Init /\ [][Next]_vars

\* Reads end, select takes the cancelled context in the end, and the rounds
\* end, except that the prefetch waits for its reader, which waits for peers.
FairSpec ==
    /\ Spec /\ WF_vars(Closing)
    /\ \A c \in Readers : WF_vars(ReadEnds(c))
    /\ \A t \in Tasks : SF_vars(TaskEnds(t))
    /\ \A t \in Tasks \ {"prefetch"} : WF_vars(Round(t) \/ (t = "adaptive" /\ AdjustCacheSize))

------------------------------------------------------------------------------
(* Properties *)

\* What lies between the indices is what was written there and has not been
\* read, and a Read under way is about to advance over nothing else, as long
\* as the writes fit behind each other, the buffer does not shrink below them
\* and Reads do not meet (Read, Write, resizeBuffer, Reset).
LoneReadsRight ==
    ~spoiled =>
      /\ readIndex <= writeIndex /\ writeIndex <= size
      /\ \A i \in readIndex .. writeIndex - 1 : data[i] = i + 1
      /\ \A c \in Inside : readIndex + copied[c] <= writeIndex /\ Inside = {c}

\* When the Close that closed the buffer has returned, no Read is under way
\* and no task runs (Close, StopBackgroundTasks).
ClosedIsQuiet ==
    closer = "closed" => Inside = {} /\ \A t \in Tasks : task[t] \in {"off", "ended"}

\* Close returns, unless the prefetch waits for data forever.
CloseReturns ==
    \/ closer = "flagged" ~> closer = "closed"
    \/ <>[](task["prefetch"] = "busy")
==============================================================================
