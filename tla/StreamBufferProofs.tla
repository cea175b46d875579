-------------------------- MODULE StreamBufferProofs --------------------------
(***************************************************************************)
(* StreamBuffer, for any number of readers and any sizes: while nothing has *)
(* passed the end, a Read alone gets what was written, in order, and a      *)
(* Close that has returned leaves nothing at work.                          *)
(***************************************************************************)
EXTENDS StreamBuffer, TLAPS

\* Every variable keeps its type.
Types ==
    /\ size \in Nat /\ data \in [0 .. size - 1 -> Nat]
    /\ readIndex \in Nat /\ writeIndex \in Nat
    /\ copied \in [Readers -> Nat]
    /\ spoiled \in BOOLEAN /\ isClosed \in BOOLEAN
    /\ closer \in {"open", "flagged", "waiting", "locking", "closed"}
    /\ task \in [Tasks -> {"off", "select", "busy", "ended"}]

\* LoneReadsRight, in two parts.
Filled ==
    /\ readIndex <= writeIndex /\ writeIndex <= size
    /\ \A i \in readIndex .. writeIndex - 1 : data[i] = i + 1

Alone ==
    \A c \in Readers : copied[c] # 0 =>
      /\ readIndex + copied[c] <= writeIndex
      /\ \A d \in Readers : copied[d] # 0 => d = c

Contents == ~spoiled => Filled /\ Alone

\* ClosedIsQuiet, and what leads to it: a buffer that is flagged takes in no
\* Read, and a Close that wants the lock has waited for the tasks.
Closed ==
    /\ isClosed <=> closer # "open"
    /\ closer \in {"locking", "closed"} => \A t \in Tasks : task[t] \in {"off", "ended"}
    /\ closer = "closed" => \A c \in Readers : copied[c] = 0

IInv == Types /\ Contents /\ Closed

LEMMA Initially == Init => IInv
<1> SUFFICES ASSUME Init  PROVE IInv
  OBVIOUS
<1>1. size \in Nat /\ data \in [0 .. size - 1 -> Nat]
  BY SizesAssumption DEF Init
<1>2. Types /\ Closed
  BY <1>1 DEF Init, Types, Closed
<1>3. Filled
  BY SizesAssumption DEF Init, Filled
<1>4. Alone
  BY DEF Init, Alone
<1> QED  BY <1>2, <1>3, <1>4 DEF IInv, Contents

LEMMA ReadStep ==
    ASSUME IInv, NEW c \in Readers, NEW n \in 1 .. MaxBytes, Read(c, n)
    PROVE  IInv'
<1>1. n \in Nat /\ n > 0
  BY SizesAssumption
<1>2. copied' \in [Readers -> Nat]
  BY <1>1 DEF IInv, Types, Read, Least
<1>3. Types' /\ Closed'
  BY <1>2 DEF IInv, Types, Closed, Read, index
<1>4. ASSUME ~spoiled'  PROVE (Filled /\ Alone)'
  <2>1. ~spoiled /\ \A d \in Readers : copied[d] = 0
    BY <1>4 DEF Read, Inside
  <2>2. Filled
    BY <2>1 DEF IInv, Contents
  <2>3. /\ readIndex < writeIndex
        /\ copied' = [copied EXCEPT ![c] = Least(n, writeIndex - readIndex)]
    BY <2>2 DEF Read, Filled, IInv, Types
  <2>4. readIndex + copied'[c] <= writeIndex
    BY <1>1, <2>3 DEF Least, IInv, Types
  <2>5. \A d \in Readers : d # c => copied'[d] = 0
    BY <2>1, <2>3 DEF IInv, Types
  <2>6. UNCHANGED <<data, size, readIndex, writeIndex>>
    BY DEF Read, index
  <2>7. Filled'
    BY <2>2, <2>6 DEF Filled
  <2>8. Alone'
    BY <2>4, <2>5, <2>6 DEF Alone
  <2> QED  BY <2>7, <2>8
<1> QED  BY <1>3, <1>4 DEF IInv, Contents

LEMMA ReadEndsStep ==
    ASSUME IInv, NEW c \in Readers, ReadEnds(c)
    PROVE  IInv'
<1>1. copied[c] \in Nat /\ copied[c] # 0
  BY DEF ReadEnds, IInv, Types
<1>2. Types' /\ Closed'
  BY <1>1 DEF ReadEnds, IInv, Types, Closed
<1>3. ASSUME ~spoiled'  PROVE (Filled /\ Alone)'
  <2>1. Filled /\ Alone
    BY <1>3 DEF ReadEnds, IInv, Contents
  <2>2. /\ readIndex' = readIndex + copied[c]
        /\ UNCHANGED <<data, size, writeIndex>>
    BY DEF ReadEnds
  <2>3. \A d \in Readers : copied'[d] = 0
    BY <1>1, <2>1 DEF ReadEnds, Alone, IInv, Types
  <2>4. readIndex' <= writeIndex
    BY <1>1, <2>1, <2>2 DEF Alone
  <2>5. Filled'
    <3>1. \A i \in readIndex' .. writeIndex - 1 : i \in readIndex .. writeIndex - 1
      BY <1>1, <2>2 DEF IInv, Types
    <3> QED  BY <2>1, <2>2, <2>4, <3>1 DEF Filled
  <2> QED  BY <2>3, <2>5 DEF Alone
<1> QED  BY <1>2, <1>3 DEF IInv, Contents

LEMMA WriteStep ==
    ASSUME IInv, NEW n \in 0 .. MaxBytes, Write(n)
    PROVE  IInv'
<1> DEFINE taken == Least(n, availableSpace)
           end   == writeIndex + taken
           byte(i) == CASE i < end - size -> size + i + 1
                        [] i >= end - size /\ i \in writeIndex .. end - 1 -> i + 1
                        [] OTHER -> data[i]
<1>1. taken \in Nat /\ end \in Nat
  <2>1. n \in Nat /\ size \in Nat /\ readIndex \in Nat /\ writeIndex \in Nat
    BY SizesAssumption DEF IInv, Types
  <2>2. availableSpace \in Int /\ 0 <= taken
    BY <2>1 DEF Write, Least, availableSpace
  <2>3. taken \in Nat
    BY <2>1, <2>2 DEF Least
  <2> HIDE DEF taken
  <2> QED  BY <2>1, <2>3
<1>2. /\ data' = [i \in 0 .. size - 1 |-> byte(i)]
      /\ writeIndex' = end
      /\ spoiled' = (spoiled \/ end > size)
      /\ UNCHANGED <<size, readIndex, copied, isClosed, closer, task>>
      /\ \A c \in Readers : copied[c] = 0
  BY DEF Write, MuFree, Inside, IInv, Types
<1> HIDE DEF taken
<1>3. ASSUME NEW i \in 0 .. size - 1  PROVE byte(i) \in Nat
  <2>1. data[i] \in Nat /\ size \in Nat /\ i \in Nat
    BY DEF IInv, Types
  <2> HIDE DEF end
  <2> QED  BY <1>1, <2>1
<1>4. data' \in [0 .. size - 1 -> Nat]
  <2> HIDE DEF byte
  <2> QED  BY <1>2, <1>3
<1>5. spoiled' \in BOOLEAN
  BY <1>2, Zenon
<1>6. Types' /\ Closed'
  <2> HIDE DEF end
  <2>1. Types'
    BY <1>1, <1>2, <1>4, <1>5 DEF IInv, Types
  <2>2. Closed'
    BY <1>2 DEF IInv, Closed
  <2> QED  BY <2>1, <2>2
<1>7. ASSUME ~spoiled'  PROVE (Filled /\ Alone)'
  <2>1. ~spoiled /\ ~(end > size)
    BY <1>2, <1>7, Zenon
  <2>2. Filled /\ end <= size
    BY <1>1, <2>1 DEF IInv, Types, Contents
  <2>3. ASSUME NEW i \in readIndex .. end - 1  PROVE data'[i] = i + 1
    <3>1. i \in 0 .. size - 1 /\ ~(i < end - size)
      BY <1>1, <2>2, <2>3 DEF IInv, Types
    <3>2. byte(i) = i + 1
      <4>1. CASE i < writeIndex
        <5>1. i \in readIndex .. writeIndex - 1 /\ i \notin writeIndex .. end - 1
          BY <1>1, <4>1 DEF IInv, Types
        <5>2. data[i] = i + 1
          BY <2>2, <5>1 DEF Filled
        <5> QED  BY <3>1, <5>1, <5>2
      <4>2. CASE i >= writeIndex
        BY <1>1, <2>2, <3>1, <4>2 DEF IInv, Types
      <4> QED  BY <3>1, <4>1, <4>2 DEF IInv, Types
    <3> HIDE DEF byte
    <3> QED  BY <1>2, <3>1, <3>2
  <2>4. readIndex <= end
    BY <1>1, <2>2 DEF Filled, IInv, Types
  <2>5. Filled'
    BY <1>2, <2>2, <2>3, <2>4 DEF Filled
  <2> QED  BY <1>2, <2>5 DEF Alone
<1> QED  BY <1>6, <1>7 DEF IInv, Contents

LEMMA ResizeStep ==
    ASSUME IInv, AdjustCacheSize
    PROVE  IInv'
<1>1. ASSUME NEW m \in Int  PROVE Clamped(m) \in Nat
  BY SizesAssumption DEF Clamped, Least
<1>2. size' \in Nat
  <2>1. (size * 3) \div 2 \in Int /\ (size * 4) \div 5 \in Int
    BY DEF IInv, Types
  <2> QED  BY <1>1, <2>1 DEF AdjustCacheSize
<1>3. /\ data' = [i \in 0 .. size' - 1 |-> IF i < size THEN data[i] ELSE 0]
      /\ spoiled' = (spoiled \/ size' < writeIndex)
      /\ UNCHANGED <<readIndex, writeIndex, copied, isClosed, closer>>
      /\ task["adaptive"] = "busy"
      /\ task' = [task EXCEPT !["adaptive"] = "select"]
  BY DEF AdjustCacheSize, Resized, index
<1>4. data' \in [0 .. size' - 1 -> Nat]
  <2> SUFFICES ASSUME NEW i \in 0 .. size' - 1
               PROVE  (IF i < size THEN data[i] ELSE 0) \in Nat
    BY <1>3
  <2> QED  BY <1>2 DEF IInv, Types
<1>5. spoiled' \in BOOLEAN
  BY <1>3, Zenon
<1>6. Types'
  BY <1>2, <1>3, <1>4, <1>5 DEF IInv, Types
<1>7. Closed'
  <2>1. closer \notin {"locking", "closed"}
    BY <1>3 DEF Tasks, IInv, Closed
  <2> QED  BY <1>3, <2>1 DEF IInv, Closed
<1>8. ASSUME ~spoiled'  PROVE (Filled /\ Alone)'
  <2>1. ~spoiled /\ ~(size' < writeIndex)
    BY <1>3, <1>8, Zenon
  <2>2. Filled /\ Alone /\ writeIndex <= size'
    BY <1>2, <2>1 DEF IInv, Types, Contents
  <2>3. ASSUME NEW i \in readIndex .. writeIndex - 1  PROVE data'[i] = i + 1
    <3>1. PICK m \in Nat : m = size'
      BY <1>2
    <3>2. /\ writeIndex <= size /\ writeIndex <= m
          /\ size \in Nat /\ readIndex \in Nat /\ writeIndex \in Nat
      BY <1>2, <2>2, <3>1 DEF Filled, IInv, Types
    <3>3. i \in 0 .. m - 1 /\ i < size
      BY <3>2
    <3>4. data'[i] = data[i]
      BY <1>3, <3>1, <3>3
    <3> QED  BY <2>2, <3>4 DEF Filled
  <2>4. Filled'
    BY <1>3, <2>2, <2>3 DEF Filled
  <2>5. Alone'
    BY <1>3, <2>2 DEF Alone
  <2> QED  BY <2>4, <2>5
<1> QED  BY <1>6, <1>7, <1>8 DEF IInv, Contents

\* What leaves the contents alone.
LEMMA TaskStep ==
    ASSUME IInv, StartBackgroundTasks \/ \E t \in Tasks : Task(t)
    PROVE  IInv'
<1> USE DEF IInv, Types, Contents, Filled, Alone, Closed, index
<1>1. CASE StartBackgroundTasks
  BY <1>1 DEF StartBackgroundTasks
<1>2. ASSUME NEW t \in Tasks, Task(t)  PROVE IInv'
  <2>1. CASE TaskFires(t)  BY <2>1 DEF TaskFires
  <2>2. CASE TaskEnds(t)   BY <2>2 DEF TaskEnds
  <2>3. CASE Round(t)      BY <2>3 DEF Round
  <2> QED  BY <1>2, <2>1, <2>2, <2>3 DEF Task
<1> QED  BY <1>1, <1>2

LEMMA CloseStep ==
    ASSUME IInv, CloseStarts \/ Closing
    PROVE  IInv'
<1> USE DEF IInv, Types, Contents, Filled, Alone, Closed, index
<1>1. CASE CloseStarts   BY <1>1 DEF CloseStarts
<1>2. CASE CloseCancels  BY <1>2 DEF CloseCancels
<1>3. CASE CloseWaited   BY <1>3 DEF CloseWaited
<1>4. CASE CloseEnds     BY <1>4 DEF CloseEnds, MuFree, Inside
<1> QED  BY <1>1, <1>2, <1>3, <1>4 DEF Closing

LEMMA Invariance == Spec => []IInv
<1>1. IInv /\ [Next]_vars => IInv'
  <2> SUFFICES ASSUME IInv, [Next]_vars  PROVE IInv'
    OBVIOUS
  <2>1. CASE Reset
    <3>1. /\ readIndex' = 0 /\ writeIndex' = 0 /\ spoiled' = FALSE
          /\ UNCHANGED <<data, size, copied, isClosed, closer, task>>
          /\ \A c \in Readers : copied[c] = 0
      BY <2>1 DEF Reset, MuFree, Inside
    <3>2. Types' /\ Closed'
      BY <3>1 DEF IInv, Types, Closed
    <3>3. Filled'
      BY <3>1 DEF IInv, Types, Filled
    <3> QED  BY <3>1, <3>2, <3>3 DEF IInv, Contents, Alone
  <2>2. CASE UNCHANGED vars
    BY <2>2 DEF vars, index, IInv, Types, Contents, Filled, Alone, Closed
  <2> QED
    BY <2>1, <2>2, ReadStep, ReadEndsStep, WriteStep, ResizeStep, TaskStep, CloseStep
       DEF Next
<1> QED  BY Initially, <1>1, PTL DEF Spec

------------------------------------------------------------------------------
(* The theorems *)

\* What a Read copies while no other does, and its advance of the index, is what
\* was written, in order, as long as nothing passes the end (Read, Write,
\* resizeBuffer).
THEOREM ReadsRight == Spec => []LoneReadsRight
<1>1. IInv => LoneReadsRight
  BY DEF IInv, Contents, Filled, Alone, LoneReadsRight, Inside
<1> QED  BY <1>1, Invariance, PTL

\* Close returns after the last Read and the last task (Close,
\* StopBackgroundTasks).
THEOREM CloseQuiet == Spec => []ClosedIsQuiet
<1>1. IInv => ClosedIsQuiet
  BY DEF IInv, Closed, ClosedIsQuiet, Inside
<1> QED  BY <1>1, Invariance, PTL

\* The tasks that have not ended.
AtWork == {t \in Tasks : task[t] \notin {"off", "ended"}}

\* Close only goes forward, and what it waits for does not come back: no Read
\* and no task joins those that were there when the buffer was flagged, and once
\* the context is cancelled the prefetch fetches no more (Close,
\* StopBackgroundTasks).
THEOREM CloseDrains ==
    Spec => /\ [][isClosed => Inside' \subseteq Inside /\ AtWork' \subseteq AtWork]_vars
            /\ [][Cancelled /\ task["prefetch"] # "busy" => task'["prefetch"] # "busy"]_vars
            /\ [][\/ closer' = closer
                  \/ <<closer, closer'>> \in {<<"open", "flagged">>, <<"flagged", "waiting">>,
                                              <<"waiting", "locking">>, <<"locking", "closed">>}]_vars
<1>1. ASSUME IInv, Next, isClosed
      PROVE  Inside' \subseteq Inside /\ AtWork' \subseteq AtWork
  <2>1. closer # "open" /\ copied \in [Readers -> Nat]
        /\ task \in [Tasks -> {"off", "select", "busy", "ended"}]
    BY <1>1 DEF IInv, Types, Closed
  <2>2. ASSUME NEW c \in Readers, ReadEnds(c)
        PROVE  Inside' \subseteq Inside /\ AtWork' = AtWork
    BY <2>1, <2>2 DEF ReadEnds, Inside, AtWork
  <2>3. ASSUME NEW t \in Tasks, Task(t)
        PROVE  Inside' = Inside /\ AtWork' \subseteq AtWork
    BY <2>1, <2>3 DEF Task, TaskFires, TaskEnds, Round, Inside, AtWork
  <2>4. CASE AdjustCacheSize
    BY <2>1, <2>4 DEF AdjustCacheSize, Inside, AtWork
  <2>5. CASE Reset \/ Closing \/ CloseStarts
    BY <2>5 DEF Reset, Closing, CloseCancels, CloseWaited, CloseEnds, CloseStarts, Inside, AtWork
  <2>6. /\ ~StartBackgroundTasks
        /\ \A c \in Readers : \A n \in 1 .. MaxBytes : ~Read(c, n)
        /\ \A n \in 0 .. MaxBytes : ~Write(n)
    BY <1>1, <2>1 DEF StartBackgroundTasks, Read, Write
  <2> QED  BY <1>1, <2>2, <2>3, <2>4, <2>5, <2>6 DEF Next
<1>2. ASSUME IInv, Next, Cancelled, task["prefetch"] # "busy"
      PROVE  task'["prefetch"] # "busy"
  <2>1. /\ closer # "open" /\ "prefetch" \in Tasks /\ "prefetch" # "adaptive"
        /\ task \in [Tasks -> {"off", "select", "busy", "ended"}]
    BY <1>2 DEF IInv, Types, Cancelled, Tasks
  <2>2. ASSUME NEW t \in Tasks, Task(t)  PROVE task'["prefetch"] # "busy"
    <3>1. CASE t = "prefetch"
      BY <1>2, <2>1, <2>2, <3>1 DEF Task, TaskFires, TaskEnds, Round
    <3>2. CASE t # "prefetch"
      BY <1>2, <2>1, <2>2, <3>2 DEF Task, TaskFires, TaskEnds, Round
    <3> QED  BY <3>1, <3>2
  <2>3. CASE AdjustCacheSize
    BY <1>2, <2>1, <2>3 DEF AdjustCacheSize
  <2>4. ASSUME \/ Reset \/ Closing \/ CloseStarts
               \/ \E c \in Readers : ReadEnds(c) \/ \E n \in 1 .. MaxBytes : Read(c, n)
               \/ \E n \in 0 .. MaxBytes : Write(n)
        PROVE  task' = task
    BY <2>4 DEF Reset, Closing, CloseCancels, CloseWaited, CloseEnds, CloseStarts, ReadEnds,
                Read, Write
  <2>5. ~StartBackgroundTasks
    BY <2>1 DEF StartBackgroundTasks
  <2> QED  BY <1>2, <2>2, <2>3, <2>4, <2>5 DEF Next
<1>3. ASSUME IInv, Next
      PROVE  \/ closer' = closer
             \/ <<closer, closer'>> \in {<<"open", "flagged">>, <<"flagged", "waiting">>,
                                         <<"waiting", "locking">>, <<"locking", "closed">>}
  <2>1. CASE Closing \/ CloseStarts
    BY <1>3, <2>1 DEF Closing, CloseCancels, CloseWaited, CloseEnds, CloseStarts, IInv, Closed
  <2>2. CASE ~(Closing \/ CloseStarts)
    BY <1>3, <2>2 DEF Next, ReadEnds, Read, Write, Reset, StartBackgroundTasks, AdjustCacheSize,
                      Task, TaskFires, TaskEnds, Round
  <2> QED  BY <2>1, <2>2
<1>4. IInv /\ [Next]_vars =>
        /\ [isClosed => Inside' \subseteq Inside /\ AtWork' \subseteq AtWork]_vars
        /\ [Cancelled /\ task["prefetch"] # "busy" => task'["prefetch"] # "busy"]_vars
        /\ [\/ closer' = closer
            \/ <<closer, closer'>> \in {<<"open", "flagged">>, <<"flagged", "waiting">>,
                                        <<"waiting", "locking">>, <<"locking", "closed">>}]_vars
  BY <1>1, <1>2, <1>3
<1> QED  BY Invariance, <1>4, PTL DEF Spec
==============================================================================
