---------------------------- MODULE QueueProofs ----------------------------
(***************************************************************************)
(* The publish queue for every number of events and every queue size: its  *)
(* type, its files and their numbers, that it implements the event store,  *)
(* and the order in which events arrive.                                   *)
(***************************************************************************)
EXTENDS PublishQueue, FiniteSetTheorems, SequenceTheorems, TLAPS

-----------------------------------------------------------------------------
(* The inductive invariant.                                                *)

(* Every file is in the queue, no number is in it twice or above top.      *)
Queued(files, queue, top) ==
    /\ DOMAIN files \subseteq Range(queue)
    /\ \A i, j \in DOMAIN queue : queue[i] = queue[j] => i = j
    /\ \A i \in DOMAIN queue : queue[i] <= top

(* Of two files in the queue the second holds the newer event, unless the  *)
(* first comes from before the boot.                                       *)
Ordered(files, queue, mark) ==
    \A i, j \in DOMAIN queue :
        /\ i < j
        /\ queue[i] \in DOMAIN files /\ files[queue[i]] # Corrupt
        /\ queue[j] \in DOMAIN files /\ files[queue[j]] # Corrupt
        => files[queue[i]] <= mark \/ files[queue[i]] < files[queue[j]]

(* What is on flash has been published.                                    *)
Stored(files, last) == \A n \in DOMAIN files : files[n] \in 1..last \cup {Corrupt}

FilesInv ==
    /\ fileQueue \in Seq(1..MaxEvents) /\ Len(fileQueue) <= FileQueueSize
    /\ lastFileNum \in 0..published /\ published \in 0..MaxEvents
    /\ bootMark \in 0..published
    /\ Queued(disk, fileQueue, lastFileNum)
    /\ Ordered(disk, fileQueue, bootMark)
    /\ Stored(disk, published)

(* What the sending thread and the queue's loop know of each other, with   *)
(* the callback between them: the loop never takes the result of one event *)
(* for that of another.                                                    *)
SendingInv ==
    /\ sentEvent \in 0..published /\ arrived \subseteq 1..published
    /\ sending = "requested" => sentEvent > 0
    /\ sending \in {"sent", "completing"} /\ acknowledged => sentEvent \in arrived
    /\ stateHandler = "wait" /\ delayOver => sending = "idle"
    /\ stateHandler = "publishWait" =>
          /\ curEvent = sentEvent /\ curFileNum <= lastFileNum
          /\ curFileNum \in DOMAIN disk => disk[curFileNum] = sentEvent
          /\ publishSuccess => sentEvent \in arrived

(* Nothing older than the event sent last is kept, but for what comes from *)
(* before the boot.                                                        *)
SentInv ==
    sentEvent > bootMark =>
        \A n \in DOMAIN disk : disk[n] # Corrupt => sentEvent <= disk[n]

FlagsInv ==
    /\ stateHandler \in Handlers /\ delayOver \in BOOLEAN
    /\ curFileNum \in 0..MaxEvents /\ curEvent \in Events \cup {0}
    /\ publishComplete \in BOOLEAN /\ publishSuccess \in BOOLEAN
    /\ canSleep \in BOOLEAN /\ pausePublishing \in BOOLEAN
    /\ sending \in SenderStates
    /\ acknowledged \in BOOLEAN /\ connected \in BOOLEAN

QueueInv == FilesInv /\ SendingInv /\ SentInv /\ FlagsInv

-----------------------------------------------------------------------------
(* The queue and its files.                                                *)

(* How far the queue is over its limit.                                    *)
LEMMA ExcessBounds ==
    ASSUME NEW S, NEW queue \in Seq(S)
    PROVE /\ Excess(queue) \in 0..Len(queue)
          /\ Len(queue) - Excess(queue) <= FileQueueSize
          /\ Len(queue) <= FileQueueSize => Excess(queue) = 0
          /\ Len(queue) <= FileQueueSize + 1 => Excess(queue) <= 1
<1>1. Len(queue) \in Nat
  BY LenProperties
<1> QED
  BY <1>1, QueueAssumption DEF Excess

(* What the limit leaves: the end of the queue, and the files in it.       *)
LEMMA LimitsLeave ==
    ASSUME NEW files, NEW S, NEW queue \in Seq(S), checkQueueLimits(files, queue)
    PROVE \E x \in 0..Len(queue) :
          /\ x = Excess(queue)
          /\ Len(queue) - x <= FileQueueSize
          /\ Len(queue) \in Nat /\ DOMAIN queue = 1..Len(queue)
          /\ fileQueue' \in Seq(S)
          /\ DOMAIN fileQueue' = 1..Len(queue) - x /\ Len(fileQueue') = Len(queue) - x
          /\ \A i \in 1..Len(queue) - x : fileQueue'[i] = queue[i + x]
          /\ \A n : n \in DOMAIN disk' <=>
                      n \in DOMAIN files /\ \A i \in 1..x : n # queue[i]
          /\ \A n \in DOMAIN disk' : disk'[n] = files[n]
<1>1. Len(queue) \in Nat /\ DOMAIN queue = 1..Len(queue)
  BY LenProperties
<1>2. PICK x \in 0..Len(queue) : x = Excess(queue) /\ Len(queue) - x <= FileQueueSize
  BY ExcessBounds
<1>3. \A i \in x + 1..Len(queue) : queue[i] \in S
  BY <1>1, ElementOfSeq
<1>4. fileQueue' = SubSeq(queue, x + 1, Len(queue))
  BY <1>2 DEF checkQueueLimits
<1>5. /\ fileQueue' \in Seq(S)
      /\ Len(fileQueue') = Len(queue) - x
      /\ \A i \in 1..Len(queue) - x : fileQueue'[i] = queue[i + x]
  <2>1. x + 1 \in Int /\ Len(queue) \in Int
    BY <1>1
  <2>2. /\ fileQueue' \in Seq(S)
        /\ Len(fileQueue') = IF x + 1 <= Len(queue) THEN Len(queue) - (x + 1) + 1 ELSE 0
        /\ \A i \in 1..Len(queue) - (x + 1) + 1 : fileQueue'[i] = queue[(x + 1) + i - 1]
    BY <1>3, <1>4, <2>1, SubSeqProperties
  <2>3. Len(queue) - (x + 1) + 1 = Len(queue) - x
    BY <1>1
  <2>4. ASSUME NEW i \in 1..Len(queue) - x
        PROVE (x + 1) + i - 1 = i + x
    BY <1>1
  <2>5. Len(fileQueue') = Len(queue) - x
    BY <1>1, <2>2
  <2> QED
    BY <2>2, <2>3, <2>4, <2>5
<1>6. DOMAIN fileQueue' = 1..Len(queue) - x
  BY <1>5, LenProperties
<1>7. disk' = [n \in DOMAIN files \ {queue[i] : i \in 1..x} |-> files[n]]
  BY <1>2 DEF checkQueueLimits, removeFiles
<1> QED
  BY <1>1, <1>2, <1>5, <1>6, <1>7

(* The limit leaves no file out of the queue and no number twice in it.    *)
LEMMA LimitsKeepQueued ==
    ASSUME NEW files, NEW S, NEW queue \in Seq(S), NEW top \in Nat,
           checkQueueLimits(files, queue), Queued(files, queue, top)
    PROVE Queued(disk', fileQueue', top) /\ Len(fileQueue') <= FileQueueSize
<1>1. PICK x \in 0..Len(queue) :
          /\ Len(queue) - x <= FileQueueSize
          /\ Len(queue) \in Nat /\ DOMAIN queue = 1..Len(queue)
          /\ DOMAIN fileQueue' = 1..Len(queue) - x /\ Len(fileQueue') = Len(queue) - x
          /\ \A i \in 1..Len(queue) - x : fileQueue'[i] = queue[i + x]
          /\ \A n : n \in DOMAIN disk' <=>
                      n \in DOMAIN files /\ \A i \in 1..x : n # queue[i]
  BY LimitsLeave
<1>2. ASSUME NEW n \in DOMAIN disk' PROVE n \in Range(fileQueue')
  <2>1. PICK i \in 1..Len(queue) : n = queue[i]
    BY <1>1, <1>2 DEF Queued, Range
  <2>2. i \notin 1..x
    BY <1>1, <1>2, <2>1
  <2>3. i - x \in 1..Len(queue) - x /\ (i - x) + x = i
    BY <1>1, <2>2
  <2> QED
    BY <1>1, <2>1, <2>3 DEF Range
<1>3. ASSUME NEW i \in DOMAIN fileQueue', NEW j \in DOMAIN fileQueue',
             fileQueue'[i] = fileQueue'[j]
      PROVE i = j
  <2>1. i + x \in DOMAIN queue /\ j + x \in DOMAIN queue
    BY <1>1
  <2>2. i + x = j + x
    BY <1>1, <1>3, <2>1 DEF Queued
  <2> QED
    BY <1>1, <2>2
<1>4. ASSUME NEW i \in DOMAIN fileQueue' PROVE fileQueue'[i] <= top
  <2>1. i + x \in DOMAIN queue
    BY <1>1
  <2> QED
    BY <1>1, <2>1 DEF Queued
<1> QED
  BY <1>1, <1>2, <1>3, <1>4 DEF Queued

(* Nor does it change the order.                                           *)
LEMMA LimitsKeepOrder ==
    ASSUME NEW files, NEW S, NEW queue \in Seq(S), NEW mark,
           checkQueueLimits(files, queue), Ordered(files, queue, mark)
    PROVE Ordered(disk', fileQueue', mark)
<1>1. PICK x \in 0..Len(queue) :
          /\ Len(queue) \in Nat /\ DOMAIN queue = 1..Len(queue)
          /\ DOMAIN fileQueue' = 1..Len(queue) - x
          /\ \A i \in 1..Len(queue) - x : fileQueue'[i] = queue[i + x]
          /\ \A n \in DOMAIN disk' : n \in DOMAIN files /\ disk'[n] = files[n]
  BY LimitsLeave
<1> SUFFICES ASSUME NEW i \in DOMAIN fileQueue', NEW j \in DOMAIN fileQueue', i < j,
                    fileQueue'[i] \in DOMAIN disk', disk'[fileQueue'[i]] # Corrupt,
                    fileQueue'[j] \in DOMAIN disk', disk'[fileQueue'[j]] # Corrupt
             PROVE \/ disk'[fileQueue'[i]] <= mark
                   \/ disk'[fileQueue'[i]] < disk'[fileQueue'[j]]
  BY DEF Ordered
<1>2. i + x \in DOMAIN queue /\ j + x \in DOMAIN queue /\ i + x < j + x
  BY <1>1
<1> QED
  BY <1>1, <1>2 DEF Ordered

(* A file is written under a number not in use.                            *)
LEMMA WriteAdds ==
    ASSUME NEW num, NEW e, NEW files \in writeFile(disk, num, e), num \notin DOMAIN disk
    PROVE /\ DOMAIN disk \subseteq DOMAIN files
          /\ DOMAIN files \subseteq DOMAIN disk \cup {num}
          /\ \A n \in DOMAIN disk : files[n] = disk[n]
          /\ num \in DOMAIN files => files[num] \in {e, Corrupt}
  BY DEF writeFile

(* The new file comes last in the queue.                                   *)
LEMMA AppendKeeps ==
    ASSUME FilesInv, published < MaxEvents,
           NEW files \in writeFile(disk, lastFileNum + 1, published + 1)
    PROVE LET queue == Append(fileQueue, lastFileNum + 1)
          IN  /\ queue \in Seq(1..MaxEvents) /\ Len(queue) = Len(fileQueue) + 1
              /\ Queued(files, queue, lastFileNum + 1)
              /\ Ordered(files, queue, bootMark)
              /\ Stored(files, published + 1)
<1> DEFINE queue == Append(fileQueue, lastFileNum + 1)
<1>1. lastFileNum + 1 \in 1..MaxEvents /\ published \in Nat /\ lastFileNum \in Nat
  BY QueueAssumption DEF FilesInv
<1>2. /\ queue \in Seq(1..MaxEvents) /\ Len(queue) = Len(fileQueue) + 1
      /\ \A i \in 1..Len(fileQueue) : queue[i] = fileQueue[i]
      /\ queue[Len(fileQueue) + 1] = lastFileNum + 1
  BY <1>1, AppendProperties DEF FilesInv
<1>3. /\ Len(fileQueue) \in Nat /\ DOMAIN fileQueue = 1..Len(fileQueue)
      /\ DOMAIN queue = 1..Len(fileQueue) + 1
  BY <1>2, LenProperties DEF FilesInv
<1> HIDE DEF queue
<1>4. \A i \in 1..Len(fileQueue) : fileQueue[i] <= lastFileNum /\ fileQueue[i] \in Nat
  <2>1. \A i \in 1..Len(fileQueue) : fileQueue[i] \in 1..MaxEvents
    BY ElementOfSeq DEF FilesInv
  <2> QED
    BY <1>3, <2>1 DEF FilesInv, Queued
<1>5. DOMAIN disk \subseteq {fileQueue[i] : i \in 1..Len(fileQueue)}
  BY <1>3 DEF FilesInv, Queued, Range
<1>6. lastFileNum + 1 \notin DOMAIN disk
  BY <1>1, <1>4, <1>5
<1>7. /\ DOMAIN files \subseteq DOMAIN disk \cup {lastFileNum + 1}
      /\ \A n \in DOMAIN disk : files[n] = disk[n]
      /\ lastFileNum + 1 \in DOMAIN files =>
            files[lastFileNum + 1] \in {published + 1, Corrupt}
  BY <1>6, WriteAdds
<1>8. Queued(files, queue, lastFileNum + 1)
  <2>1. ASSUME NEW n \in DOMAIN files PROVE n \in Range(queue)
    <3>1. CASE n = lastFileNum + 1
      BY <1>2, <1>3, <3>1 DEF Range
    <3>2. CASE n \in DOMAIN disk
      <4>1. PICK i \in 1..Len(fileQueue) : n = fileQueue[i]
        BY <1>5, <3>2
      <4> QED
        BY <1>2, <1>3, <4>1 DEF Range
    <3> QED
      BY <1>7, <3>1, <3>2
  <2>2. ASSUME NEW i \in DOMAIN queue, NEW j \in DOMAIN queue, queue[i] = queue[j]
        PROVE i = j
    <3>1. \A k, l \in 1..Len(fileQueue) : fileQueue[k] = fileQueue[l] => k = l
      BY <1>3 DEF FilesInv, Queued
    <3> QED
      BY <1>1, <1>2, <1>3, <1>4, <2>2, <3>1
  <2>3. ASSUME NEW i \in DOMAIN queue PROVE queue[i] <= lastFileNum + 1
    BY <1>1, <1>2, <1>3, <1>4
  <2> QED
    BY <2>1, <2>2, <2>3 DEF Queued
<1>9. Ordered(files, queue, bootMark)
  <2> SUFFICES ASSUME NEW i \in DOMAIN queue, NEW j \in DOMAIN queue, i < j,
                      queue[i] \in DOMAIN files, files[queue[i]] # Corrupt,
                      queue[j] \in DOMAIN files, files[queue[j]] # Corrupt
               PROVE \/ files[queue[i]] <= bootMark
                     \/ files[queue[i]] < files[queue[j]]
    BY DEF Ordered
  <2>1. i \in 1..Len(fileQueue) /\ queue[i] \in DOMAIN disk
    BY <1>1, <1>2, <1>3, <1>4, <1>7
  <2>2. files[queue[i]] \in 1..published
    BY <1>7, <2>1 DEF FilesInv, Stored
  <2>3. CASE j = Len(fileQueue) + 1
    BY <1>1, <1>2, <1>7, <2>2, <2>3
  <2>4. CASE j \in 1..Len(fileQueue)
    <3>1. queue[j] \in DOMAIN disk
      BY <1>1, <1>2, <1>4, <1>7, <2>4
    <3> QED
      BY <1>2, <1>3, <1>7, <2>1, <2>4, <3>1 DEF FilesInv, Ordered
  <2> QED
    BY <1>3, <2>3, <2>4
<1>10. Stored(files, published + 1)
  BY <1>1, <1>7 DEF FilesInv, Stored
<1> QED
  BY <1>2, <1>8, <1>9, <1>10 DEF queue

(* Taking the first file of the queue.                                     *)
LEMMA TakeKeeps ==
    ASSUME FilesInv, fileQueue # <<>>, TakeFile, UNCHANGED <<published, bootMark>>
    PROVE /\ FilesInv'
          /\ Head(fileQueue) \in 1..MaxEvents /\ Head(fileQueue) <= lastFileNum
          /\ DOMAIN disk' = DOMAIN disk \ {Head(fileQueue)}
          /\ \A n \in DOMAIN disk' : disk'[n] = disk[n]
<1>1. /\ Len(fileQueue) \in Nat /\ DOMAIN fileQueue = 1..Len(fileQueue)
      /\ Len(fileQueue) > 0
  BY LenProperties, EmptySeq DEF FilesInv
<1>2. /\ fileQueue' \in Seq(1..MaxEvents) /\ Len(fileQueue') = Len(fileQueue) - 1
      /\ \A i \in 1..Len(fileQueue') : fileQueue'[i] = fileQueue[i + 1]
      /\ Head(fileQueue) \in 1..MaxEvents
  BY HeadTailProperties DEF FilesInv, TakeFile
<1>3. DOMAIN fileQueue' = 1..Len(fileQueue) - 1
  BY <1>2, LenProperties
<1>4. Head(fileQueue) = fileQueue[1]
  BY <1>1, HeadTailProperties DEF FilesInv
<1>5. DOMAIN disk' = DOMAIN disk \ {Head(fileQueue)} /\ \A n \in DOMAIN disk' : disk'[n] = disk[n]
  BY DEF TakeFile, removeFiles
<1>6. \A i \in DOMAIN fileQueue' : /\ i + 1 \in DOMAIN fileQueue
                                   /\ fileQueue'[i] = fileQueue[i + 1]
  BY <1>1, <1>2, <1>3
<1>7. Queued(disk', fileQueue', lastFileNum)
  <2>1. ASSUME NEW n \in DOMAIN disk' PROVE n \in Range(fileQueue')
    <3>1. PICK i \in 1..Len(fileQueue) : n = fileQueue[i]
      BY <1>1, <1>5 DEF FilesInv, Queued, Range
    <3>2. i # 1
      BY <1>4, <1>5, <3>1
    <3>3. i - 1 \in DOMAIN fileQueue' /\ (i - 1) + 1 = i
      BY <1>1, <1>3, <3>2
    <3> QED
      BY <1>6, <3>1, <3>3 DEF Range
  <2>2. ASSUME NEW i \in DOMAIN fileQueue', NEW j \in DOMAIN fileQueue',
               fileQueue'[i] = fileQueue'[j]
        PROVE i = j
    <3>1. i + 1 = j + 1
      BY <1>6, <2>2 DEF FilesInv, Queued
    <3> QED
      BY <1>1, <1>3, <3>1
  <2>3. \A i \in DOMAIN fileQueue' : fileQueue'[i] <= lastFileNum
    BY <1>6 DEF FilesInv, Queued
  <2> QED
    BY <2>1, <2>2, <2>3 DEF Queued
<1>8. Ordered(disk', fileQueue', bootMark)
  <2> SUFFICES ASSUME NEW i \in DOMAIN fileQueue', NEW j \in DOMAIN fileQueue', i < j,
                      fileQueue'[i] \in DOMAIN disk', disk'[fileQueue'[i]] # Corrupt,
                      fileQueue'[j] \in DOMAIN disk', disk'[fileQueue'[j]] # Corrupt
               PROVE \/ disk'[fileQueue'[i]] <= bootMark
                     \/ disk'[fileQueue'[i]] < disk'[fileQueue'[j]]
    BY DEF Ordered
  <2>1. i + 1 < j + 1
    BY <1>1, <1>3
  <2> QED
    BY <1>5, <1>6, <2>1 DEF FilesInv, Ordered
<1>9. Stored(disk', published)
  BY <1>5 DEF FilesInv, Stored
<1>10. Head(fileQueue) <= lastFileNum
  BY <1>1, <1>4 DEF FilesInv, Queued
<1>11. UNCHANGED lastFileNum /\ Len(fileQueue') <= FileQueueSize
  BY <1>1, <1>2, QueueAssumption DEF FilesInv, TakeFile
<1> QED
  BY <1>2, <1>5, <1>7, <1>8, <1>9, <1>10, <1>11 DEF FilesInv

(* A set of numbers with a bound has a greatest element.                   *)
LEMMA MaxIsGreatest ==
    ASSUME NEW top \in Nat, NEW T \in SUBSET (1..top), T # {}
    PROVE Max(T) \in T /\ \A n \in T : n <= Max(T)
<1> DEFINE D == {top - n : n \in T}
<1>1. D \subseteq Nat /\ D # {}
  <2>1. PICK m \in T : TRUE
    OBVIOUS
  <2>2. top - m \in D
    BY <2>1
  <2>3. ASSUME NEW n \in T PROVE top - n \in Nat
    OBVIOUS
  <2> QED
    BY <2>2, <2>3
<1>2. \E x \in D : \A y \in D : ~(<<y, x>> \in OpToRel(<, Nat))
  BY <1>1, NatLessThanWellFounded, WFMin
<1>3. \E x \in D : \A y \in D : ~(y < x)
  BY <1>1, <1>2 DEF OpToRel
<1>4. \E m \in T : \A n \in T : m >= n
  BY <1>3
<1> QED
  BY <1>4 DEF Max

(* The files found at a boot are queued in some order, each once.          *)
LEMMA OrderQueues ==
    ASSUME NEW files, NEW top \in Nat, DOMAIN files \subseteq 1..top,
           NEW order \in SetToSeqs(DOMAIN files)
    PROVE /\ order \in Seq(1..top)
          /\ Len(order) = Cardinality(DOMAIN files)
          /\ Queued(files, order, top)
<1> DEFINE F == DOMAIN files
           N == Cardinality(F)
<1>1. IsFiniteSet(F) /\ N \in Nat
  <2>1. IsFiniteSet(1..top)
    BY FS_Interval
  <2>2. IsFiniteSet(F)
    BY <2>1, FS_Subset
  <2> QED
    BY <2>2, FS_CardinalityType
<1>2. order \in [1..N -> F] /\ \A i, j \in 1..N : i # j => order[i] # order[j]
  BY DEF SetToSeqs
<1>3. order \in Seq(1..top) /\ Len(order) = N
  BY <1>1, <1>2
<1>4. order \in Injection(1..N, F)
  BY <1>2 DEF Injection, IsInjective
<1>5. Cardinality(1..N) = N
  BY <1>1, FS_Interval
<1>6. order \in Surjection(1..N, F)
  BY <1>1, <1>4, <1>5, FS_Injection
<1>7. F \subseteq Range(order)
  BY <1>2, <1>6 DEF Surjection, Range
<1> QED
  BY <1>2, <1>3, <1>7 DEF Queued

(* What scanDir makes of the files: after it, the files left are queued.   *)
LEMMA ScanQueues ==
    ASSUME NEW files, NEW top \in Nat, top <= MaxEvents,
           DOMAIN files \subseteq 1..top, scanDir(files)
    PROVE /\ fileQueue' \in Seq(1..MaxEvents) /\ Len(fileQueue') <= FileQueueSize
          /\ lastFileNum' \in 0..top
          /\ Queued(disk', fileQueue', lastFileNum')
          /\ DOMAIN disk' \subseteq DOMAIN files
          /\ \A n \in DOMAIN disk' : disk'[n] = files[n]
<1>1. lastFileNum' \in 0..top /\ \A n \in DOMAIN files : n <= lastFileNum'
  <2>1. CASE DOMAIN files = {}
    BY <2>1 DEF scanDir
  <2>2. CASE DOMAIN files # {}
    <3>1. Max(DOMAIN files) \in DOMAIN files /\ \A n \in DOMAIN files : n <= Max(DOMAIN files)
      BY <2>2, MaxIsGreatest
    <3>2. lastFileNum' = Max(DOMAIN files)
      BY <2>2 DEF scanDir
    <3> QED
      BY <3>1, <3>2
  <2> QED
    BY <2>1, <2>2
<1>2. PICK order \in SetToSeqs(DOMAIN files) : checkQueueLimits(files, order)
  BY DEF scanDir
<1>3. order \in Seq(1..top) /\ Queued(files, order, top)
  BY <1>2, OrderQueues
<1>4. order \in Seq(1..MaxEvents)
  BY <1>3, SeqMonotonic, QueueAssumption
<1>5. Range(order) \subseteq DOMAIN files
  BY <1>2 DEF SetToSeqs, Range
<1>6. Queued(files, order, lastFileNum')
  BY <1>1, <1>3, <1>5 DEF Queued, Range
<1>7. Queued(disk', fileQueue', lastFileNum') /\ Len(fileQueue') <= FileQueueSize
  BY <1>1, <1>2, <1>4, <1>6, LimitsKeepQueued
<1>8. /\ fileQueue' \in Seq(1..MaxEvents)
      /\ DOMAIN disk' \subseteq DOMAIN files
      /\ \A n \in DOMAIN disk' : disk'[n] = files[n]
  BY <1>2, <1>4, LimitsLeave
<1> QED
  BY <1>1, <1>7, <1>8

(* With one file too many the oldest goes, else none.                      *)
LEMMA LimitsDisplace ==
    ASSUME NEW files, NEW S, NEW queue \in Seq(S), checkQueueLimits(files, queue)
    PROVE /\ Len(queue) <= FileQueueSize => DOMAIN disk' = DOMAIN files
          /\ Len(queue) <= FileQueueSize + 1 =>
                \/ DOMAIN disk' = DOMAIN files
                \/ \E n \in DOMAIN files : DOMAIN disk' = DOMAIN files \ {n}
          /\ \A n \in DOMAIN disk' : disk'[n] = files[n]
<1>1. PICK x \in 0..Len(queue) :
          /\ x = Excess(queue) /\ Len(queue) \in Nat
          /\ \A n : n \in DOMAIN disk' <=>
                      n \in DOMAIN files /\ \A i \in 1..x : n # queue[i]
          /\ \A n \in DOMAIN disk' : disk'[n] = files[n]
  BY LimitsLeave
<1>2. /\ Len(queue) <= FileQueueSize => x = 0
      /\ Len(queue) <= FileQueueSize + 1 => x = 0 \/ x = 1
  BY <1>1, ExcessBounds
<1>3. ASSUME x = 0 PROVE DOMAIN disk' = DOMAIN files
  <2>1. \A i \in 1..x : FALSE
    BY <1>3
  <2>2. \A n : n \in DOMAIN disk' <=> n \in DOMAIN files
    BY <1>1, <2>1
  <2> QED
    BY <2>2
<1>4. ASSUME x = 1
      PROVE \/ DOMAIN disk' = DOMAIN files
            \/ \E n \in DOMAIN files : DOMAIN disk' = DOMAIN files \ {n}
  <2>1. \A n : n \in DOMAIN disk' <=> n \in DOMAIN files /\ n # queue[1]
    BY <1>1, <1>4
  <2>2. DOMAIN disk' = DOMAIN files \ {queue[1]}
    BY <2>1
  <2>3. CASE queue[1] \in DOMAIN files
    BY <2>2, <2>3
  <2>4. CASE queue[1] \notin DOMAIN files
    BY <2>2, <2>4
  <2> QED
    BY <2>3, <2>4
<1> QED
  BY <1>1, <1>2, <1>3, <1>4

(* The queue holds its files to its size.                                  *)
LEMMA FewFiles ==
    ASSUME NEW top, Queued(disk, fileQueue, top),
           fileQueue \in Seq(1..MaxEvents), Len(fileQueue) <= FileQueueSize
    PROVE /\ IsFiniteSet(DOMAIN disk)
          /\ Cardinality(DOMAIN disk) <= FileQueueSize
<1>1. Len(fileQueue) \in Nat /\ DOMAIN fileQueue = 1..Len(fileQueue)
  BY LenProperties
<1>2. fileQueue \in [1..Len(fileQueue) -> Range(fileQueue)]
  BY <1>1 DEF Range
<1>3. fileQueue \in Surjection(1..Len(fileQueue), Range(fileQueue))
  BY <1>1, <1>2 DEF Surjection, Range
<1>4. IsFiniteSet(1..Len(fileQueue)) /\ Cardinality(1..Len(fileQueue)) = Len(fileQueue)
  BY <1>1, FS_Interval
<1>5. IsFiniteSet(Range(fileQueue)) /\ Cardinality(Range(fileQueue)) <= Len(fileQueue)
  BY <1>3, <1>4, FS_Surjection
<1>6. IsFiniteSet(DOMAIN disk) /\ Cardinality(DOMAIN disk) <= Cardinality(Range(fileQueue))
  BY <1>5, FS_Subset DEF Queued
<1>7. Cardinality(DOMAIN disk) \in Nat /\ Cardinality(Range(fileQueue)) \in Nat
  BY <1>5, <1>6, FS_CardinalityType
<1> QED
  BY <1>1, <1>5, <1>6, <1>7, QueueAssumption

(* A file more is one number more.                                         *)
LEMMA WriteCounts ==
    ASSUME FilesInv, NEW files \in writeFile(disk, lastFileNum + 1, published + 1)
    PROVE /\ Cardinality(DOMAIN files) <= FileQueueSize + 1
          /\ DOMAIN files \subseteq 1..lastFileNum + 1
          /\ lastFileNum + 1 \notin DOMAIN disk
<1>1. lastFileNum \in Nat /\ fileQueue \in Seq(1..MaxEvents)
  BY QueueAssumption DEF FilesInv
<1>2. ASSUME NEW n \in DOMAIN disk PROVE n \in 1..lastFileNum
  <2>1. PICK i \in DOMAIN fileQueue : n = fileQueue[i]
    BY DEF FilesInv, Queued, Range
  <2>2. fileQueue[i] \in 1..MaxEvents /\ fileQueue[i] <= lastFileNum
    BY <1>1, <2>1, ElementOfSeq, LenProperties DEF FilesInv, Queued
  <2> QED
    BY <1>1, <2>1, <2>2, QueueAssumption
<1>3. lastFileNum + 1 \notin DOMAIN disk
  BY <1>1, <1>2
<1>4. IsFiniteSet(DOMAIN disk) /\ Cardinality(DOMAIN disk) <= FileQueueSize
  BY FewFiles DEF FilesInv
<1>5. Cardinality(DOMAIN disk \cup {lastFileNum + 1}) = Cardinality(DOMAIN disk) + 1
  BY <1>3, <1>4, FS_AddElement
<1>6. DOMAIN files = DOMAIN disk \/ DOMAIN files = DOMAIN disk \cup {lastFileNum + 1}
  BY DEF writeFile
<1>7. DOMAIN files \subseteq 1..lastFileNum + 1
  BY <1>1, <1>2, <1>6
<1>8. Cardinality(DOMAIN files) <= FileQueueSize + 1
  BY <1>4, <1>5, <1>6, FS_CardinalityType, QueueAssumption
<1> QED
  BY <1>3, <1>7, <1>8

-----------------------------------------------------------------------------
(* What the steps that write files do to them.                             *)

(* publish adds a file or not, and displaces one at most.                  *)
LEMMA PublishLeaves ==
    ASSUME FilesInv, publishCommon
    PROVE /\ FilesInv'
          /\ \E files \in writeFile(disk, lastFileNum + 1, published + 1) :
                /\ \/ DOMAIN disk' = DOMAIN files
                   \/ \E n \in DOMAIN files : DOMAIN disk' = DOMAIN files \ {n}
                /\ \A n \in DOMAIN disk' : disk'[n] = files[n]
          /\ \A n \in DOMAIN disk' :
                \/ n \in DOMAIN disk /\ disk'[n] = disk[n]
                \/ n = lastFileNum + 1 /\ disk'[n] \in {published + 1, Corrupt}
<1> DEFINE queue == Append(fileQueue, lastFileNum + 1)
<1>1. PICK files \in writeFile(disk, lastFileNum + 1, published + 1) :
          checkQueueLimits(files, queue)
  BY DEF publishCommon
<1>2. /\ published < MaxEvents /\ published' = published + 1
      /\ lastFileNum' = lastFileNum + 1 /\ bootMark' = bootMark
  BY DEF publishCommon, cloudVars
<1>3. /\ queue \in Seq(1..MaxEvents) /\ Len(queue) = Len(fileQueue) + 1
      /\ Queued(files, queue, lastFileNum + 1)
      /\ Ordered(files, queue, bootMark)
      /\ Stored(files, published + 1)
  BY <1>1, <1>2, AppendKeeps
<1> HIDE DEF queue
<1>4. /\ lastFileNum \in Nat /\ published \in Nat /\ lastFileNum <= published
      /\ Len(fileQueue) \in Nat /\ Len(fileQueue) <= FileQueueSize
      /\ bootMark \in 0..published
  BY LenProperties, QueueAssumption DEF FilesInv
<1>5. Queued(disk', fileQueue', lastFileNum + 1) /\ Len(fileQueue') <= FileQueueSize
  BY <1>1, <1>3, <1>4, LimitsKeepQueued
<1>6. Ordered(disk', fileQueue', bootMark)
  BY <1>1, <1>3, LimitsKeepOrder
<1>7. fileQueue' \in Seq(1..MaxEvents)
  BY <1>1, <1>3, LimitsLeave
<1>8. Len(queue) <= FileQueueSize + 1
  BY <1>3, <1>4, QueueAssumption
<1>9. /\ \/ DOMAIN disk' = DOMAIN files
         \/ \E n \in DOMAIN files : DOMAIN disk' = DOMAIN files \ {n}
      /\ \A n \in DOMAIN disk' : disk'[n] = files[n]
  BY <1>1, <1>3, <1>8, LimitsDisplace
<1>10. Stored(disk', published + 1)
  BY <1>3, <1>9 DEF Stored
<1>11. FilesInv'
  <2>1. lastFileNum' \in 0..published' /\ published' \in 0..MaxEvents
    BY <1>2, <1>4, QueueAssumption
  <2>2. bootMark' \in 0..published'
    BY <1>2, <1>4
  <2> QED
    BY <1>2, <1>5, <1>6, <1>7, <1>10, <2>1, <2>2 DEF FilesInv
<1>12. ASSUME NEW n \in DOMAIN disk'
       PROVE \/ n \in DOMAIN disk /\ disk'[n] = disk[n]
             \/ n = lastFileNum + 1 /\ disk'[n] \in {published + 1, Corrupt}
  <2>1. lastFileNum + 1 \notin DOMAIN disk
    BY <1>1, WriteCounts
  <2>2. /\ DOMAIN files \subseteq DOMAIN disk \cup {lastFileNum + 1}
        /\ \A k \in DOMAIN disk : files[k] = disk[k]
        /\ lastFileNum + 1 \in DOMAIN files =>
              files[lastFileNum + 1] \in {published + 1, Corrupt}
    BY <1>1, <2>1, WriteAdds
  <2>3. n \in DOMAIN files /\ disk'[n] = files[n]
    BY <1>9
  <2>4. CASE n \in DOMAIN disk
    BY <2>2, <2>3, <2>4
  <2>5. CASE n = lastFileNum + 1
    BY <2>2, <2>3, <2>5
  <2> QED
    BY <2>2, <2>3, <2>4, <2>5
<1> QED
  BY <1>1, <1>9, <1>11, <1>12

(* A boot loses nothing: the files left by the queue fit in it.            *)
LEMMA ResetLeaves ==
    ASSUME FilesInv, Reset
    PROVE /\ FilesInv'
          /\ DOMAIN disk' = DOMAIN disk
          /\ \A n \in DOMAIN disk' : disk'[n] = disk[n]
<1>1. /\ scanDir(disk) /\ UNCHANGED published /\ bootMark' = published
  BY DEF Reset, setup
<1>2. /\ lastFileNum \in Nat /\ lastFileNum <= MaxEvents
      /\ published \in 0..MaxEvents /\ lastFileNum \in 0..published
  BY QueueAssumption DEF FilesInv
<1>3. DOMAIN disk \subseteq 1..lastFileNum
  <2>1. disk \in writeFile(disk, lastFileNum + 1, published + 1)
    BY DEF writeFile
  <2>2. DOMAIN disk \subseteq 1..lastFileNum + 1 /\ lastFileNum + 1 \notin DOMAIN disk
    BY <2>1, WriteCounts
  <2> QED
    BY <1>2, <2>2
<1>4. /\ fileQueue' \in Seq(1..MaxEvents) /\ Len(fileQueue') <= FileQueueSize
      /\ lastFileNum' \in 0..lastFileNum
      /\ Queued(disk', fileQueue', lastFileNum')
      /\ \A n \in DOMAIN disk' : disk'[n] = disk[n]
  BY <1>1, <1>2, <1>3, ScanQueues
<1>5. PICK order \in SetToSeqs(DOMAIN disk) : checkQueueLimits(disk, order)
  BY <1>1 DEF scanDir
<1>6. order \in Seq(1..lastFileNum) /\ Len(order) = Cardinality(DOMAIN disk)
  BY <1>2, <1>3, <1>5, OrderQueues
<1>7. Cardinality(DOMAIN disk) <= FileQueueSize
  BY FewFiles DEF FilesInv
<1>8. DOMAIN disk' = DOMAIN disk
  BY <1>5, <1>6, <1>7, LimitsDisplace
<1>9. Stored(disk', published)
  BY <1>4, <1>8 DEF FilesInv, Stored
<1>10. Ordered(disk', fileQueue', published)
  BY <1>2, <1>9 DEF Ordered, Stored
<1>11. lastFileNum' \in 0..published
  BY <1>2, <1>4
<1> QED
  BY <1>1, <1>2, <1>4, <1>8, <1>9, <1>10, <1>11 DEF FilesInv

(* A reset inside publish may leave a file too many; the boot takes one.   *)
LEMMA ResetInPublishLeaves ==
    ASSUME FilesInv, ResetInPublish
    PROVE /\ FilesInv'
          /\ \E files \in writeFile(disk, lastFileNum + 1, published + 1) :
                /\ \/ DOMAIN disk' = DOMAIN files
                   \/ \E n \in DOMAIN files : DOMAIN disk' = DOMAIN files \ {n}
                /\ \A n \in DOMAIN disk' : disk'[n] = files[n]
<1>1. PICK files \in writeFile(disk, lastFileNum + 1, published + 1) : setup(files)
  BY DEF ResetInPublish
<1>2. /\ scanDir(files) /\ published < MaxEvents /\ published' = published + 1
      /\ bootMark' = published'
  BY <1>1 DEF ResetInPublish, setup
<1>3. /\ lastFileNum + 1 \in Nat /\ lastFileNum + 1 <= MaxEvents
      /\ published \in Nat /\ lastFileNum <= published
  BY <1>2, QueueAssumption DEF FilesInv
<1>4. /\ Cardinality(DOMAIN files) <= FileQueueSize + 1
      /\ DOMAIN files \subseteq 1..lastFileNum + 1
      /\ lastFileNum + 1 \notin DOMAIN disk
  BY <1>1, WriteCounts
<1>5. /\ fileQueue' \in Seq(1..MaxEvents) /\ Len(fileQueue') <= FileQueueSize
      /\ lastFileNum' \in 0..lastFileNum + 1
      /\ Queued(disk', fileQueue', lastFileNum')
      /\ \A n \in DOMAIN disk' : n \in DOMAIN files /\ disk'[n] = files[n]
  BY <1>2, <1>3, <1>4, ScanQueues
<1>6. PICK order \in SetToSeqs(DOMAIN files) : checkQueueLimits(files, order)
  BY <1>2 DEF scanDir
<1>7. order \in Seq(1..lastFileNum + 1) /\ Len(order) = Cardinality(DOMAIN files)
  BY <1>3, <1>4, <1>6, OrderQueues
<1>8. \/ DOMAIN disk' = DOMAIN files
      \/ \E n \in DOMAIN files : DOMAIN disk' = DOMAIN files \ {n}
  BY <1>4, <1>6, <1>7, LimitsDisplace
<1>9. Stored(disk', published + 1)
  <2>1. /\ DOMAIN files \subseteq DOMAIN disk \cup {lastFileNum + 1}
        /\ \A n \in DOMAIN disk : files[n] = disk[n]
        /\ lastFileNum + 1 \in DOMAIN files =>
              files[lastFileNum + 1] \in {published + 1, Corrupt}
    BY <1>1, <1>4, WriteAdds
  <2>2. ASSUME NEW n \in DOMAIN disk PROVE disk[n] \in 1..published \cup {Corrupt}
    BY DEF FilesInv, Stored
  <2>3. ASSUME NEW n \in DOMAIN disk' PROVE disk'[n] \in 1..published + 1 \cup {Corrupt}
    <3>1. n \in DOMAIN files /\ disk'[n] = files[n]
      BY <1>5
    <3>2. CASE n \in DOMAIN disk
      BY <1>3, <2>1, <2>2, <3>1, <3>2
    <3>3. CASE n = lastFileNum + 1
      BY <1>3, <2>1, <3>1, <3>3
    <3> QED
      BY <2>1, <3>1, <3>2, <3>3
  <2> QED
    BY <2>3 DEF Stored
<1>10. Ordered(disk', fileQueue', published + 1)
  BY <1>3, <1>9 DEF Ordered, Stored
<1>11. /\ lastFileNum' \in 0..published' /\ published' \in 0..MaxEvents
       /\ bootMark' \in 0..published'
  <2>1. lastFileNum' \in 0..lastFileNum + 1 /\ lastFileNum \in Nat
    BY <1>5 DEF FilesInv
  <2> QED
    BY <1>2, <1>3, <2>1, QueueAssumption
<1> QED
  BY <1>1, <1>2, <1>5, <1>8, <1>9, <1>10, <1>11 DEF FilesInv

-----------------------------------------------------------------------------
(* The invariant.                                                          *)

(* The facts of the invariant every step starts from.                      *)
LEMMA QueueFacts ==
    ASSUME QueueInv
    PROVE /\ published \in Nat /\ published <= MaxEvents /\ MaxEvents \in Nat
          /\ lastFileNum \in Nat /\ lastFileNum <= MaxEvents
          /\ bootMark \in Nat /\ sentEvent \in Nat /\ sentEvent <= published
          /\ \A n \in DOMAIN disk : disk[n] \in 1..published \cup {Corrupt}
          /\ Corrupt \notin Nat
  BY QueueAssumption DEF QueueInv, FilesInv, SendingInv, Stored

(* The queue is empty at first.                                            *)
LEMMA InitQueue == Init => QueueInv
<1> SUFFICES ASSUME Init PROVE QueueInv
  OBVIOUS
<1>1. DOMAIN disk = {} /\ DOMAIN fileQueue = {} /\ Len(fileQueue) = 0
  <2>1. fileQueue \in Seq(1..MaxEvents) /\ disk \in Seq(1..MaxEvents)
    BY EmptySeq DEF Init
  <2>2. Len(fileQueue) = 0 /\ Len(disk) = 0
    BY EmptySeq DEF Init
  <2>3. DOMAIN fileQueue = 1..0 /\ DOMAIN disk = 1..0
    BY <2>1, <2>2, LenProperties
  <2> QED
    BY <2>2, <2>3
<1>2. FilesInv
  <2>1. Queued(disk, fileQueue, lastFileNum) /\ Ordered(disk, fileQueue, bootMark)
    BY <1>1 DEF Queued, Ordered
  <2>2. fileQueue \in Seq(1..MaxEvents)
    BY EmptySeq DEF Init
  <2> QED
    BY <1>1, <2>1, <2>2, QueueAssumption DEF FilesInv, Stored, Init
<1>3. SendingInv /\ SentInv
  BY DEF SendingInv, SentInv, Init
<1>4. FlagsInv
  <2>1. curFileNum \in 0..MaxEvents /\ curEvent \in Events \cup {0}
    BY QueueAssumption DEF Init
  <2>2. stateHandler \in Handlers /\ sending \in SenderStates
    BY DEF Init, Handlers, SenderStates
  <2> QED
    BY <2>1, <2>2, Zenon DEF FlagsInv, Init
<1> QED
  BY <1>2, <1>3, <1>4 DEF QueueInv

(* The queue and its files, step by step.                                  *)
LEMMA FilesStep == QueueInv /\ [Next]_vars => FilesInv'
<1> SUFFICES ASSUME QueueInv, [Next]_vars PROVE FilesInv'
  OBVIOUS
<1>f. FilesInv
  BY DEF QueueInv
<1>1. CASE UNCHANGED <<fileVars, published, bootMark>>
  BY <1>f, <1>1 DEF FilesInv, fileVars
<1>2. CASE publishCommon
  BY <1>f, <1>2, PublishLeaves
<1>3. CASE Reset
  BY <1>f, <1>3, ResetLeaves
<1>4. CASE ResetInPublish
  BY <1>f, <1>4, ResetInPublishLeaves
<1>5. CASE DiscardCorrupted
  <2>1. fileQueue # <<>> /\ TakeFile /\ UNCHANGED <<published, bootMark>>
    BY <1>5 DEF DiscardCorrupted, ReadyToPublish, cloudVars
  <2> QED
    BY <1>f, <2>1, TakeKeeps
<1>6. CASE PublishSucceeded
  <2>1. UNCHANGED <<published, bootMark>>
    BY <1>6 DEF PublishSucceeded, cloudVars
  <2>2. CASE fileQueue # <<>> /\ TakeFile
    BY <1>f, <2>1, <2>2, TakeKeeps
  <2>3. CASE UNCHANGED fileVars
    BY <1>1, <2>1, <2>3
  <2> QED
    BY <1>6, <2>2, <2>3 DEF PublishSucceeded
<1>7. CASE stateConnectWait \/ ConnectionLost \/ StayInWait \/ NothingToPublish
  BY <1>1, <1>7
     DEF stateConnectWait, ConnectionLost, StayInWait, NothingToPublish, ReadyToPublish, cloudVars
<1>8. CASE StartPublish \/ PublishFailed
  BY <1>1, <1>8 DEF StartPublish, ReadyToPublish, PublishFailed, cloudVars
<1>9. CASE SendArrives \/ SendFails \/ Callback
  BY <1>1, <1>9 DEF SendArrives, SendFails, Callback, CallbackCompletes,
                    CallbackTellsResult, ThreadIdles, cloudVars
<1>10. CASE DelayPasses \/ ConnectionChanges \/ UpdateComplete
  BY <1>1, <1>10 DEF DelayPasses, ConnectionChanges, UpdateComplete, cloudVars
<1>11. CASE UNCHANGED vars
  BY <1>1, <1>11 DEF vars, cloudVars
<1> QED
  BY <1>2, <1>3, <1>4, <1>5, <1>6, <1>7, <1>8, <1>9, <1>10, <1>11 DEF Next, loop

(* Once a file has been taken, what the loop and the thread know stands.   *)
LEMMA TakeSending ==
    ASSUME QueueInv, fileQueue # <<>>, TakeFile, UNCHANGED <<senderVars, cloudVars>>,
           stateHandler' = "wait", delayOver' => delayOver /\ stateHandler = "wait"
    PROVE SendingInv' /\ SentInv'
<1>1. /\ DOMAIN disk' = DOMAIN disk \ {Head(fileQueue)}
      /\ \A n \in DOMAIN disk' : disk'[n] = disk[n]
  BY TakeKeeps DEF QueueInv, cloudVars
<1>2. SendingInv'
  BY DEF QueueInv, SendingInv, senderVars, cloudVars
<1>3. SentInv'
  BY <1>1 DEF QueueInv, SentInv, senderVars, cloudVars
<1> QED
  BY <1>2, <1>3

(* What is sent next is the oldest of this boot, or was sent before.       *)
LEMMA StartSending == QueueInv /\ StartPublish => SendingInv' /\ SentInv'
<1> SUFFICES ASSUME QueueInv, StartPublish PROVE SendingInv' /\ SentInv'
  OBVIOUS
<1>1. /\ stateHandler = "wait" /\ delayOver /\ fileQueue # <<>>
      /\ stateHandler' = "publishWait" /\ publishSuccess' = FALSE
      /\ curFileNum' = Head(fileQueue)
      /\ UNCHANGED <<disk, fileQueue, lastFileNum, published, bootMark, arrived>>
  BY DEF StartPublish, ReadyToPublish, fileVars, cloudVars
<1>2. sending = "idle"
  BY <1>1 DEF QueueInv, SendingInv
<1>3. PICK e \in readQueueFile(Head(fileQueue)) : e # 0 /\ curEvent' = e /\ backgroundPublish(e)
  BY DEF StartPublish
<1>4. sentEvent' = e /\ sending' = "requested" /\ acknowledged' = acknowledged
  BY <1>2, <1>3 DEF backgroundPublish
<1>5. /\ published \in Nat /\ sentEvent \in 0..published /\ bootMark \in Nat
      /\ \A n \in DOMAIN disk : disk[n] \in 1..published \cup {Corrupt}
      /\ arrived \subseteq 1..published
  BY QueueFacts DEF QueueInv, SendingInv
<1>6. /\ Len(fileQueue) \in Nat /\ Len(fileQueue) > 0
      /\ DOMAIN fileQueue = 1..Len(fileQueue)
      /\ Head(fileQueue) = fileQueue[1] /\ Head(fileQueue) <= lastFileNum
  <2>1. fileQueue \in Seq(1..MaxEvents)
    BY DEF QueueInv, FilesInv
  <2>2. /\ Len(fileQueue) \in Nat /\ Len(fileQueue) > 0
        /\ DOMAIN fileQueue = 1..Len(fileQueue)
    BY <1>1, <2>1, LenProperties, EmptySeq
  <2>3. Head(fileQueue) = fileQueue[1]
    BY <2>1, <2>2, HeadTailProperties
  <2> QED
    BY <2>2, <2>3 DEF QueueInv, FilesInv, Queued
<1>7. \/ Head(fileQueue) \notin DOMAIN disk /\ e = sentEvent
      \/ Head(fileQueue) \in DOMAIN disk /\ e = disk[Head(fileQueue)] /\ e # Corrupt
  BY <1>3 DEF readQueueFile, Missing
<1>8. e \in 1..published
  BY <1>3, <1>5, <1>7
<1>9. SendingInv'
  BY <1>1, <1>3, <1>4, <1>5, <1>6, <1>7, <1>8 DEF SendingInv
<1>10. SentInv'
  <2> SUFFICES ASSUME e > bootMark, NEW n \in DOMAIN disk, disk[n] # Corrupt
               PROVE e <= disk[n]
    BY <1>1, <1>4 DEF SentInv
  <2>1. CASE e = sentEvent
    BY <2>1 DEF QueueInv, SentInv
  <2>2. CASE Head(fileQueue) \in DOMAIN disk /\ e = disk[Head(fileQueue)] /\ e # Corrupt
    <3>1. PICK j \in 1..Len(fileQueue) : n = fileQueue[j]
      BY <1>6 DEF QueueInv, FilesInv, Queued, Range
    <3>2. CASE j = 1
      BY <1>5, <1>6, <2>2, <3>1, <3>2
    <3>3. CASE j > 1
      <4>1. e <= bootMark \/ e < disk[n]
        BY <1>6, <2>2, <3>1, <3>3 DEF QueueInv, FilesInv, Ordered
      <4> QED
        BY <1>5, <1>8, <4>1
    <3> QED
      BY <1>6, <3>2, <3>3
  <2> QED
    BY <1>7, <2>1, <2>2
<1> QED
  BY <1>9, <1>10

(* The loop, the thread and the callback, step by step.                    *)
LEMMA SendingStep == QueueInv /\ [Next]_vars => SendingInv' /\ SentInv'
<1> SUFFICES ASSUME QueueInv, [Next]_vars PROVE SendingInv' /\ SentInv'
  OBVIOUS
<1>s. SendingInv /\ SentInv /\ FilesInv
  BY DEF QueueInv
<1>f. /\ published \in Nat /\ lastFileNum \in Nat /\ sentEvent \in 0..published
      /\ bootMark \in Nat
  BY QueueFacts
<1>1. CASE publishCommon
  <2>1. /\ published' = published + 1 /\ lastFileNum' = lastFileNum + 1
        /\ UNCHANGED <<senderVars, resultVars, currentVars, handlerVars, bootMark, arrived>>
    BY <1>1 DEF publishCommon
  <2>2. \A n \in DOMAIN disk' :
           \/ n \in DOMAIN disk /\ disk'[n] = disk[n]
           \/ n = lastFileNum + 1 /\ disk'[n] \in {published + 1, Corrupt}
    BY <1>s, <1>1, PublishLeaves
  <2>3. SendingInv'
    <3>1. sentEvent' \in 0..published' /\ arrived' \subseteq 1..published'
      BY <1>f, <1>s, <2>1 DEF SendingInv, senderVars
    <3>2. ASSUME stateHandler' = "publishWait"
          PROVE /\ curFileNum' <= lastFileNum'
                /\ curFileNum' \in DOMAIN disk' => disk'[curFileNum'] = sentEvent'
      <4>1. /\ curFileNum \in Nat /\ curFileNum <= lastFileNum
            /\ curFileNum \in DOMAIN disk => disk[curFileNum] = sentEvent
        BY <2>1, <3>2 DEF QueueInv, SendingInv, FlagsInv, handlerVars
      <4>2. curFileNum # lastFileNum + 1 /\ curFileNum <= lastFileNum + 1
        BY <1>f, <4>1
      <4> QED
        BY <2>1, <2>2, <4>1, <4>2 DEF currentVars, senderVars
    <3> QED
      BY <1>s, <2>1, <3>1, <3>2 DEF SendingInv, senderVars, resultVars, currentVars, handlerVars
  <2>4. SentInv'
    <3> SUFFICES ASSUME sentEvent > bootMark, NEW n \in DOMAIN disk', disk'[n] # Corrupt
                 PROVE sentEvent <= disk'[n]
      BY <2>1 DEF SentInv, senderVars
    <3>1. CASE n \in DOMAIN disk /\ disk'[n] = disk[n]
      BY <1>s, <3>1 DEF SentInv
    <3>2. CASE disk'[n] = published + 1
      BY <1>f, <3>2
    <3> QED
      BY <2>2, <3>1, <3>2
  <2> QED
    BY <2>3, <2>4
<1>2. CASE Reset \/ ResetInPublish
  <2>1. /\ sending' = "idle" /\ sentEvent' = 0 /\ stateHandler' = "connectWait"
        /\ bootMark' = published' /\ arrived' = arrived
        /\ published' = published \/ published' = published + 1
    BY <1>2 DEF Reset, ResetInPublish, setup
  <2> QED
    BY <1>f, <1>s, <2>1 DEF SendingInv, SentInv
<1>3. CASE DiscardCorrupted
  <2>1. fileQueue # <<>> /\ TakeFile /\ UNCHANGED <<senderVars, stateHandler, delayOver, cloudVars>>
    BY <1>3 DEF DiscardCorrupted, ReadyToPublish
  <2>2. stateHandler = "wait"
    BY <1>3 DEF DiscardCorrupted, ReadyToPublish
  <2> QED
    BY <2>1, <2>2, TakeSending
<1>4. CASE PublishSucceeded
  <2>1. /\ UNCHANGED <<senderVars, cloudVars>>
        /\ stateHandler' = "wait" /\ delayOver' = FALSE
    BY <1>4 DEF PublishSucceeded, BackToWait
  <2>2. CASE fileQueue # <<>> /\ TakeFile
    BY <2>1, <2>2, TakeSending
  <2>3. CASE UNCHANGED fileVars
    BY <1>s, <2>1, <2>3 DEF SendingInv, SentInv, senderVars, cloudVars, fileVars
  <2> QED
    BY <1>4, <2>2, <2>3 DEF PublishSucceeded
<1>5. CASE StartPublish
  BY <1>5, StartSending
<1>6. CASE stateConnectWait \/ ConnectionLost \/ StayInWait \/ NothingToPublish \/ PublishFailed
  <2>1. UNCHANGED <<disk, senderVars, cloudVars>> /\ stateHandler' # "publishWait"
    BY <1>6 DEF stateConnectWait, ConnectionLost, StayInWait, NothingToPublish,
                ReadyToPublish, PublishFailed, BackToWait, fileVars
  <2>2. stateHandler' = "wait" /\ delayOver' => sending = "idle"
    BY <1>s, <1>6 DEF SendingInv, stateConnectWait, ConnectionLost, StayInWait,
                NothingToPublish, ReadyToPublish, PublishFailed, BackToWait
  <2> QED
    BY <1>s, <2>1, <2>2 DEF SendingInv, SentInv, senderVars, cloudVars
<1>7. CASE SendArrives
  <2>1. /\ sending = "requested" /\ sending' = "sent" /\ arrived' = arrived \cup {sentEvent}
        /\ UNCHANGED <<fileVars, sentEvent, resultVars, currentVars, handlerVars,
                       published, bootMark>>
    BY <1>7 DEF SendArrives
  <2>2. sentEvent \in 1..published
    BY <1>f, <1>s, <2>1 DEF SendingInv
  <2> QED
    BY <1>s, <2>1, <2>2
       DEF SendingInv, SentInv, fileVars, resultVars, currentVars, handlerVars
<1>8. CASE SendFails
  BY <1>s, <1>8 DEF SendFails, SendingInv, SentInv, fileVars, resultVars, currentVars,
                    handlerVars, cloudVars
<1>9. CASE CallbackCompletes
  BY <1>s, <1>9 DEF CallbackCompletes, SendingInv, SentInv, fileVars, currentVars,
                    handlerVars, cloudVars
<1>10. CASE CallbackTellsResult
  BY <1>s, <1>10 DEF CallbackTellsResult, SendingInv, SentInv, fileVars, currentVars,
                     handlerVars, cloudVars
<1>11. CASE ThreadIdles
  BY <1>s, <1>11 DEF ThreadIdles, SendingInv, SentInv, fileVars, resultVars, currentVars,
                     handlerVars, cloudVars
<1>12. CASE DelayPasses
  BY <1>s, <1>12 DEF DelayPasses, SendingInv, SentInv, fileVars, senderVars, resultVars,
                     currentVars, cloudVars
<1>13. CASE ConnectionChanges \/ UpdateComplete \/ UNCHANGED vars
  <2>1. UNCHANGED <<fileVars, senderVars, resultVars, currentVars, handlerVars,
                    published, bootMark, arrived>>
    BY <1>13 DEF ConnectionChanges, UpdateComplete, vars, cloudVars
  <2> QED
    BY <1>s, <2>1 DEF SendingInv, SentInv, fileVars, senderVars, resultVars, currentVars,
                      handlerVars
<1> QED
  BY <1>1, <1>2, <1>3, <1>4, <1>5, <1>6, <1>7, <1>8, <1>9, <1>10, <1>11, <1>12, <1>13
     DEF Next, loop, Callback

(* The flags, step by step.                                                *)
LEMMA FlagsStep == QueueInv /\ [Next]_vars => FlagsInv'
<1> SUFFICES ASSUME QueueInv, [Next]_vars PROVE FlagsInv'
  OBVIOUS
<1>f. FlagsInv
  BY DEF QueueInv
<1>1. ASSUME fileQueue # <<>> PROVE Head(fileQueue) \in 0..MaxEvents
  <2>1. fileQueue \in Seq(1..MaxEvents)
    BY DEF QueueInv, FilesInv
  <2>2. Head(fileQueue) \in 1..MaxEvents
    BY <1>1, <2>1, HeadTailProperties
  <2> QED
    BY <2>2, QueueAssumption
<1>2. 0 \in 0..MaxEvents
  BY QueueAssumption
<1>3. CASE publishCommon
  BY <1>f, <1>3 DEF publishCommon, FlagsInv, senderVars, resultVars, currentVars, handlerVars
<1>4. CASE Reset \/ ResetInPublish
  <2>1. \E files : setup(files)
    BY <1>4 DEF Reset, ResetInPublish
  <2> QED
    BY <1>2, <2>1 DEF setup, FlagsInv, Handlers, SenderStates
<1>5. CASE stateConnectWait
  BY <1>f, <1>5 DEF stateConnectWait, FlagsInv, Handlers, senderVars, resultVars, currentVars,
                    cloudVars
<1>6. CASE ConnectionLost \/ StayInWait \/ NothingToPublish
  BY <1>f, <1>2, <1>6 DEF ConnectionLost, StayInWait, NothingToPublish, ReadyToPublish,
                          FlagsInv, Handlers, senderVars, resultVars, currentVars, cloudVars
<1>7. CASE DiscardCorrupted
  BY <1>f, <1>1, <1>7 DEF DiscardCorrupted, ReadyToPublish, FlagsInv, senderVars, resultVars,
                          cloudVars
<1>8. CASE StartPublish
  <2>1. /\ curFileNum' = Head(fileQueue) /\ fileQueue # <<>>
        /\ publishComplete' = FALSE /\ publishSuccess' = FALSE /\ canSleep' = FALSE
        /\ stateHandler' = "publishWait"
        /\ UNCHANGED <<delayOver, pausePublishing, connected>>
    BY <1>8 DEF StartPublish, ReadyToPublish, cloudVars
  <2>2. PICK e : /\ e \in readQueueFile(Head(fileQueue)) /\ e # 0
                 /\ curEvent' = e /\ backgroundPublish(e)
    BY <1>8 DEF StartPublish
  <2>3. /\ sentEvent \in 0..published /\ published \in 0..MaxEvents
        /\ \A n \in DOMAIN disk : disk[n] \in 1..published \cup {Corrupt}
    BY DEF QueueInv, FilesInv, SendingInv, Stored
  <2>4. \/ e = sentEvent
        \/ Head(fileQueue) \in DOMAIN disk /\ e = disk[Head(fileQueue)] /\ e # Corrupt
    BY <2>2 DEF readQueueFile, Missing
  <2>5. e \in Events
    BY <2>2, <2>3, <2>4, QueueAssumption DEF Events
  <2>6. sending' \in SenderStates /\ acknowledged' = acknowledged
    BY <1>f, <2>2 DEF backgroundPublish, SenderStates, FlagsInv, senderVars
  <2> QED
    BY <1>f, <1>1, <2>1, <2>2, <2>5, <2>6 DEF FlagsInv, Handlers
<1>9. CASE PublishSucceeded \/ PublishFailed
  BY <1>f, <1>2, <1>9 DEF PublishSucceeded, PublishFailed, BackToWait, FlagsInv, Handlers,
                          senderVars, resultVars, cloudVars
<1>10. CASE SendArrives \/ SendFails
  BY <1>f, <1>10 DEF SendArrives, SendFails, FlagsInv, SenderStates, resultVars, currentVars,
                     handlerVars, cloudVars
<1>11. CASE Callback
  BY <1>f, <1>11 DEF Callback, CallbackCompletes, CallbackTellsResult, ThreadIdles, FlagsInv,
                     SenderStates, currentVars, handlerVars, resultVars, cloudVars
<1>12. CASE DelayPasses \/ ConnectionChanges \/ UpdateComplete
  BY <1>f, <1>12 DEF DelayPasses, ConnectionChanges, UpdateComplete, FlagsInv, senderVars,
                     resultVars, currentVars, handlerVars, cloudVars
<1>13. CASE UNCHANGED vars
  BY <1>f, <1>13 DEF vars, FlagsInv, senderVars, resultVars, currentVars, handlerVars, cloudVars
<1> QED
  BY <1>3, <1>4, <1>5, <1>6, <1>7, <1>8, <1>9, <1>10, <1>11, <1>12, <1>13 DEF Next, loop

(* The invariant holds of every reachable state.                           *)
THEOREM QueueInvariant == Spec => []QueueInv
<1>1. QueueInv /\ [Next]_vars => QueueInv'
  BY FilesStep, SendingStep, FlagsStep DEF QueueInv
<1> QED
  BY InitQueue, <1>1, PTL DEF Spec

-----------------------------------------------------------------------------
(* What follows from it. *)

(* The types of the queue, for every queue size and number of events.      *)
THEOREM QueueTypeCorrect == Spec => []QueueTypeOK
<1>1. ASSUME QueueInv PROVE QueueTypeOK
  <2>1. /\ fileQueue \in Seq(1..MaxEvents) /\ published \in 0..MaxEvents
        /\ lastFileNum \in 0..published /\ bootMark \in 0..published
        /\ Queued(disk, fileQueue, lastFileNum) /\ Stored(disk, published)
        /\ sentEvent \in 0..published /\ arrived \subseteq 1..published
    BY <1>1 DEF QueueInv, FilesInv, SendingInv
  <2>2. DOMAIN disk \subseteq 1..MaxEvents
    <3>1. \A i \in DOMAIN fileQueue : fileQueue[i] \in 1..MaxEvents
      BY <2>1, ElementOfSeq, LenProperties
    <3> QED
      BY <2>1, <3>1 DEF Queued, Range
  <2>3. \A n \in DOMAIN disk : disk[n] \in Events \cup {Corrupt}
    BY <2>1, QueueAssumption DEF Stored, Events
  <2>4. lastFileNum \in 0..MaxEvents /\ sentEvent \in Events \cup {0}
    BY <2>1, QueueAssumption DEF Events
  <2> QED
    BY <1>1, <2>1, <2>2, <2>3, <2>4 DEF QueueTypeOK, QueueInv, FlagsInv
<1> QED
  BY QueueInvariant, <1>1, PTL

(* No file is left out of the queue and no number is given twice, over any *)
(* number of restarts, whatever was written when they came.                *)
THEOREM QueuedFiles == Spec => []FilesAreQueued
<1>1. QueueInv => FilesAreQueued
  BY DEF QueueInv, FilesInv, Queued, FilesAreQueued
<1> QED
  BY QueueInvariant, <1>1, PTL

(* Within a boot events arrive in order: when one arrives for the first    *)
(* time it is the oldest kept, or older ones are from before the boot.     *)
THEOREM EventsArriveInOrder == Spec => ArrivesInOrder
<1> DEFINE InOrder ==
        \A e \in arrived' \ arrived : \A f \in Pending \ arrived : f < e => e <= bootMark
<1>1. QueueInv /\ [Next]_vars => [InOrder]_vars
  <2> SUFFICES ASSUME QueueInv, [Next]_vars,
                      NEW e \in arrived' \ arrived, NEW f \in Pending \ arrived, f < e
               PROVE e <= bootMark
    OBVIOUS
  <2>1. SendArrives
    <3>1. ASSUME arrived' = arrived PROVE FALSE
      BY <3>1
    <3> QED
      BY <3>1 DEF Next, loop, Callback, publishCommon, Reset, ResetInPublish, setup,
             stateConnectWait, ConnectionLost, StayInWait, NothingToPublish, DiscardCorrupted,
             StartPublish, PublishSucceeded, PublishFailed, SendFails, CallbackCompletes,
             CallbackTellsResult, ThreadIdles, DelayPasses, ConnectionChanges,
             UpdateComplete, cloudVars, vars
  <2>2. e = sentEvent
    BY <2>1 DEF SendArrives
  <2>3. PICK n \in DOMAIN disk : f = disk[n] /\ f # Corrupt
    BY DEF Pending
  <2>4. /\ sentEvent \in Nat /\ bootMark \in Nat /\ f \in Nat
    BY <2>3, QueueFacts
  <2>5. sentEvent > bootMark => sentEvent <= f
    BY <2>3 DEF QueueInv, SentInv
  <2> QED
    BY <2>2, <2>4, <2>5
<1> QED
  BY QueueInvariant, <1>1, PTL DEF Spec, ArrivesInOrder

-----------------------------------------------------------------------------
(* The queue implements the event store.                                   *)

EventsIn(files) == {files[n] : n \in DOMAIN files} \ {Corrupt}

(* Without one of its files a flash holds its events, or all but that      *)
(* file's.                                                                 *)
LEMMA RemoveOne ==
    ASSUME NEW f, NEW g, NEW n \in DOMAIN f, DOMAIN g = DOMAIN f \ {n},
           \A k \in DOMAIN g : g[k] = f[k]
    PROVE EventsIn(g) = EventsIn(f) \/ EventsIn(g) = EventsIn(f) \ {f[n]}
<1>1. \A v : v \in EventsIn(g) => v \in EventsIn(f)
  BY DEF EventsIn
<1>2. \A v : v \in EventsIn(f) /\ v # f[n] => v \in EventsIn(g)
  <2> SUFFICES ASSUME NEW v \in EventsIn(f), v # f[n] PROVE v \in EventsIn(g)
    OBVIOUS
  <2>1. PICK k \in DOMAIN f : v = f[k] /\ v # Corrupt
    BY DEF EventsIn
  <2>2. k \in DOMAIN g
    BY <2>1
  <2> QED
    BY <2>1, <2>2 DEF EventsIn
<1>3. CASE f[n] \in EventsIn(g)
  BY <1>1, <1>2, <1>3
<1>4. CASE f[n] \notin EventsIn(g)
  BY <1>1, <1>2, <1>4
<1> QED
  BY <1>3, <1>4

(* The same files hold the same events.                                    *)
LEMMA SameEvents ==
    ASSUME NEW f, NEW g, DOMAIN g = DOMAIN f, \A k \in DOMAIN g : g[k] = f[k]
    PROVE EventsIn(g) = EventsIn(f)
  BY DEF EventsIn

(* Writing a file adds its event or nothing.                               *)
LEMMA WriteEvents ==
    ASSUME NEW num, num \notin DOMAIN disk, NEW e, e # Corrupt,
           NEW files \in writeFile(disk, num, e)
    PROVE \E written \in {{}, {e}} : EventsIn(files) = EventsIn(disk) \cup written
<1>1. CASE files = disk
  BY <1>1
<1>2. CASE files = [n \in DOMAIN disk \cup {num} |-> IF n = num THEN e ELSE disk[n]]
  <2>1. /\ DOMAIN files = DOMAIN disk \cup {num} /\ files[num] = e
        /\ \A n \in DOMAIN disk : files[n] = disk[n]
    BY <1>2
  <2>2. EventsIn(files) = EventsIn(disk) \cup {e}
    BY <2>1 DEF EventsIn
  <2> QED
    BY <2>2
<1>3. CASE files = [n \in DOMAIN disk \cup {num} |-> IF n = num THEN Corrupt ELSE disk[n]]
  <2>1. /\ DOMAIN files = DOMAIN disk \cup {num} /\ files[num] = Corrupt
        /\ \A n \in DOMAIN disk : files[n] = disk[n]
    BY <1>3
  <2>2. EventsIn(files) = EventsIn(disk) \cup {}
    BY <2>1 DEF EventsIn
  <2> QED
    BY <2>2
<1> QED
  BY <1>1, <1>2, <1>3 DEF writeFile

(* A file written and at most one removed: an event accepted by the store. *)
LEMMA WriteAccepts ==
    ASSUME QueueInv, published' = published + 1, arrived' = arrived,
           NEW files \in writeFile(disk, lastFileNum + 1, published + 1),
           \/ DOMAIN disk' = DOMAIN files
           \/ \E n \in DOMAIN files : DOMAIN disk' = DOMAIN files \ {n},
           \A n \in DOMAIN disk' : disk'[n] = files[n]
    PROVE Store!Accept
<1>1. lastFileNum + 1 \notin DOMAIN disk
  BY WriteCounts DEF QueueInv
<1>2. published + 1 # Corrupt
  BY QueueFacts
<1>3. PICK written \in {{}, {published + 1}} : EventsIn(files) = EventsIn(disk) \cup written
  BY <1>1, <1>2, WriteEvents
<1>4. Pending = EventsIn(disk) /\ Pending' = EventsIn(disk')
  BY DEF Pending, EventsIn
<1>5. \E displaced \in Store!AtMostOneOf(Pending \cup written) :
          Pending' = (Pending \cup written) \ displaced
  <2>1. CASE EventsIn(disk') = EventsIn(files)
    <3>1. {} \in Store!AtMostOneOf(Pending \cup written)
      BY DEF Store!AtMostOneOf
    <3>2. Pending' = (Pending \cup written) \ {}
      BY <1>3, <1>4, <2>1
    <3> QED
      BY <3>1, <3>2
  <2>2. ASSUME NEW n \in DOMAIN files, EventsIn(disk') = EventsIn(files) \ {files[n]},
               EventsIn(disk') # EventsIn(files)
        PROVE \E displaced \in Store!AtMostOneOf(Pending \cup written) :
                  Pending' = (Pending \cup written) \ displaced
    <3>1. files[n] \in Pending \cup written
      BY <1>3, <1>4, <2>2
    <3>2. {files[n]} \in Store!AtMostOneOf(Pending \cup written)
      BY <3>1 DEF Store!AtMostOneOf
    <3>3. Pending' = (Pending \cup written) \ {files[n]}
      BY <1>3, <1>4, <2>2
    <3> QED
      BY <3>2, <3>3
  <2>3. CASE DOMAIN disk' = DOMAIN files
    BY <2>1, <2>3, SameEvents
  <2>4. CASE \E n \in DOMAIN files : DOMAIN disk' = DOMAIN files \ {n}
    <3>1. PICK n \in DOMAIN files : DOMAIN disk' = DOMAIN files \ {n}
      BY <2>4
    <3>2. \/ EventsIn(disk') = EventsIn(files)
          \/ EventsIn(disk') = EventsIn(files) \ {files[n]}
      BY <3>1, RemoveOne
    <3> QED
      BY <2>1, <2>2, <3>2
  <2> QED
    BY <2>3, <2>4
<1> QED
  BY <1>5 DEF Store!Accept

(* Taking a file that is sent, broken or gone: an event the cloud has is   *)
(* forgotten, or none.                                                     *)
LEMMA TakeForgets ==
    ASSUME QueueInv, fileQueue # <<>>, TakeFile, UNCHANGED cloudVars,
           Head(fileQueue) \in DOMAIN disk =>
               disk[Head(fileQueue)] \in arrived \cup {Corrupt}
    PROVE Store!Forget \/ UNCHANGED Store!storeVars
<1>1. /\ DOMAIN disk' = DOMAIN disk \ {Head(fileQueue)}
      /\ \A n \in DOMAIN disk' : disk'[n] = disk[n]
  BY TakeKeeps DEF QueueInv, cloudVars
<1>2. Pending = EventsIn(disk) /\ Pending' = EventsIn(disk')
  BY DEF Pending, EventsIn
<1>3. UNCHANGED <<published, arrived>>
  BY DEF cloudVars
<1>4. CASE Pending' = Pending
  BY <1>3, <1>4 DEF Store!storeVars
<1>5. CASE Head(fileQueue) \notin DOMAIN disk
  BY <1>1, <1>2, <1>4, <1>5, SameEvents
<1>6. CASE Head(fileQueue) \in DOMAIN disk /\ Pending' # Pending
  <2>1. Pending' = Pending \ {disk[Head(fileQueue)]}
    BY <1>1, <1>2, <1>6, RemoveOne
  <2>2. disk[Head(fileQueue)] \in Pending
    BY <1>6, <2>1
  <2>3. disk[Head(fileQueue)] \in Pending \cap arrived
    BY <1>6, <2>2 DEF Pending
  <2> QED
    BY <1>3, <2>1, <2>3 DEF Store!Forget
<1> QED
  BY <1>4, <1>5, <1>6

(* A file that cannot be read is discarded for a corrupted one, which      *)
(* gives its event up.                                                     *)
FilesAreRead == ~ReadsFail

(* Every step of the queue is a step of the store, or none.                *)
LEMMA StoreStep ==
    ASSUME FilesAreRead
    PROVE QueueInv /\ [Next]_vars => [Store!Next]_(Store!storeVars)
<1> SUFFICES ASSUME QueueInv, [Next]_vars
             PROVE Store!Next \/ UNCHANGED Store!storeVars
  OBVIOUS
<1>f. FilesInv
  BY DEF QueueInv
<1>1. CASE UNCHANGED <<disk, published, arrived>>
  BY <1>1 DEF Store!storeVars, Pending
<1>2. CASE publishCommon
  <2>1. published' = published + 1 /\ arrived' = arrived
    BY <1>2 DEF publishCommon
  <2>2. Store!Accept
    BY <1>f, <1>2, <2>1, PublishLeaves, WriteAccepts
  <2> QED
    BY <2>2 DEF Store!Next
<1>3. CASE ResetInPublish
  <2>1. published' = published + 1 /\ arrived' = arrived
    BY <1>3 DEF ResetInPublish, setup
  <2>2. Store!Accept
    BY <1>f, <1>3, <2>1, ResetInPublishLeaves, WriteAccepts
  <2> QED
    BY <2>2 DEF Store!Next
<1>4. CASE Reset
  <2>1. published' = published /\ arrived' = arrived
    BY <1>4 DEF Reset, setup
  <2>2. DOMAIN disk' = DOMAIN disk /\ \A n \in DOMAIN disk' : disk'[n] = disk[n]
    BY <1>f, <1>4, ResetLeaves
  <2>3. EventsIn(disk') = EventsIn(disk)
    BY <2>2, SameEvents
  <2>4. Pending' = Pending
    BY <2>3 DEF EventsIn, Pending
  <2> QED
    BY <2>1, <2>4 DEF Store!storeVars
<1>5. CASE DiscardCorrupted
  <2>1. /\ fileQueue # <<>> /\ 0 \in readQueueFile(Head(fileQueue)) /\ TakeFile
        /\ UNCHANGED cloudVars
    BY <1>5 DEF DiscardCorrupted, ReadyToPublish
  <2>2. ASSUME Head(fileQueue) \in DOMAIN disk PROVE disk[Head(fileQueue)] = Corrupt
    <3>1. disk[Head(fileQueue)] \in 1..published \cup {Corrupt} /\ published \in Nat
      BY <2>2, QueueFacts
    <3> QED
      BY <2>1, <2>2, <3>1 DEF readQueueFile, FilesAreRead
  <2>3. Store!Forget \/ UNCHANGED Store!storeVars
    BY <2>1, <2>2, TakeForgets
  <2> QED
    BY <2>3 DEF Store!Next
<1>6. CASE PublishSucceeded
  <2>1. /\ stateHandler = "publishWait" /\ publishSuccess /\ UNCHANGED cloudVars
    BY <1>6 DEF PublishSucceeded
  <2>2. CASE fileQueue # <<>> /\ Head(fileQueue) = curFileNum /\ TakeFile
    <3>1. Head(fileQueue) \in DOMAIN disk => disk[Head(fileQueue)] \in arrived \cup {Corrupt}
      BY <2>1, <2>2 DEF QueueInv, SendingInv
    <3>2. Store!Forget \/ UNCHANGED Store!storeVars
      BY <2>1, <2>2, <3>1, TakeForgets
    <3> QED
      BY <3>2 DEF Store!Next
  <2>3. CASE UNCHANGED fileVars
    BY <1>1, <2>1, <2>3 DEF fileVars, cloudVars
  <2> QED
    BY <1>6, <2>2, <2>3 DEF PublishSucceeded
<1>7. CASE SendArrives
  <2>1. sentEvent \in 1..published
    BY <1>7, QueueFacts DEF SendArrives, QueueInv, SendingInv
  <2>2. UNCHANGED <<disk, published>> /\ arrived' = arrived \cup {sentEvent}
    BY <1>7 DEF SendArrives, fileVars
  <2>3. Store!Arrive
    BY <2>1, <2>2 DEF Store!Arrive, Pending
  <2> QED
    BY <2>3 DEF Store!Next
<1>8. CASE stateConnectWait \/ ConnectionLost \/ StayInWait \/ NothingToPublish
  BY <1>1, <1>8 DEF stateConnectWait, ConnectionLost, StayInWait, NothingToPublish,
                    ReadyToPublish, cloudVars, fileVars
<1>9. CASE StartPublish \/ PublishFailed \/ SendFails \/ Callback
  BY <1>1, <1>9 DEF StartPublish, ReadyToPublish, PublishFailed, SendFails, Callback,
                    CallbackCompletes, CallbackTellsResult, ThreadIdles, cloudVars, fileVars
<1>10. CASE DelayPasses \/ ConnectionChanges \/ UpdateComplete \/ UNCHANGED vars
  BY <1>1, <1>10 DEF DelayPasses, ConnectionChanges, UpdateComplete, vars, cloudVars, fileVars
<1> QED
  BY <1>2, <1>3, <1>4, <1>5, <1>6, <1>7, <1>8, <1>9, <1>10 DEF Next, loop

(* An event accepted is kept until the cloud has it, or a newer one needs  *)
(* its place: whatever the interleaving of publish, the loop, the thread,  *)
(* its callback and restarts.                                              *)
THEOREM QueueImplementsStore ==
    ASSUME FilesAreRead
    PROVE Spec => StoreSpec
<1>1. Init => Store!Init
  <2> SUFFICES ASSUME Init PROVE published = 0 /\ Pending = {} /\ arrived = {}
    BY DEF Store!Init
  <2>1. disk \in Seq(1..MaxEvents) /\ Len(disk) = 0
    BY EmptySeq DEF Init
  <2>2. DOMAIN disk = 1..0
    BY <2>1, LenProperties
  <2>3. Pending = {}
    BY <2>2 DEF Pending
  <2> QED
    BY <2>3 DEF Init
<1> QED
  BY QueueInvariant, StoreStep, <1>1, PTL DEF Spec, StoreSpec, Store!Spec
=============================================================================
