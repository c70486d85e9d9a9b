---------------------------- MODULE PublishQueue ----------------------------
(***************************************************************************)
(* The queue that carries the trolley's events to the cloud:               *)
(* PublishQueuePosixRK on SequentialFileRK (one file per event) and        *)
(* BackgroundPublishRK (the thread that sends one event at a time).        *)
(*                                                                         *)
(* The trolley sets the size of the RAM queue to 0, so publish moves every *)
(* event to a file before it returns and the RAM queue is empty between    *)
(* the steps; the branches that send from RAM are never taken.             *)
(*                                                                         *)
(* Events are numbered as they are published. A step is one call of        *)
(* publish, one pass of the queue's loop, one step of the sending thread,  *)
(* or something from outside.                                              *)
(***************************************************************************)
EXTENDS Integers, Sequences, FiniteSets, SequencesExt

CONSTANTS
    FileQueueSize,  \* files the queue keeps, 100 by default
    MaxEvents,      \* bound: events published
    Corrupt,        \* content of a file that was not written whole
    ReadsFail       \* an intact file may not be read: no memory, no descriptor

ASSUME QueueAssumption ==
    /\ FileQueueSize \in Nat \ {0} /\ MaxEvents \in Nat
    /\ Corrupt \notin Nat /\ ReadsFail \in BOOLEAN

VARIABLES
    disk,               \* flash: the number of each file, and the event in it
    fileQueue,          \* numbers of the files to send, in RAM
    lastFileNum,        \* highest number in use
    stateHandler,       \* handler of the next pass
    delayOver,          \* durationMs has passed since stateTime
    curFileNum,         \* file being sent, stays after a failure
    curEvent,           \* its event, 0 if none
    publishComplete,
    publishSuccess,
    canSleep,
    pausePublishing,
    sending,            \* the sending thread's place in its loop
    sentEvent,          \* event it was given, 0 before the first
    acknowledged,       \* the cloud acknowledged what it sent
    connected,          \* to the cloud
    published,          \* events 1..published have been published
    bootMark,           \* published at the last boot
    arrived             \* events the cloud has

fileVars == <<disk, fileQueue, lastFileNum>>
senderVars == <<sending, sentEvent, acknowledged>>
resultVars == <<publishComplete, publishSuccess>>
currentVars == <<curFileNum, curEvent>>
handlerVars == <<stateHandler, delayOver, canSleep>>
cloudVars == <<connected, published, bootMark, arrived>>
vars == <<fileVars, senderVars, resultVars, currentVars, handlerVars,
          pausePublishing, cloudVars>>

Events == 1..MaxEvents
Handlers == {"connectWait", "wait", "publishWait"}
(* "requested": state is BACKGROUND_PUBLISH_REQUESTED; "sent": the future  *)
(* is done; "completing", "called": inside and after completed_cb.         *)
SenderStates == {"idle", "requested", "sent", "completing", "called"}

-----------------------------------------------------------------------------
(* Files and their queue. *)

removeFiles(files, nums) == [n \in DOMAIN files \ nums |-> files[n]]

(* An event is written whole, in part, or not at all: nothing looks at the *)
(* result of open and write.                                               *)
writeFile(files, num, e) ==
    {files,
     [n \in DOMAIN files \cup {num} |-> IF n = num THEN e ELSE files[n]],
     [n \in DOMAIN files \cup {num} |-> IF n = num THEN Corrupt ELSE files[n]]}

(* What readQueueFile finds in a file, 0 for nothing it accepts. Opening a *)
(* file that is not there goes unnoticed: header, size and event are then  *)
(* what the memory holds, nothing acceptable or the event read before.     *)
Missing == {0, sentEvent}
readQueueFile_Unchecked(num) ==     \* mutant: the last byte is not looked at
    IF num \notin DOMAIN disk THEN Missing ELSE {disk[num]}
readQueueFile(num) ==
    IF num \notin DOMAIN disk THEN Missing
    ELSE IF disk[num] = Corrupt THEN {0}
    ELSE {disk[num]} \cup (IF ReadsFail THEN {0} ELSE {})

Excess(queue) == IF Len(queue) > FileQueueSize THEN Len(queue) - FileQueueSize ELSE 0

(* The oldest files beyond the limit are taken from the queue and removed. *)
checkQueueLimits(files, queue) ==
    /\ fileQueue' = SubSeq(queue, Excess(queue) + 1, Len(queue))
    /\ disk' = removeFiles(files, {queue[i] : i \in 1..Excess(queue)})

(* getFileFromQueue(true) and removeFileNum.                               *)
TakeFile ==
    /\ fileQueue' = Tail(fileQueue)
    /\ disk' = removeFiles(disk, {Head(fileQueue)})
    /\ UNCHANGED lastFileNum

scanDir_Counts(files) ==     \* mutant: counts the files
    /\ lastFileNum' = Cardinality(DOMAIN files)
    /\ \E order \in SetToSeqs(DOMAIN files) : checkQueueLimits(files, order)
(* scanDir: files come in the order of the directory, which nothing sorts. *)
scanDir(files) ==
    /\ lastFileNum' = IF DOMAIN files = {} THEN 0 ELSE Max(DOMAIN files)
    /\ \E order \in SetToSeqs(DOMAIN files) : checkQueueLimits(files, order)

-----------------------------------------------------------------------------
(* publish, from the trolley's controllers, and boots. *)

publishCommon ==
    /\ published < MaxEvents
    /\ published' = published + 1
    /\ lastFileNum' = lastFileNum + 1
    /\ \E files \in writeFile(disk, lastFileNum + 1, published + 1) :
          checkQueueLimits(files, Append(fileQueue, lastFileNum + 1))
    /\ UNCHANGED <<senderVars, resultVars, currentVars, handlerVars, pausePublishing,
                   connected, bootMark, arrived>>

(* setup: what is in RAM starts anew from the files.                       *)
setup(files) ==
    /\ scanDir(files)
    /\ stateHandler' = "connectWait" /\ delayOver' = FALSE /\ canSleep' = FALSE
    /\ curFileNum' = 0 /\ curEvent' = 0
    /\ publishComplete' = FALSE /\ publishSuccess' = FALSE
    /\ pausePublishing' = FALSE
    /\ sending' = "idle" /\ sentEvent' = 0 /\ acknowledged' = FALSE
    /\ connected' = FALSE
    /\ bootMark' = published'
    /\ UNCHANGED arrived

(* A restart, a watchdog reset or the end of a hibernation, at any moment. *)
Reset == UNCHANGED published /\ setup(disk)

(* A reset inside publish: the file is there, or part of it.               *)
ResetInPublish ==
    /\ published < MaxEvents
    /\ published' = published + 1
    /\ \E files \in writeFile(disk, lastFileNum + 1, published + 1) : setup(files)

-----------------------------------------------------------------------------
(* The queue's loop: the handler of its state. *)

stateConnectWait ==
    /\ stateHandler = "connectWait"
    /\ canSleep' = (pausePublishing \/ fileQueue = <<>>)
    /\ IF connected
       THEN stateHandler' = "wait" /\ delayOver' = FALSE
       ELSE UNCHANGED <<stateHandler, delayOver>>
    /\ UNCHANGED <<fileVars, senderVars, resultVars, currentVars, pausePublishing, cloudVars>>

ConnectionLost ==
    /\ stateHandler = "wait" /\ ~connected
    /\ stateHandler' = "connectWait"
    /\ UNCHANGED <<fileVars, senderVars, resultVars, currentVars, delayOver, canSleep,
                   pausePublishing, cloudVars>>

StayInWait ==
    /\ stateHandler = "wait" /\ connected
    /\ pausePublishing \/ ~delayOver
    /\ canSleep' = (pausePublishing \/ fileQueue = <<>>)
    /\ UNCHANGED <<fileVars, senderVars, resultVars, currentVars, stateHandler, delayOver,
                   pausePublishing, cloudVars>>

ReadyToPublish ==
    /\ stateHandler = "wait" /\ connected /\ ~pausePublishing /\ delayOver

NothingToPublish ==
    /\ ReadyToPublish /\ fileQueue = <<>>
    /\ curFileNum' = 0 /\ curEvent' = 0
    /\ canSleep' = TRUE
    /\ UNCHANGED <<fileVars, senderVars, resultVars, stateHandler, delayOver,
                   pausePublishing, cloudVars>>

DiscardCorrupted_Queued ==     \* mutant: stays in the queue
    /\ ReadyToPublish /\ fileQueue # <<>>
    /\ 0 \in readQueueFile(Head(fileQueue))
    /\ disk' = removeFiles(disk, {Head(fileQueue)})
    /\ curFileNum' = Head(fileQueue) /\ curEvent' = 0
    /\ canSleep' = TRUE
    /\ UNCHANGED <<fileQueue, lastFileNum, senderVars, resultVars, stateHandler,
                   delayOver, pausePublishing, cloudVars>>
DiscardCorrupted ==
    /\ ReadyToPublish /\ fileQueue # <<>>
    /\ 0 \in readQueueFile(Head(fileQueue))
    /\ TakeFile
    /\ curFileNum' = Head(fileQueue) /\ curEvent' = 0
    /\ canSleep' = TRUE
    /\ UNCHANGED <<senderVars, resultVars, stateHandler, delayOver, pausePublishing, cloudVars>>

(* The sending thread refuses an event while it has not finished the one   *)
(* before; the queue does not look at the answer.                          *)
backgroundPublish(e) ==
    IF sending = "idle"
    THEN sending' = "requested" /\ sentEvent' = e /\ UNCHANGED acknowledged
    ELSE UNCHANGED senderVars

StartPublish ==
    /\ ReadyToPublish /\ fileQueue # <<>>
    /\ \E e \in readQueueFile(Head(fileQueue)) \ {0} :
          curEvent' = e /\ backgroundPublish(e)
    /\ curFileNum' = Head(fileQueue)
    /\ publishComplete' = FALSE /\ publishSuccess' = FALSE
    /\ canSleep' = FALSE
    /\ stateHandler' = "publishWait"
    /\ UNCHANGED <<fileVars, delayOver, pausePublishing, cloudVars>>

BackToWait == stateHandler' = "wait" /\ delayOver' = FALSE /\ UNCHANGED canSleep

PublishSucceeded_AnyHead ==     \* mutant: takes any head
    /\ stateHandler = "publishWait" /\ publishComplete /\ publishSuccess
    /\ IF fileQueue # <<>> THEN TakeFile ELSE UNCHANGED fileVars
    /\ curFileNum' = 0 /\ curEvent' = 0
    /\ BackToWait
    /\ UNCHANGED <<senderVars, resultVars, pausePublishing, cloudVars>>
(* The file sent may be gone: publish has displaced it meanwhile.          *)
PublishSucceeded ==
    /\ stateHandler = "publishWait" /\ publishComplete /\ publishSuccess
    /\ IF fileQueue # <<>> /\ Head(fileQueue) = curFileNum
       THEN TakeFile
       ELSE UNCHANGED fileVars
    /\ curFileNum' = 0 /\ curEvent' = 0
    /\ BackToWait
    /\ UNCHANGED <<senderVars, resultVars, pausePublishing, cloudVars>>

PublishFailed_ToTheEnd ==     \* mutant: put behind the others
    /\ stateHandler = "publishWait" /\ publishComplete /\ ~publishSuccess
    /\ fileQueue' = IF fileQueue = <<>> THEN <<>>
                    ELSE Append(Tail(fileQueue), Head(fileQueue))
    /\ curEvent' = 0 /\ UNCHANGED curFileNum
    /\ BackToWait
    /\ UNCHANGED <<disk, lastFileNum, senderVars, resultVars, pausePublishing, cloudVars>>
PublishFailed ==
    /\ stateHandler = "publishWait" /\ publishComplete /\ ~publishSuccess
    /\ curEvent' = 0 /\ UNCHANGED curFileNum
    /\ BackToWait
    /\ UNCHANGED <<fileVars, senderVars, resultVars, pausePublishing, cloudVars>>

loop ==
    \/ stateConnectWait
    \/ ConnectionLost \/ StayInWait \/ NothingToPublish \/ DiscardCorrupted \/ StartPublish
    \/ PublishSucceeded \/ PublishFailed

-----------------------------------------------------------------------------
(* The sending thread. *)

(* An event sent may arrive without being acknowledged in time, or not     *)
(* arrive at all.                                                          *)
SendArrives ==
    /\ sending = "requested" /\ connected
    /\ arrived' = arrived \cup {sentEvent}
    /\ acknowledged' \in BOOLEAN
    /\ sending' = "sent"
    /\ UNCHANGED <<fileVars, sentEvent, resultVars, currentVars, handlerVars,
                   pausePublishing, connected, published, bootMark>>

SendFails ==
    /\ sending = "requested"
    /\ acknowledged' = FALSE
    /\ sending' = "sent"
    /\ UNCHANGED <<fileVars, sentEvent, resultVars, currentVars, handlerVars,
                   pausePublishing, cloudVars>>

(* publishCompleteCallback sets its two flags one after the other, and the *)
(* loop may run in between.                                                *)
CallbackCompletes ==
    /\ sending = "sent"
    /\ publishComplete' = TRUE
    /\ sending' = "completing"
    /\ UNCHANGED <<fileVars, sentEvent, acknowledged, publishSuccess, currentVars,
                   handlerVars, pausePublishing, cloudVars>>

CallbackTellsResult ==
    /\ sending = "completing"
    /\ publishSuccess' = acknowledged
    /\ sending' = "called"
    /\ UNCHANGED <<fileVars, sentEvent, acknowledged, publishComplete, currentVars,
                   handlerVars, pausePublishing, cloudVars>>

ThreadIdles ==
    /\ sending = "called"
    /\ sending' = "idle"
    /\ UNCHANGED <<fileVars, sentEvent, acknowledged, resultVars, currentVars,
                   handlerVars, pausePublishing, cloudVars>>

Callback == CallbackCompletes \/ CallbackTellsResult \/ ThreadIdles

-----------------------------------------------------------------------------
(* Surroundings. *)

(* The shortest delay is a second: the thread has long left its callback.  *)
DelayPasses ==
    /\ stateHandler = "wait" /\ ~delayOver
    /\ sending = "idle"
    /\ delayOver' = TRUE
    /\ UNCHANGED <<fileVars, senderVars, resultVars, currentVars, stateHandler, canSleep,
                   pausePublishing, cloudVars>>

(* Before it disconnects the system writes the RAM queue to files, which   *)
(* is empty.                                                               *)
ConnectionChanges ==
    /\ connected' = ~connected
    /\ UNCHANGED <<fileVars, senderVars, resultVars, currentVars, handlerVars,
                   pausePublishing, published, bootMark, arrived>>

(* A firmware update is complete and waits for its restart.                *)
UpdateComplete ==
    /\ ~pausePublishing
    /\ pausePublishing' = TRUE
    /\ UNCHANGED <<fileVars, senderVars, resultVars, currentVars, handlerVars, cloudVars>>

Init ==
    /\ disk = <<>> /\ fileQueue = <<>> /\ lastFileNum = 0
    /\ stateHandler = "connectWait" /\ delayOver = FALSE /\ canSleep = FALSE
    /\ curFileNum = 0 /\ curEvent = 0
    /\ publishComplete = FALSE /\ publishSuccess = FALSE
    /\ pausePublishing = FALSE
    /\ sending = "idle" /\ sentEvent = 0 /\ acknowledged = FALSE
    /\ connected = FALSE
    /\ published = 0 /\ bootMark = 0 /\ arrived = {}

Next ==
    \/ publishCommon \/ loop
    \/ SendArrives \/ SendFails \/ Callback
    \/ DelayPasses \/ ConnectionChanges \/ UpdateComplete
    \/ Reset \/ ResetInPublish

Spec == Init /\ [][Next]_vars

(* The loop and the thread run for ever and time passes. The cloud         *)
(* acknowledges an event that is sent again and again, and the loop does   *)
(* not run between the callback's two flags every time it does.            *)
Fairness ==
    /\ WF_vars(loop) /\ WF_vars(Callback) /\ WF_vars(DelayPasses)
    /\ WF_vars(SendArrives \/ SendFails)
    /\ SF_vars(SendArrives /\ acknowledged')
    /\ SF_vars(CallbackTellsResult /\ acknowledged /\ stateHandler = "publishWait")

FairSpec == Spec /\ Fairness

-----------------------------------------------------------------------------
(* Properties. *)

QueueTypeOK ==
    /\ DOMAIN disk \subseteq 1..MaxEvents
    /\ \A n \in DOMAIN disk : disk[n] \in Events \cup {Corrupt}
    /\ fileQueue \in Seq(1..MaxEvents) /\ lastFileNum \in 0..MaxEvents
    /\ stateHandler \in Handlers /\ delayOver \in BOOLEAN
    /\ curFileNum \in 0..MaxEvents /\ curEvent \in Events \cup {0}
    /\ publishComplete \in BOOLEAN /\ publishSuccess \in BOOLEAN
    /\ canSleep \in BOOLEAN /\ pausePublishing \in BOOLEAN
    /\ sending \in SenderStates /\ sentEvent \in Events \cup {0}
    /\ acknowledged \in BOOLEAN /\ connected \in BOOLEAN
    /\ published \in 0..MaxEvents /\ bootMark \in 0..published
    /\ arrived \subseteq 1..published

(* Every file is in the queue, once: a file left out of it would not be    *)
(* sent before the next restart, a number given twice would overwrite the  *)
(* event that has it.                                                      *)
FilesAreQueued ==
    /\ DOMAIN disk \subseteq Range(fileQueue)
    /\ \A i, j \in DOMAIN fileQueue : fileQueue[i] = fileQueue[j] => i = j
    /\ \A i \in DOMAIN fileQueue : fileQueue[i] <= lastFileNum

(* The queue keeps the promise of the event store: sending, its races with *)
(* publish and with the callback, failures, lost connections and restarts  *)
(* lose no event.                                                          *)
Pending == {disk[n] : n \in DOMAIN disk} \ {Corrupt}
Store == INSTANCE EventStore WITH accepted <- published, pending <- Pending
StoreSpec == Store!Spec

(* Within a boot the events arrive in the order they were published: when  *)
(* one arrives for the first time, older ones still kept have arrived, or  *)
(* come from before the boot, in whose order nothing is promised.          *)
ArrivesInOrder ==
    [][\A e \in arrived' \ arrived : \A f \in Pending \ arrived :
          f < e => e <= bootMark]_vars

(* With the connection back for good, publishing not paused and no more    *)
(* restarts, everything is sent and the trolley may sleep.                 *)
QueueDrains ==
    /\ <>[]connected /\ <>[]~pausePublishing
    /\ <>[][~(Reset \/ ResetInPublish)]_vars
    => <>[](fileQueue = <<>> /\ canSleep)
=============================================================================
