------------------------ MODULE MirrorPipeline_proofs -----------------------
(***************************************************************************)
(* Proofs about MirrorPipeline, for any set of descriptors and any number  *)
(* of messages.                                                            *)
(***************************************************************************)
EXTENDS MirrorPipeline, SequenceTheorems, TLAPS

EventRec == [name : Events, epoch : Nat]
Entry == Buffer \cup {Absent}

\* The queue's type survives posting and delivering.
LEMMA QueueType ==
  /\ \A name \in Events : TypeOK => Append(gq, Event(name)) \in Seq(EventRec)
  /\ TypeOK /\ gq # <<>> => Tail(gq) \in Seq(EventRec)
  BY DEF TypeOK, Event, EventRec

LEMMA TypeInit == Init => TypeOK
<1> SUFFICES ASSUME Init PROVE TypeOK
  OBVIOUS
<1>1. /\ buffers \in [Fds -> Entry] /\ frames \in [Fds -> Entry]
      /\ iterBuffers \in [Fds -> Entry] /\ iterFrames \in [Fds -> Entry]
  BY DEF Init, ViewInit, Nothing, Entry
<1>2. gq \in Seq(EventRec)
  BY DEF Init, ReceiverInit
<1> QED
  BY <1>1, <1>2 DEF Init, CastInit, ReceiverInit, ViewInit, TypeOK, Entry, EventRec, Cmds,
     AnyFd, ReceiverSteps, GuiSteps, StopSteps

LEMMA TypeStep == TypeOK /\ [Next]_vars => TypeOK'
<1> SUFFICES ASSUME TypeOK, [Next]_vars PROVE TypeOK'
  OBVIOUS
<1>1. CASE Bind
  BY <1>1 DEF Bind, SetVideoSurface, castVars, receiverVars, flagVars, stopVars, TypeOK
<1>2. CASE Start
  BY <1>2 DEF Start, StartReceiver, castVars, viewVars, stopVars, flagVars, TypeOK, ReceiverSteps
<1>3. CASE Read
  BY <1>3 DEF Read, CastStep, ReadNotice, ReadSurface, ExportSurface, LoseConnection,
     NextMessage, flagVars, viewVars, stopVars, TypeOK, Cmds, AnyFd, ReceiverSteps
<1>4. CASE Update
  <2> USE <1>4 DEF Update, castVars, viewVars, stopVars, flagVars, TypeOK, ReceiverSteps
  <2>1. CASE EnterUpdate
    BY <2>1 DEF EnterUpdate
  <2>2. CASE HasContent
    BY <2>2 DEF HasContent
  <2>3. CASE NoContentTest
    BY <2>3 DEF NoContentTest
  <2>4. CASE NoContentWas
    BY <2>4, QueueType DEF NoContentWas, Post, Events, EventRec
  <2>5. CASE NoContentAlways
    BY <2>5, QueueType DEF NoContentAlways, Post, Events, EventRec
  <2>6. CASE NoContentStop
    BY <2>6, QueueType DEF NoContentStop, Post, Events, EventRec
  <2>7. CASE SurfaceInfo
    BY <2>7, QueueType DEF SurfaceInfo, Post, Events, EventRec
  <2>8. CASE FirstFrame
    BY <2>8, QueueType DEF FirstFrame, Post, Events, EventRec
  <2> QED BY <2>1, <2>2, <2>3, <2>4, <2>5, <2>6, <2>7, <2>8 DEF UpdateStep
<1> Nothing \in [Fds -> Buffer \cup {Absent}]
  BY DEF Nothing
<1>5. CASE Deliver
  BY <1>5, QueueType DEF Deliver, DeliverFrame, DeliverNull, DeliverStart, DeliverStop, Take,
     OnBufferFDUpdate, OnMirrorStart, OnMirrorStop, castVars, flagVars, stopVars, TypeOK, AnyFd,
     EventRec, StopSteps
<1>6. CASE Watchdog
  BY <1>6 DEF Watchdog, StopDirectly, EmitStop, OnMirrorStop, TimerDue, CheckMirror,
     CheckTimeout, ClearMirror, ArmTimeout, castVars, flagVars, viewVars, stopVars, TypeOK,
     AnyFd, GuiSteps, StopSteps
<1>9. CASE StopSlot
  BY <1>9 DEF StopSlot, StopOn, ClearFrames, LeaveFrames, LeaveBuffers, castVars, receiverVars,
     flagVars, TypeOK, AnyFd, StopSteps
<1>7. CASE Render
  <2> USE <1>7 DEF Render, castVars, receiverVars, flagVars, stopVars
  <2>1. CASE SyncNothing
    BY <2>1 DEF SyncNothing, TypeOK
  <2>2. CASE CacheFrame /\ surface' \in {"none", "inactive", "active"} /\ presented' \in AnyFd
    <3>1. bufferFD \in Fds
      BY <2>2 DEF CacheFrame, TypeOK, AnyFd
    <3>2. buffers' \in [Fds -> Entry]
      <4>1. CASE buffers[bufferFD] = Absent
        <5>1. PICK b \in MirrorVideoBuffers : buffers' = [buffers EXCEPT ![bufferFD] = b]
          BY <2>2, <4>1 DEF CacheFrame
        <5>2. b \in Entry
          <6>1. PICK ok \in {FALSE, surf.fd # NoFd} : b = [epoch |-> epoch, valid |-> ok]
            BY DEF MirrorVideoBuffers
          <6>2. ok \in BOOLEAN /\ epoch \in Nat
            BY DEF TypeOK
          <6> QED BY <6>1, <6>2 DEF Entry, Buffer
        <5> QED BY <5>1, <5>2 DEF TypeOK, Entry
      <4>2. CASE buffers[bufferFD] # Absent
        BY <2>2, <4>2 DEF CacheFrame, TypeOK, Entry
      <4> QED BY <4>1, <4>2
    <3>3. frames' \in [Fds -> Entry]
      BY <2>2, <3>1, <3>2 DEF CacheFrame, TypeOK, Entry
    <3> QED BY <2>2, <3>2, <3>3 DEF CacheFrame, TypeOK, Entry
  <2>3. CASE SyncStartFailed
    BY <2>2, <2>3 DEF SyncStartFailed, TypeOK
  <2>4. CASE SyncPresent
    BY <2>2, <2>4 DEF SyncPresent, TypeOK
  <2> QED BY <2>1, <2>3, <2>4 DEF Sync
<1>8. CASE UNCHANGED vars
  BY <1>8 DEF vars, castVars, receiverVars, flagVars, viewVars, stopVars, TypeOK
<1> QED BY <1>1, <1>2, <1>3, <1>4, <1>5, <1>6, <1>7, <1>8, <1>9 DEF Next, Receiver

\* The type invariant: every variable of the three threads stays in its range.
THEOREM TypeCorrect == Spec => []TypeOK
<1> QED BY TypeInit, TypeStep, PTL DEF Spec

-----------------------------------------------------------------------------
\* What update() is doing agrees with the command in the Surface.
CommandMatches ==
  /\ rpc = "off" => surf.cmd = "NONE"
  /\ rpc \in NoContentSteps => surf.cmd = "NO_CONTENT"
  /\ rpc = "hasContent" => surf.cmd = "HAS_CONTENT"
  /\ rpc \in {"export", "surfaceInfo", "firstFrame"} => surf.cmd = "SURFACE_INFO"

LEMMA CommandMatchesStep ==
  ASSUME TypeOK, CommandMatches, [Next]_vars
  PROVE  CommandMatches'
<1> USE DEF CommandMatches, NoContentSteps
<1>1. CASE Bind \/ Deliver \/ StopSlot \/ Render \/ UNCHANGED vars
  BY <1>1 DEF Bind, Deliver, DeliverFrame, DeliverNull, DeliverStart, DeliverStop, Take, StopSlot,
     Render, vars, castVars, receiverVars
<1>2. CASE Start
  BY <1>2 DEF Start, StartReceiver, castVars
<1>3. CASE Watchdog
  BY <1>3 DEF Watchdog, StopDirectly, EmitStop, TimerDue, CheckMirror, CheckTimeout,
     ClearMirror, ArmTimeout, castVars
<1>4. CASE Read
  BY <1>4 DEF Read, CastStep, ReadNotice, ReadSurface, ExportSurface, LoseConnection,
     NextMessage, Cmds, TypeOK
<1>5. CASE Update
  BY <1>5 DEF Update, UpdateStep, EnterUpdate, HasContent, NoContentTest, NoContentWas,
     NoContentAlways, NoContentStop, SurfaceInfo, FirstFrame, castVars
<1> QED BY <1>1, <1>2, <1>3, <1>4, <1>5 DEF Next, Receiver

-----------------------------------------------------------------------------
(***************************************************************************)
(* What a step of the pipeline does to the queue and the cached images: it *)
(* leaves them alone, opens a new epoch, posts an event, takes one that is *)
(* no stop, empties m_Buffers, or caches an image of the current epoch.    *)
(***************************************************************************)
Quiet ==
  UNCHANGED <<buffers, gq, epoch>> /\ (InNoContent => InNoContent')
NewEpoch ==
  UNCHANGED <<buffers, gq>> /\ epoch' = epoch + 1 /\ InNoContent'
Posting ==
  /\ UNCHANGED <<buffers, epoch>>
  /\ \E name \in Events :
       /\ Post(name)
       /\ name = "updateBufferFD" => ~InNoContent
       /\ InNoContent => InNoContent' \/ name = "stopMirror"
Taking ==
  /\ gq # <<>> /\ Head(gq).name # "stopMirror" /\ gq' = Tail(gq)
  /\ UNCHANGED <<buffers, epoch, surf, rpc>>
Clearing ==
  /\ \A fd \in Fds : buffers'[fd] = Absent
  /\ gq' = gq \/ (gq # <<>> /\ gq' = Tail(gq))
  /\ UNCHANGED epoch
Caching ==
  /\ UNCHANGED <<gq, epoch, surf, rpc>>
  /\ \A fd \in Fds : buffers'[fd] = buffers[fd] \/ buffers'[fd].epoch = epoch

LEMMA ReceiverKinds ==
  ASSUME TypeOK, CommandMatches, Receiver
  PROVE  Quiet \/ NewEpoch \/ Posting
<1> USE DEF CommandMatches, InNoContent, NoContentSteps
<1>1. CASE Read
  <2> USE <1>1 DEF Read, flagVars, viewVars, NextMessage
  <2>1. ASSUME NEW cmd \in Cmds \ {"SURFACE_INFO"}, ReadNotice(cmd) PROVE Quiet \/ NewEpoch
    BY <2>1 DEF ReadNotice, Quiet, NewEpoch, TypeOK
  <2>2. CASE ReadSurface \/ ExportSurface \/ LoseConnection
    BY <2>2 DEF ReadSurface, ExportSurface, LoseConnection, Quiet, TypeOK
  <2> QED BY <2>1, <2>2 DEF CastStep
<1>2. CASE Update
  <2> USE <1>2 DEF Update, castVars, viewVars, flagVars
  <2>1. CASE EnterUpdate \/ HasContent \/ NoContentTest
    BY <2>1 DEF EnterUpdate, HasContent, NoContentTest, Quiet
  <2>2. CASE NoContentWas
    BY <2>2 DEF NoContentWas, Posting, Events
  <2>3. CASE NoContentAlways
    BY <2>3 DEF NoContentAlways, Posting, Events
  <2>4. CASE NoContentStop
    BY <2>4 DEF NoContentStop, Posting, Events
  <2>5. CASE SurfaceInfo
    BY <2>5 DEF SurfaceInfo, Posting, Events
  <2>6. CASE FirstFrame
    BY <2>6 DEF FirstFrame, Posting, Quiet, Events
  <2> QED BY <2>1, <2>2, <2>3, <2>4, <2>5, <2>6 DEF UpdateStep
<1> QED BY <1>1, <1>2 DEF Receiver

LEMMA GuiKinds ==
  ASSUME TypeOK, Bind \/ Start \/ Deliver \/ StopSlot \/ Watchdog \/ UNCHANGED vars
  PROVE  Quiet \/ Taking \/ Clearing
<1> USE DEF InNoContent, NoContentSteps, castVars, receiverVars, flagVars, viewVars
<1>1. CASE Bind \/ Start \/ UNCHANGED vars
  BY <1>1 DEF Bind, SetVideoSurface, Start, StartReceiver, vars, Quiet
<1>2. CASE DeliverFrame \/ DeliverNull \/ DeliverStart
  BY <1>2 DEF DeliverFrame, DeliverNull, DeliverStart, Take, OnBufferFDUpdate, OnMirrorStart, Taking
<1>3. CASE DeliverStop
  BY <1>3 DEF DeliverStop, Take, OnMirrorStop, Nothing, Clearing
<1>4. CASE StopDirectly
  BY <1>4 DEF StopDirectly, EmitStop, OnMirrorStop, Nothing, Clearing
<1>5. CASE Watchdog /\ ~StopDirectly
  BY <1>5 DEF Watchdog, TimerDue, CheckMirror, CheckTimeout, ClearMirror, ArmTimeout, Quiet
<1>6. CASE StopSlot
  BY <1>6 DEF StopSlot, StopOn, ClearFrames, LeaveFrames, LeaveBuffers, Quiet
<1> QED BY <1>1, <1>2, <1>3, <1>4, <1>5, <1>6 DEF Deliver

LEMMA RenderKinds ==
  ASSUME TypeOK, Render
  PROVE  Quiet \/ Caching
<1> USE DEF Render, castVars, receiverVars, flagVars
<1>1. CASE SyncNothing
  BY <1>1 DEF SyncNothing, Quiet, InNoContent
<1>2. CASE CacheFrame
  <2>1. bufferFD \in Fds
    BY <1>2 DEF CacheFrame, TypeOK, AnyFd
  <2>2. CASE buffers[bufferFD] = Absent
    <3>1. PICK b \in MirrorVideoBuffers : buffers' = [buffers EXCEPT ![bufferFD] = b]
      BY <1>2, <2>2 DEF CacheFrame
    <3>2. b.epoch = epoch
      BY DEF MirrorVideoBuffers
    <3> QED BY <2>1, <3>1, <3>2 DEF Caching, TypeOK
  <2>3. CASE buffers[bufferFD] # Absent
    BY <1>2, <2>3 DEF CacheFrame, Caching
  <2> QED BY <2>2, <2>3
<1> QED BY <1>1, <1>2 DEF Sync, SyncStartFailed, SyncPresent

-----------------------------------------------------------------------------
\* THE INDUCTIVE INVARIANT OF THE CACHES.  ClosedImagesLeave is inductive once
\* the command is known; NoImageOfOldSession needs it when a descriptor is
\* posted, and needs to know that no event is from a later epoch.
QueueEpochs == \A i \in 1..Len(gq) : gq[i].epoch <= epoch

CacheInv ==
  /\ TypeOK /\ CommandMatches
  /\ QueueEpochs /\ ClosedImagesLeave /\ NoImageOfOldSession

\* A posted event is the last of the queue; the others stay where they are.
LEMMA Posted ==
  ASSUME TypeOK, NEW name \in Events, Post(name)
  PROVE  /\ Len(gq') = Len(gq) + 1
         /\ gq'[Len(gq) + 1] = [name |-> name, epoch |-> epoch]
         /\ \A i \in 1..Len(gq) : gq'[i] = gq[i]
  BY DEF Post, Event, TypeOK

\* Taking the oldest event moves the others one place to the front.
LEMMA Taken ==
  ASSUME TypeOK, gq # <<>>, gq' = Tail(gq)
  PROVE  /\ Len(gq) \in Nat \ {0}
         /\ Len(gq') = Len(gq) - 1
         /\ gq[1] = Head(gq)
         /\ \A i \in 1..Len(gq') : gq'[i] = gq[i + 1]
  BY DEF TypeOK

\* A queued stop stays queued until it is the one taken.
LEMMA TakenStop ==
  ASSUME TypeOK, gq # <<>>, gq' = Tail(gq), Head(gq).name # "stopMirror",
         NEW n \in 1..Len(gq), StopQueued(n)
  PROVE  StopQueued(n - 1)'
<1>1. PICK i \in 1..n : gq[i].name = "stopMirror"
  BY DEF StopQueued
<1>2. i # 1 /\ i - 1 \in 1..(n - 1) /\ i - 1 \in 1..Len(gq')
  BY <1>1, Taken
<1>3. gq'[i - 1].name = "stopMirror"
  <2>1. gq'[i - 1] = gq[(i - 1) + 1]
    BY <1>2, Taken
  <2> QED BY <1>1, <2>1
<1> QED BY <1>2, <1>3 DEF StopQueued

LEMMA CacheStep ==
  ASSUME CacheInv, CommandMatches', TypeOK',
         Quiet \/ NewEpoch \/ Posting \/ Taking \/ Clearing \/ Caching
  PROVE  CacheInv'
<1> USE DEF CacheInv
<1>0. epoch \in Nat /\ Len(gq) \in Nat /\ \A i \in 1..Len(gq) : gq[i].epoch \in Nat
  <2>1. gq \in Seq(EventRec)
    BY DEF TypeOK, EventRec
  <2>2. \A i \in 1..Len(gq) : gq[i] \in EventRec
    BY <2>1
  <2> QED BY <2>1, <2>2 DEF TypeOK, EventRec
<1>1. CASE Quiet
  BY <1>1 DEF Quiet, QueueEpochs, ClosedImagesLeave, NoImageOfOldSession, StopQueued
<1>2. CASE NewEpoch
  BY <1>0, <1>2 DEF NewEpoch, QueueEpochs, ClosedImagesLeave,
     NoImageOfOldSession, StopQueued
<1>3. CASE Posting
  <2>1. PICK name \in Events :
          /\ Post(name)
          /\ name = "updateBufferFD" => ~InNoContent
          /\ InNoContent => InNoContent' \/ name = "stopMirror"
    BY <1>3 DEF Posting
  <2>0. /\ Len(gq') = Len(gq) + 1
        /\ gq'[Len(gq) + 1] = [name |-> name, epoch |-> epoch]
        /\ \A i \in 1..Len(gq) : gq'[i] = gq[i]
    BY <2>1, Posted
  <2> USE <1>0, <1>3, <2>0, <2>1 DEF Posting
  <2>2. QueueEpochs'
    BY DEF QueueEpochs
  <2>3. \A n \in 0..Len(gq) : StopQueued(n) => StopQueued(n)'
    BY DEF StopQueued
  <2>4. ClosedImagesLeave'
    <3>1. CASE name = "stopMirror"
      BY <3>1 DEF ClosedImagesLeave, StopQueued
    <3>2. CASE name # "stopMirror"
      <4>1. StopQueued(Len(gq)) => StopQueued(Len(gq))'
        BY DEF StopQueued
      <4> QED BY <3>2, <4>1 DEF ClosedImagesLeave
    <3> QED BY <3>1, <3>2
  <2>5. NoImageOfOldSession'
    <3> SUFFICES ASSUME NEW i \in 1..Len(gq'), NEW fd \in Fds,
                        gq'[i].name = "updateBufferFD", buffers[fd] # Absent,
                        buffers[fd].epoch < gq'[i].epoch
                 PROVE  StopQueued(i - 1)'
      BY DEF NoImageOfOldSession
    <3>1. CASE i = Len(gq) + 1
      <4>1. StopQueued(Len(gq))
        BY <3>1 DEF ClosedImagesLeave
      <4> QED BY <2>3, <3>1, <4>1
    <3>2. CASE i \in 1..Len(gq)
      <4>1. StopQueued(i - 1)
        BY <3>2 DEF NoImageOfOldSession
      <4> QED BY <2>3, <3>2, <4>1
    <3> QED BY <3>1, <3>2
  <2> QED BY <2>2, <2>4, <2>5
<1>4. CASE Taking
  <2> USE Taken, <1>0, <1>4 DEF Taking
  <2>1. QueueEpochs'
    BY DEF QueueEpochs
  <2>2. ClosedImagesLeave'
    BY TakenStop DEF ClosedImagesLeave, InNoContent
  <2>3. NoImageOfOldSession'
    <3> SUFFICES ASSUME NEW i \in 1..Len(gq'), NEW fd \in Fds,
                        gq'[i].name = "updateBufferFD", buffers[fd] # Absent,
                        buffers[fd].epoch < gq'[i].epoch
                 PROVE  StopQueued(i - 1)'
      BY DEF NoImageOfOldSession
    <3>1. i + 1 \in 1..Len(gq) /\ gq'[i] = gq[i + 1]
      OBVIOUS
    <3>2. StopQueued(i)
      BY <3>1 DEF NoImageOfOldSession
    <3> QED BY <3>1, <3>2, TakenStop
  <2> QED BY <2>1, <2>2, <2>3
<1>5. CASE Clearing
  <2>1. ClosedImagesLeave' /\ NoImageOfOldSession'
    BY <1>5 DEF Clearing, ClosedImagesLeave, NoImageOfOldSession
  <2>2. QueueEpochs'
    BY <1>0, <1>5, Taken DEF Clearing, QueueEpochs
  <2> QED BY <2>1, <2>2
<1>6. CASE Caching
  <2>1. QueueEpochs'
    BY <1>6 DEF Caching, QueueEpochs
  <2>2. \A n \in Nat : StopQueued(n) => StopQueued(n)'
    BY <1>6 DEF Caching, StopQueued
  <2>3. ASSUME NEW fd \in Fds, buffers'[fd] # Absent, buffers'[fd].epoch < epoch
        PROVE  buffers[fd] = buffers'[fd]
    BY <1>0, <1>6, <2>3 DEF Caching
  <2>4. ClosedImagesLeave'
    BY <1>0, <1>6, <2>2, <2>3 DEF Caching, ClosedImagesLeave, InNoContent
  <2>5. NoImageOfOldSession'
    <3> SUFFICES ASSUME NEW i \in 1..Len(gq), NEW fd \in Fds,
                        gq[i].name = "updateBufferFD", buffers'[fd] # Absent,
                        buffers'[fd].epoch < gq[i].epoch
                 PROVE  StopQueued(i - 1)'
      BY <1>6 DEF NoImageOfOldSession, Caching
    <3>1. buffers'[fd] = buffers[fd]
      BY <1>0, <1>6 DEF Caching, QueueEpochs
    <3>2. StopQueued(i - 1)
      BY <3>1 DEF NoImageOfOldSession
    <3> QED BY <1>0, <2>2, <3>2
  <2> QED BY <1>6, <2>1, <2>4, <2>5
<1> QED BY <1>1, <1>2, <1>3, <1>4, <1>5, <1>6

LEMMA CacheInit == Init => CacheInv
<1> SUFFICES ASSUME Init PROVE CacheInv
  OBVIOUS
<1>1. /\ rpc = "off" /\ surf.cmd = "NONE" /\ gq = <<>>
      /\ \A fd \in Fds : buffers[fd] = Absent
  BY DEF Init, CastInit, ReceiverInit, ViewInit, Nothing
<1> QED
  BY <1>1, TypeInit DEF CacheInv, CommandMatches, NoContentSteps,
     QueueEpochs, ClosedImagesLeave, NoImageOfOldSession

LEMMA CacheNext == CacheInv /\ [Next]_vars => CacheInv'
<1> SUFFICES ASSUME CacheInv, [Next]_vars PROVE CacheInv'
  OBVIOUS
<1>1. TypeOK' /\ CommandMatches'
  BY TypeStep, CommandMatchesStep DEF CacheInv
<1>2. CASE Receiver
  BY <1>1, <1>2, ReceiverKinds, CacheStep DEF CacheInv
<1>3. CASE Render
  BY <1>1, <1>3, RenderKinds, CacheStep DEF CacheInv
<1>4. CASE Bind \/ Start \/ Deliver \/ StopSlot \/ Watchdog \/ UNCHANGED vars
  BY <1>1, <1>4, GuiKinds, CacheStep DEF CacheInv
<1> QED BY <1>2, <1>3, <1>4 DEF Next

LEMMA CacheInvariant == Spec => []CacheInv
  BY CacheInit, CacheNext, PTL DEF Spec

\* Images of closed descriptors are always about to be dropped.
THEOREM ClosedImages == Spec => []ClosedImagesLeave
<1>1. CacheInv => ClosedImagesLeave
  BY DEF CacheInv
<1> QED BY <1>1, CacheInvariant, PTL

\* A descriptor number that is used again never meets the image of its last use.
THEOREM OldSessions == Spec => []NoImageOfOldSession
<1>1. CacheInv => NoImageOfOldSession
  BY DEF CacheInv
<1> QED BY <1>1, CacheInvariant, PTL

-----------------------------------------------------------------------------
(***************************************************************************)
(* FRAMES AND BUFFERS.  Outside onMirrorStop() the two caches are equal    *)
(* and no iterator holds anything.  From stage to stage the buffers move   *)
(* to i, the frames to j, then j goes and i after it.                      *)
(***************************************************************************)
Stages ==
  /\ stopping = "no" => frames = buffers /\ iterFrames = Nothing /\ iterBuffers = Nothing
  /\ stopping = "frames" => frames = iterBuffers /\ buffers = Nothing /\ iterFrames = Nothing
  /\ stopping = "leave" => iterFrames = iterBuffers /\ buffers = Nothing /\ frames = Nothing
  /\ stopping = "release" => iterFrames = Nothing /\ buffers = Nothing /\ frames = Nothing

LEMMA StagesStep ==
  ASSUME TypeOK, Stages, [Next]_vars
  PROVE  Stages'
<1> USE DEF castVars, receiverVars
<1>1. CASE Bind \/ Start \/ Receiver \/ DeliverFrame \/ DeliverNull \/ DeliverStart
           \/ (Watchdog /\ ~StopDirectly) \/ UNCHANGED vars
  <2>1. UNCHANGED <<frames, buffers, stopVars>>
    BY <1>1 DEF Bind, SetVideoSurface, Start, Receiver, Read, Update, DeliverFrame, DeliverNull,
       OnBufferFDUpdate, DeliverStart, OnMirrorStart, Watchdog, vars, viewVars
  <2> QED BY <2>1 DEF Stages, stopVars
<1>2. CASE DeliverStop \/ (StopDirectly /\ stopping = "no")
  <2>1. stopping = "no" /\ OnMirrorStop
    BY <1>2 DEF DeliverStop, Take, StopDirectly
  <2> QED BY <2>1 DEF OnMirrorStop, Stages
<1>3. CASE StopSlot
  BY <1>3 DEF StopSlot, StopOn, ClearFrames, LeaveFrames, LeaveBuffers, Stages
<1>4. CASE Render
  <2>1. stopping = "no" /\ UNCHANGED stopVars
    BY <1>4 DEF Render, Sync, SyncNothing, SyncStartFailed, SyncPresent, CacheFrame
  <2>2. CASE SyncNothing
    BY <2>1, <2>2 DEF SyncNothing, Stages, stopVars
  <2>3. CASE CacheFrame
    <3>1. bufferFD \in Fds
      BY <2>3 DEF CacheFrame, TypeOK, AnyFd
    <3>2. CASE buffers[bufferFD] = Absent
      <4>1. PICK b \in MirrorVideoBuffers : buffers' = [buffers EXCEPT ![bufferFD] = b]
        BY <2>3, <3>2 DEF CacheFrame
      <4>2. frames' = buffers'
        BY <2>1, <2>3, <3>1, <3>2, <4>1 DEF CacheFrame, TypeOK, Stages
      <4> QED BY <2>1, <4>2 DEF Stages, stopVars
    <3>3. CASE buffers[bufferFD] # Absent
      BY <2>1, <2>3, <3>3 DEF CacheFrame, Stages, stopVars
    <3> QED BY <3>2, <3>3
  <2> QED BY <1>4, <2>2, <2>3 DEF Render, Sync, SyncStartFailed, SyncPresent
<1> QED BY <1>1, <1>2, <1>3, <1>4 DEF Next, Deliver, Watchdog

\* No frame outlives the buffer it points to, whatever the order of slots,
\* watchdog and render steps, and at every stage of taking the caches down.
THEOREM FramesWrap == Spec => []FramesWrapBuffers
<1>1. Init => TypeOK /\ Stages
  BY TypeInit DEF Init, ViewInit, Stages
<1>2. TypeOK /\ Stages /\ [Next]_vars => TypeOK' /\ Stages'
  BY TypeStep, StagesStep
<1>3. TypeOK /\ Stages => FramesWrapBuffers
  BY DEF TypeOK, StopSteps, Stages, FramesWrapBuffers, Alive, Nothing
<1> QED BY <1>1, <1>2, <1>3, PTL DEF Spec

-----------------------------------------------------------------------------
\* A step that stops the mirror found haveTimeout set, and whoever sets it has
\* just forgotten what was heard: haveTimeout => ~heard is inductive.
THEOREM WatchdogWaits == Spec => StopAfterSilence
<1> DEFINE Armed == haveTimeout => ~heard
<1>1. Init => Armed
  BY DEF Init, ReceiverInit
<1>2. Armed /\ [Next]_vars => Armed'
  <2> SUFFICES ASSUME Armed, [Next]_vars PROVE Armed'
    OBVIOUS
  <2> USE DEF castVars, receiverVars, flagVars, viewVars
  <2>1. CASE Bind \/ Start \/ Deliver \/ StopSlot \/ Render \/ Read \/ UNCHANGED vars
    BY <2>1 DEF Bind, Start, StartReceiver, Deliver, DeliverFrame, DeliverNull, DeliverStart,
       DeliverStop, Take, StopSlot, Render, Read, vars
  <2>2. CASE Update
    BY <2>2 DEF Update, UpdateStep, EnterUpdate, HasContent, NoContentTest, NoContentWas,
       NoContentAlways, NoContentStop, SurfaceInfo, FirstFrame
  <2>3. CASE Watchdog
    BY <2>3 DEF Watchdog, StopDirectly, EmitStop, TimerDue, CheckMirror, CheckTimeout,
       ClearMirror, ArmTimeout
  <2> QED BY <2>1, <2>2, <2>3 DEF Next, Receiver
<1>3. Armed /\ [Next]_vars => [gpc = "checkTimeout" /\ gpc' = "stop" => ~heard]_vars
  <2> SUFFICES ASSUME Armed, Next, gpc = "checkTimeout", gpc' = "stop" PROVE ~heard
    OBVIOUS
  <2>1. CheckTimeout
    BY DEF Next, Receiver, Read, Update, UpdateStep, EnterUpdate, HasContent, NoContentTest,
       NoContentWas, NoContentAlways, NoContentStop, SurfaceInfo, FirstFrame, Bind, Start,
       StartReceiver, Deliver, DeliverFrame, DeliverNull, DeliverStart, DeliverStop, Take,
       StopSlot, Render, Watchdog, StopDirectly, EmitStop, TimerDue, CheckMirror, ClearMirror,
       ArmTimeout, castVars, receiverVars, flagVars, viewVars
  <2> QED BY <2>1 DEF CheckTimeout
<1> QED BY <1>1, <1>2, <1>3, PTL DEF Spec, StopAfterSilence

-----------------------------------------------------------------------------
(***************************************************************************)
(* NO_CONTENT.  The strengthening says that line 58 has cleared haveMirror *)
(* before the last stopMirror is posted: only HAS_CONTENT sets it again.   *)
(***************************************************************************)
NoContentInv ==
  /\ TypeOK /\ CommandMatches /\ Stages
  /\ rpc = "noContentStop" => ~haveMirror
  /\ NoContentClears

LEMMA NoContentInit == Init => NoContentInv
<1> SUFFICES ASSUME Init PROVE NoContentInv
  OBVIOUS
<1>1. rpc = "off" /\ surf.cmd = "NONE"
  BY DEF Init, CastInit, ReceiverInit
<1>2. Stages
  BY DEF Init, ViewInit, Stages
<1> QED BY <1>1, <1>2, TypeInit DEF NoContentInv, CommandMatches, NoContentSteps, NoContentClears

\* The receiver: only its last step of NO_CONTENT comes back to reading with
\* that command in the Surface.
LEMMA NoContentReceiver ==
  ASSUME NoContentInv, Receiver
  PROVE  NoContentClears' /\ (rpc = "noContentStop" => ~haveMirror)'
<1> USE DEF NoContentInv, CommandMatches, NoContentSteps, NoContentClears
<1>1. CASE Read
  BY <1>1 DEF Read, CastStep, ReadNotice, ReadSurface, ExportSurface, LoseConnection, NextMessage
<1>2. CASE Update
  <2> USE <1>2 DEF Update, castVars
  <2>1. CASE NoContentStop
    <3>1. Post("stopMirror") /\ UNCHANGED haveMirror /\ rpc = "noContentStop" /\ rpc' = "read"
      BY <2>1 DEF NoContentStop, flagVars
    <3>2. gq' # <<>> /\ gq'[Len(gq')].name = "stopMirror"
      <4>1. /\ Len(gq') = Len(gq) + 1
            /\ gq'[Len(gq) + 1] = [name |-> "stopMirror", epoch |-> epoch]
        BY <3>1, Posted DEF Events
      <4>2. Len(gq) \in Nat
        BY DEF TypeOK
      <4> QED BY <4>1, <4>2
    <3> QED BY <3>1, <3>2
  <2>2. CASE EnterUpdate
    BY <2>2 DEF EnterUpdate
  <2>3. CASE HasContent \/ SurfaceInfo \/ FirstFrame
    BY <2>3 DEF HasContent, SurfaceInfo, FirstFrame, flagVars
  <2>4. CASE NoContentTest \/ NoContentWas \/ NoContentAlways
    BY <2>4 DEF NoContentTest, NoContentWas, NoContentAlways, flagVars
  <2> QED BY <2>1, <2>2, <2>3, <2>4 DEF UpdateStep
<1> QED BY <1>1, <1>2 DEF Receiver

\* A slot: the last event in the queue stays last, and when it is taken it is
\* the stop that clears the view.
LEMMA NoContentSlots ==
  ASSUME NoContentInv, Deliver \/ StopDirectly
  PROVE  NoContentClears' /\ (rpc = "noContentStop" => ~haveMirror)'
<1> USE DEF NoContentInv
<1>1. UNCHANGED <<surf, rpc, haveMirror>>
  BY DEF Deliver, DeliverFrame, DeliverNull, DeliverStart, DeliverStop, Take, StopDirectly,
     EmitStop, castVars, flagVars
<1>2. CASE DeliverStop \/ StopDirectly
  <2>1. stopping' = "frames"
    BY <1>2 DEF DeliverStop, StopDirectly, OnMirrorStop
  <2>2. gq' = gq \/ (gq # <<>> /\ gq' = Tail(gq))
    BY <1>2 DEF DeliverStop, StopDirectly, EmitStop, Take
  <2>3. gq \in Seq(EventRec)
    BY DEF TypeOK, EventRec
  <2>4. gq' # <<>> => gq # <<>> /\ gq'[Len(gq')] = gq[Len(gq)]
    BY <2>2, <2>3
  <2> QED BY <1>1, <2>1, <2>4 DEF NoContentClears
<1>3. CASE DeliverFrame \/ DeliverNull \/ DeliverStart
  <2>1. gq # <<>> /\ gq' = Tail(gq) /\ Head(gq).name # "stopMirror"
    BY <1>3 DEF DeliverFrame, DeliverNull, DeliverStart, Take
  <2>2. gq \in Seq(EventRec)
    BY DEF TypeOK, EventRec
  <2>3. ASSUME gq[Len(gq)].name = "stopMirror"
        PROVE  gq' # <<>> /\ gq'[Len(gq')] = gq[Len(gq)]
    <3>1. /\ Len(gq) \in Nat \ {0} /\ Len(gq') = Len(gq) - 1 /\ gq[1] = Head(gq)
          /\ \A i \in 1..Len(gq') : gq'[i] = gq[i + 1]
      BY <2>1, Taken
    <3>2. Len(gq) # 1
      BY <2>1, <2>3, <3>1
    <3> QED BY <3>1, <3>2
  <2> QED BY <1>1, <2>1, <2>3 DEF NoContentClears
<1> QED BY <1>2, <1>3 DEF Deliver

\* The stage of the slot after which the view is clear: nothing is cached any more
\* and the two members are reset.
LEMMA StageClears ==
  ASSUME Stages, ClearFrames
  PROVE  Cleared'
  BY DEF Stages, ClearFrames, Cleared, Nothing

LEMMA NoContentStep == NoContentInv /\ [Next]_vars => NoContentInv'
<1> SUFFICES ASSUME NoContentInv, [Next]_vars PROVE NoContentInv'
  OBVIOUS
<1>1. TypeOK' /\ CommandMatches' /\ Stages'
  BY TypeStep, CommandMatchesStep, StagesStep DEF NoContentInv
<1>2. CASE Receiver
  BY <1>1, <1>2, NoContentReceiver DEF NoContentInv
<1>3. CASE Deliver \/ StopDirectly
  BY <1>1, <1>3, NoContentSlots DEF NoContentInv
<1> USE DEF NoContentInv, NoContentClears, castVars, receiverVars, flagVars, viewVars, stopVars
<1>8. CASE StopSlot
  <2>1. UNCHANGED <<surf, rpc, haveMirror, gq>>
    BY <1>8 DEF StopSlot
  <2>2. CASE ClearFrames
    BY <1>1, <2>1, <2>2, StageClears
  <2>3. CASE LeaveFrames \/ LeaveBuffers
    BY <1>1, <2>1, <2>3 DEF LeaveFrames, LeaveBuffers, Cleared
  <2> QED BY <1>8, <2>2, <2>3 DEF StopSlot, StopOn
<1>4. CASE Start
  BY <1>1, <1>4 DEF Start, StartReceiver, CommandMatches
<1>5. CASE (Watchdog /\ ~StopDirectly) \/ UNCHANGED vars
  BY <1>1, <1>5 DEF Watchdog, TimerDue, CheckMirror, CheckTimeout, ClearMirror, ArmTimeout, vars, Cleared
<1>6. CASE Bind
  BY <1>1, <1>6 DEF Bind, SetVideoSurface, Cleared
<1>7. CASE Render
  <2>1. (Cleared => Cleared') /\ stopping = "no"
    BY <1>7 DEF Render, Sync, SyncNothing, SyncStartFailed, SyncPresent, CacheFrame, Cleared
  <2> QED BY <1>1, <1>7, <2>1 DEF Render
<1> QED BY <1>2, <1>3, <1>4, <1>5, <1>6, <1>7, <1>8 DEF Next

\* Whatever the watchdog and the render thread do in between, the end of a
\* session is the last thing queued, and leaves the view cleared.
THEOREM NoContent == Spec => []NoContentClears
<1>1. NoContentInv => NoContentClears
  BY DEF NoContentInv
<1> QED BY <1>1, NoContentInit, NoContentStep, PTL DEF Spec

-----------------------------------------------------------------------------
(***************************************************************************)
(* START.  The view was told, or will be told, to start: the youngest of   *)
(* startMirror and stopMirror on its way is a start, or none is on its way *)
(* and the view has started.  The watchdog breaks this between its direct  *)
(* stop and clearing haveMirror, where the GUI thread delivers nothing.    *)
(***************************************************************************)
NoStopAfter(i) == \A j \in 1..Len(gq) : j > i => gq[j].name # "stopMirror"
Told ==
  \/ viewHaveMirror /\ stopping # "frames" /\ NoStopAfter(0)
  \/ \E i \in 1..Len(gq) : gq[i].name = "startMirror" /\ NoStopAfter(i)

StartedInv == NoContentInv /\ (haveMirror /\ ~firstFrame /\ gpc # "clear" => Told)

LEMMA ToldPosted ==
  ASSUME TypeOK, NEW name \in Events \ {"stopMirror"}, Post(name),
         UNCHANGED <<viewHaveMirror, stopping>>, Told \/ name = "startMirror"
  PROVE  Told'
<1>0. Len(gq) \in Nat
  BY DEF TypeOK
<1>1. /\ Len(gq') = Len(gq) + 1
      /\ gq'[Len(gq) + 1] = [name |-> name, epoch |-> epoch]
      /\ \A i \in 1..Len(gq) : gq'[i] = gq[i]
  BY Posted
<1>2. CASE name = "startMirror"
  <2>1. gq'[Len(gq) + 1].name = "startMirror" /\ NoStopAfter(Len(gq) + 1)'
    BY <1>0, <1>1, <1>2 DEF NoStopAfter
  <2> QED BY <1>0, <1>1, <2>1 DEF Told, NoStopAfter
<1>3. CASE Told
  <2>1. \A i \in 0..Len(gq) : NoStopAfter(i) => NoStopAfter(i)'
    BY <1>0, <1>1 DEF NoStopAfter
  <2> QED BY <1>0, <1>1, <1>3, <2>1 DEF Told
<1> QED BY <1>2, <1>3

LEMMA ToldTaken ==
  ASSUME TypeOK, Told, gq # <<>>, gq' = Tail(gq),
         Head(gq).name # "stopMirror" => stopping' # "frames",
         Head(gq).name = "startMirror" => viewHaveMirror',
         Head(gq).name \notin {"startMirror", "stopMirror"} => UNCHANGED viewHaveMirror
  PROVE  Told'
<1>1. /\ Len(gq) \in Nat \ {0} /\ Len(gq') = Len(gq) - 1 /\ gq[1] = Head(gq)
      /\ \A i \in 1..Len(gq') : gq'[i] = gq[i + 1]
  BY Taken
<1>2. \A i \in 1..Len(gq) : NoStopAfter(i) => NoStopAfter(i - 1)'
  BY <1>1 DEF NoStopAfter
<1>3. NoStopAfter(0) => NoStopAfter(1) /\ gq[1].name # "stopMirror"
  BY <1>1 DEF NoStopAfter
<1>4. CASE viewHaveMirror /\ NoStopAfter(0)
  <2>1. NoStopAfter(0)'
    BY <1>1, <1>2, <1>3, <1>4
  <2>2. viewHaveMirror' /\ stopping' # "frames"
    BY <1>1, <1>3, <1>4
  <2> QED BY <2>1, <2>2 DEF Told
<1>5. ASSUME NEW i \in 1..Len(gq), gq[i].name = "startMirror", NoStopAfter(i) PROVE Told'
  <2>1. NoStopAfter(i - 1)'
    BY <1>2, <1>5
  <2>2. CASE i = 1
    BY <1>1, <1>5, <2>1, <2>2 DEF Told
  <2>3. CASE i > 1
    <3>1. i - 1 \in 1..Len(gq') /\ gq'[i - 1] = gq[i]
      BY <1>1, <2>3
    <3> QED BY <1>5, <2>1, <3>1 DEF Told
  <2> QED BY <2>2, <2>3
<1> QED BY <1>4, <1>5 DEF Told

LEMMA StartedStep ==
  ASSUME StartedInv, [Next]_vars
  PROVE  (haveMirror /\ ~firstFrame /\ gpc # "clear" => Told)'
<1> SUFFICES ASSUME haveMirror', ~firstFrame', gpc' # "clear" PROVE Told'
  OBVIOUS
<1> USE DEF StartedInv, NoContentInv, castVars, receiverVars, flagVars, viewVars, stopVars
<1>1. CASE Read \/ Bind \/ Start \/ Render \/ UNCHANGED vars
  <2>1. UNCHANGED <<haveMirror, firstFrame, gpc, gq, viewHaveMirror, stopping>>
    BY <1>1 DEF Read, Bind, SetVideoSurface, Start, StartReceiver, Render, Sync, SyncNothing,
       SyncStartFailed, SyncPresent, CacheFrame, vars
  <2> QED BY <2>1 DEF Told, NoStopAfter
<1>2. CASE Update
  <2> USE <1>2 DEF Update
  <2>1. CASE EnterUpdate \/ NoContentTest
    BY <2>1 DEF EnterUpdate, NoContentTest, Told, NoStopAfter
  <2>2. CASE HasContent \/ NoContentWas \/ NoContentAlways \/ NoContentStop
    BY <2>2 DEF HasContent, NoContentWas, NoContentAlways, NoContentStop
  <2>3. CASE SurfaceInfo
    BY <2>3, ToldPosted DEF SurfaceInfo, Events
  <2>4. CASE FirstFrame
    <3>1. CASE firstFrame
      BY <2>4, <3>1, ToldPosted DEF FirstFrame, Events
    <3>2. CASE ~firstFrame
      BY <2>4, <3>2 DEF FirstFrame, Told, NoStopAfter
    <3> QED BY <3>1, <3>2
  <2> QED BY <2>1, <2>2, <2>3, <2>4 DEF UpdateStep
<1>3. CASE Deliver
  <2>1. /\ gpc = "loop" /\ UNCHANGED <<haveMirror, firstFrame, gpc>>
        /\ gq # <<>> /\ gq' = Tail(gq)
        /\ Head(gq).name # "stopMirror" => stopping' # "frames"
        /\ Head(gq).name = "startMirror" => viewHaveMirror'
        /\ Head(gq).name \notin {"startMirror", "stopMirror"} => UNCHANGED viewHaveMirror
    BY <1>3 DEF Deliver, DeliverFrame, DeliverNull, DeliverStart, DeliverStop, Take,
       OnBufferFDUpdate, OnMirrorStart, OnMirrorStop
  <2> QED BY <2>1, ToldTaken
<1>4. CASE Watchdog
  BY <1>4 DEF Watchdog, StopDirectly, EmitStop, TimerDue, CheckMirror, CheckTimeout,
     ClearMirror, ArmTimeout, Told, NoStopAfter
<1>5. CASE StopSlot
  BY <1>5 DEF StopSlot, StopOn, ClearFrames, LeaveFrames, LeaveBuffers, Told, NoStopAfter
<1> QED BY <1>1, <1>2, <1>3, <1>4, <1>5 DEF Next, Receiver

\* The receiver's idea of mirroring and the view's agree once the queue is empty,
\* although stops overtake queued starts.
THEOREM Started == Spec => []StartedWhileMirroring
<1>1. Init => StartedInv
  BY NoContentInit DEF StartedInv, Init, ReceiverInit
<1>2. StartedInv /\ [Next]_vars => StartedInv'
  <2> SUFFICES ASSUME StartedInv, [Next]_vars PROVE StartedInv'
    OBVIOUS
  <2> QED BY NoContentStep, StartedStep DEF StartedInv
<1>3. StartedInv => StartedWhileMirroring
  BY DEF StartedInv, StartedWhileMirroring, Told
<1> QED BY <1>1, <1>2, <1>3, PTL DEF Spec

-----------------------------------------------------------------------------
(***************************************************************************)
(* THE WATCHDOG'S PROGRESS.  What makes SilenceClears and NoContentReaches *)
(* true is a count that each step of the GUI thread lowers: the events     *)
(* still queued, and the watchdog's steps still to be taken.  That the GUI *)
(* thread takes its steps is the fairness, which stays with TLC.           *)
(***************************************************************************)
\* Each event may be a stop, of four stages.
QueueToEnd == 4 * Len(gq)
SlotToEnd ==
  CASE stopping = "no" -> 0
    [] stopping = "frames" -> 3
    [] stopping = "leave" -> 2
    [] stopping = "release" -> 1

\* Steps to the watchdog's stop: without haveTimeout it has one turn to arm first.
WatchdogToStop ==
  CASE gpc = "loop" -> IF haveTimeout THEN 7 ELSE 11
    [] gpc = "checkMirror" -> IF haveTimeout THEN 6 ELSE 10
    [] gpc = "checkTimeout" -> IF haveTimeout THEN 5 ELSE 9
    [] gpc = "arm" -> 8
    [] gpc = "stop" -> 4
    [] gpc = "clear" -> 0
ToStop == QueueToEnd + SlotToEnd + WatchdogToStop

\* Steps to the event loop with every posted event delivered.
WatchdogToLoop ==
  CASE gpc = "loop" -> 0
    [] gpc = "checkMirror" -> 7
    [] gpc = "checkTimeout" -> 6
    [] gpc = "stop" -> 5
    [] gpc \in {"arm", "clear"} -> 1
ToLoop == QueueToEnd + SlotToEnd + WatchdogToLoop

Unheard == rpc = "read" /\ rpc' = "read"

\* While a mirroring peer is silent, a step clears the view, lowers the count to
\* the watchdog's stop, or is none of the GUI thread's.
NearsStop ==
  Unheard /\ haveMirror
    => \/ Cleared'
       \/ haveMirror' /\ ToStop' < ToStop
       \/ UNCHANGED <<haveMirror, haveTimeout, gq, gpc, stopping>>

\* Once a NO_CONTENT is handled and until the peer is heard again, the view is
\* clear, or a step clears it, lowers the count to the stop that is queued last,
\* or is none of the GUI thread's.
NearsClear ==
  Unheard /\ surf.cmd = "NO_CONTENT"
    => \/ Cleared \/ Cleared'
       \/ ToLoop' < ToLoop
       \/ UNCHANGED <<gq, gpc, stopping>>

\* Between its stop and clearing haveMirror the watchdog lets nothing in.
StopHolds == gpc = "clear" => Cleared \/ stopping = "frames"
ProgressInv == NoContentInv /\ StopHolds

LEMMA StopHoldsStep ==
  ASSUME ProgressInv, [Next]_vars
  PROVE  StopHolds'
<1> SUFFICES ASSUME gpc' = "clear" PROVE Cleared' \/ stopping' = "frames"
  BY DEF StopHolds
<1> USE DEF ProgressInv, StopHolds, Cleared, castVars, receiverVars, flagVars, viewVars, stopVars
<1>1. CASE Bind
  BY <1>1 DEF Bind, SetVideoSurface
<1>2. CASE Start \/ Receiver \/ UNCHANGED vars
  BY <1>2 DEF Start, StartReceiver, Receiver, Read, Update, UpdateStep, EnterUpdate, HasContent,
     NoContentTest, NoContentWas, NoContentAlways, NoContentStop, SurfaceInfo, FirstFrame, vars
<1>3. CASE Deliver \/ Render
  BY <1>3 DEF Deliver, DeliverFrame, DeliverNull, DeliverStart, DeliverStop, Take, Render
<1>4. CASE StopDirectly
  BY <1>4 DEF StopDirectly, OnMirrorStop
<1>5. CASE Watchdog /\ ~StopDirectly
  BY <1>5 DEF Watchdog, TimerDue, CheckMirror, CheckTimeout, ClearMirror, ArmTimeout
<1>6. CASE StopSlot
  <2>1. CASE ClearFrames
    BY <2>1, StageClears DEF NoContentInv
  <2>2. CASE LeaveFrames \/ LeaveBuffers
    BY <1>6, <2>2 DEF StopSlot, LeaveFrames, LeaveBuffers
  <2> QED BY <1>6, <2>1, <2>2 DEF StopSlot, StopOn
<1> QED BY <1>1, <1>2, <1>3, <1>4, <1>5, <1>6 DEF Next

LEMMA ProgressInvariant == Spec => []ProgressInv
<1>1. Init => ProgressInv
  BY NoContentInit DEF ProgressInv, StopHolds, Init, ReceiverInit
<1>2. ProgressInv /\ [Next]_vars => ProgressInv'
  <2> SUFFICES ASSUME ProgressInv, [Next]_vars PROVE ProgressInv'
    OBVIOUS
  <2> QED BY NoContentStep, StopHoldsStep DEF ProgressInv
<1> QED BY <1>1, <1>2, PTL DEF Spec

\* The counts are natural numbers: they cannot be lowered for ever.
LEMMA CountsAreNat ==
  /\ TypeOK => /\ QueueToEnd \in Nat /\ SlotToEnd \in Nat
               /\ WatchdogToStop \in Nat /\ WatchdogToLoop \in Nat
  /\ TypeOK' => /\ QueueToEnd' \in Nat /\ SlotToEnd' \in Nat
                /\ WatchdogToStop' \in Nat /\ WatchdogToLoop' \in Nat
<1>1. ASSUME TypeOK
      PROVE  /\ QueueToEnd \in Nat /\ SlotToEnd \in Nat
             /\ WatchdogToStop \in Nat /\ WatchdogToLoop \in Nat
  <2>1. Len(gq) \in Nat /\ gpc \in GuiSteps /\ stopping \in StopSteps
    BY <1>1 DEF TypeOK
  <2>2. WatchdogToStop \in Nat
    BY <2>1 DEF WatchdogToStop, GuiSteps
  <2>3. WatchdogToLoop \in Nat
    BY <2>1 DEF WatchdogToLoop, GuiSteps
  <2>4. QueueToEnd \in Nat /\ SlotToEnd \in Nat
    BY <2>1 DEF QueueToEnd, SlotToEnd, StopSteps
  <2> QED BY <2>2, <2>3, <2>4
<1>2. ASSUME TypeOK'
      PROVE  /\ QueueToEnd' \in Nat /\ SlotToEnd' \in Nat
             /\ WatchdogToStop' \in Nat /\ WatchdogToLoop' \in Nat
  <2>1. Len(gq') \in Nat /\ gpc' \in GuiSteps /\ stopping' \in StopSteps
    BY <1>2 DEF TypeOK
  <2>2. WatchdogToStop' \in Nat
    BY <2>1 DEF WatchdogToStop, GuiSteps
  <2>3. WatchdogToLoop' \in Nat
    BY <2>1 DEF WatchdogToLoop, GuiSteps
  <2>4. QueueToEnd' \in Nat /\ SlotToEnd' \in Nat
    BY <2>1 DEF QueueToEnd, SlotToEnd, StopSteps
  <2> QED BY <2>2, <2>3, <2>4
<1> QED BY <1>1, <1>2

\* How a sum of counts is lowered.
LEMMA LowerSums ==
  \A q, s, w, q2, s2, w2 \in Nat :
    /\ q2 = q /\ s2 < s => q2 + s2 < q + s
    /\ q2 + s2 < q + s /\ w2 = w => q2 + s2 + w2 < q + s + w
    /\ q2 = q /\ s2 = s /\ w2 < w => q2 + s2 + w2 < q + s + w
  OBVIOUS

\* An event taken lowers the queue by four and raises the slot by at most three;
LEMMA DeliverCounts ==
  ASSUME TypeOK, Deliver
  PROVE  QueueToEnd' + SlotToEnd' < QueueToEnd + SlotToEnd
<1>1. gq # <<>> /\ gq' = Tail(gq) /\ stopping = "no" /\ stopping' \in {"no", "frames"}
  BY DEF Deliver, DeliverFrame, DeliverNull, DeliverStart, DeliverStop, Take,
     OnBufferFDUpdate, OnMirrorStart, OnMirrorStop, stopVars
<1>2. Len(gq) \in Nat /\ Len(gq') = Len(gq) - 1
  BY <1>1, Taken
<1>3. SlotToEnd = 0 /\ SlotToEnd' \in {0, 3}
  BY <1>1 DEF SlotToEnd
<1> QED BY <1>2, <1>3 DEF QueueToEnd

\* a stage of the slot lowers the slot and leaves the rest.
LEMMA SlotCounts ==
  ASSUME TypeOK, StopSlot
  PROVE  /\ QueueToEnd' = QueueToEnd /\ SlotToEnd' < SlotToEnd
         /\ UNCHANGED <<haveMirror, haveTimeout, gpc>>
<1>1. UNCHANGED <<gq, haveMirror, haveTimeout, gpc>>
  BY DEF StopSlot, receiverVars, flagVars
<1>2. SlotToEnd' < SlotToEnd
  BY DEF StopSlot, StopOn, ClearFrames, LeaveFrames, LeaveBuffers, SlotToEnd
<1> QED BY <1>1, <1>2 DEF QueueToEnd

\* A step in which the peer is not heard is the GUI thread's, or leaves what it
\* counts alone: each of the receiver's steps leaves or reaches reading.
LEMMA UnheardSteps ==
  ASSUME Next, Unheard
  PROVE  \/ Deliver \/ Watchdog \/ StopSlot
         \/ UNCHANGED <<haveMirror, haveTimeout, gq, gpc, stopping>>
<1> USE DEF Unheard, castVars, receiverVars, flagVars, stopVars
<1>1. ~Update
  BY DEF Update, UpdateStep, EnterUpdate, HasContent, NoContentTest, NoContentWas,
     NoContentAlways, NoContentStop, SurfaceInfo, FirstFrame
<1>2. CASE Bind \/ Start \/ Read \/ Render
  BY <1>2 DEF Bind, SetVideoSurface, Start, StartReceiver, Read, Render, Sync, SyncNothing,
     SyncStartFailed, SyncPresent, CacheFrame, viewVars
<1> QED BY <1>1, <1>2 DEF Next, Receiver

LEMMA StopNearer ==
  ASSUME ProgressInv, [Next]_vars
  PROVE  NearsStop
<1> SUFFICES ASSUME Unheard, haveMirror
             PROVE  \/ Cleared'
                    \/ haveMirror' /\ ToStop' < ToStop
                    \/ UNCHANGED <<haveMirror, haveTimeout, gq, gpc, stopping>>
  BY DEF NearsStop
<1>0. TypeOK /\ TypeOK'
  BY TypeStep DEF ProgressInv, NoContentInv
<1>8. /\ QueueToEnd \in Nat /\ SlotToEnd \in Nat /\ WatchdogToStop \in Nat
      /\ QueueToEnd' \in Nat /\ SlotToEnd' \in Nat /\ WatchdogToStop' \in Nat
  BY <1>0, CountsAreNat
<1>1. CASE Deliver \/ StopSlot
  <2>1. UNCHANGED <<haveMirror, haveTimeout, gpc>>
    BY <1>0, <1>1, SlotCounts DEF Deliver, DeliverFrame, DeliverNull, DeliverStart, DeliverStop,
       Take, flagVars
  <2>2. QueueToEnd' + SlotToEnd' < QueueToEnd + SlotToEnd
    BY <1>0, <1>1, <1>8, DeliverCounts, SlotCounts, LowerSums
  <2>3. WatchdogToStop' = WatchdogToStop
    BY <2>1 DEF WatchdogToStop
  <2>4. ToStop' < ToStop
    BY <1>8, <2>2, <2>3, LowerSums DEF ToStop
  <2> QED BY <2>1, <2>4
<1>2. CASE Watchdog
  <2>0. stopping = "no"
    BY <1>2 DEF Watchdog
  <2>1. CASE StopDirectly
    <3>1. /\ gq' = gq /\ haveMirror' = haveMirror
          /\ gpc = "stop" /\ gpc' = "clear" /\ stopping' = "frames"
      BY <2>1 DEF StopDirectly, EmitStop, OnMirrorStop, flagVars
    <3>2. QueueToEnd' = QueueToEnd /\ SlotToEnd = 0 /\ SlotToEnd' = 3
      BY <2>0, <3>1 DEF QueueToEnd, SlotToEnd
    <3>3. WatchdogToStop = 4 /\ WatchdogToStop' = 0
      BY <3>1 DEF WatchdogToStop
    <3>4. ToStop' < ToStop
      BY <1>8, <3>2, <3>3, LowerSums DEF ToStop
    <3> QED BY <3>1, <3>4
  <2>2. CASE ClearMirror /\ UNCHANGED viewVars
    BY <2>0, <2>2 DEF ClearMirror, viewVars, ProgressInv, StopHolds, Cleared
  <2>3. CASE (TimerDue \/ CheckMirror \/ CheckTimeout \/ ArmTimeout) /\ UNCHANGED viewVars
    <3>1. gq' = gq /\ haveMirror' = haveMirror /\ stopping' = stopping
      BY <2>3 DEF TimerDue, CheckMirror, CheckTimeout, ArmTimeout, flagVars, viewVars, stopVars
    <3>2. WatchdogToStop' < WatchdogToStop
      <4>1. CASE TimerDue \/ CheckMirror \/ CheckTimeout
        <5>1. haveTimeout' = haveTimeout
          BY <4>1 DEF TimerDue, CheckMirror, CheckTimeout, flagVars
        <5>2. \/ gpc = "loop" /\ gpc' = "checkMirror"
              \/ gpc = "checkMirror" /\ gpc' = "checkTimeout"
              \/ gpc = "checkTimeout" /\ haveTimeout /\ gpc' = "stop"
              \/ gpc = "checkTimeout" /\ ~haveTimeout /\ gpc' = "arm"
          BY <4>1 DEF TimerDue, CheckMirror, CheckTimeout
        <5> QED BY <5>1, <5>2 DEF WatchdogToStop
      <4>2. CASE ArmTimeout
        BY <4>2 DEF ArmTimeout, WatchdogToStop
      <4> QED BY <2>3, <4>1, <4>2
    <3>3. QueueToEnd' = QueueToEnd /\ SlotToEnd' = SlotToEnd
      BY <3>1 DEF QueueToEnd, SlotToEnd
    <3>4. ToStop' < ToStop
      BY <1>8, <3>2, <3>3, LowerSums DEF ToStop
    <3> QED BY <3>1, <3>4
  <2> QED BY <1>2, <2>1, <2>2, <2>3 DEF Watchdog
<1>5. CASE UNCHANGED <<haveMirror, haveTimeout, gq, gpc, stopping>>
  BY <1>5
<1>6. CASE UNCHANGED vars
  BY <1>6 DEF vars, receiverVars, flagVars, viewVars, stopVars
<1> QED BY <1>1, <1>2, <1>5, <1>6, UnheardSteps

LEMMA ClearNearer ==
  ASSUME ProgressInv, [Next]_vars
  PROVE  NearsClear
<1> SUFFICES ASSUME Unheard, surf.cmd = "NO_CONTENT", ~Cleared, ~Cleared'
             PROVE  ToLoop' < ToLoop \/ UNCHANGED <<gq, gpc, stopping>>
  BY DEF NearsClear
<1>0. TypeOK /\ TypeOK'
  BY TypeStep DEF ProgressInv, NoContentInv
<1>8. /\ QueueToEnd \in Nat /\ SlotToEnd \in Nat /\ WatchdogToLoop \in Nat
      /\ QueueToEnd' \in Nat /\ SlotToEnd' \in Nat /\ WatchdogToLoop' \in Nat
  BY <1>0, CountsAreNat
\* The view is not clear, so the stop is still queued and no timer is due, or the
\* slot is about to clear it.
<1>1. gq # <<>> \/ stopping = "frames"
  BY DEF ProgressInv, NoContentInv, NoContentClears, Unheard
<1>2. CASE Deliver \/ StopSlot
  <2>1. UNCHANGED gpc
    BY <1>0, <1>2, SlotCounts DEF Deliver, DeliverFrame, DeliverNull, DeliverStart, DeliverStop, Take
  <2>2. QueueToEnd' + SlotToEnd' < QueueToEnd + SlotToEnd
    BY <1>0, <1>2, <1>8, DeliverCounts, SlotCounts, LowerSums
  <2>3. WatchdogToLoop' = WatchdogToLoop
    BY <2>1 DEF WatchdogToLoop
  <2> QED BY <1>8, <2>2, <2>3, LowerSums DEF ToLoop
<1>3. CASE Watchdog
  <2>0. stopping = "no"
    BY <1>3 DEF Watchdog
  <2>1. CASE StopDirectly
    <3>1. /\ gq' = gq /\ gpc = "stop" /\ gpc' = "clear" /\ stopping' = "frames"
      BY <2>1 DEF StopDirectly, EmitStop, OnMirrorStop, flagVars
    <3>2. QueueToEnd' = QueueToEnd /\ SlotToEnd = 0 /\ SlotToEnd' = 3
      BY <2>0, <3>1 DEF QueueToEnd, SlotToEnd
    <3>3. WatchdogToLoop = 5 /\ WatchdogToLoop' = 1
      BY <3>1 DEF WatchdogToLoop
    <3>4. ToLoop' < ToLoop
      BY <1>8, <3>2, <3>3 DEF ToLoop
    <3> QED BY <3>4
  <2>2. CASE (CheckMirror \/ CheckTimeout \/ ClearMirror \/ ArmTimeout) /\ UNCHANGED viewVars
    <3>1. gq' = gq /\ stopping' = stopping
      BY <2>2 DEF CheckMirror, CheckTimeout, ClearMirror, ArmTimeout, viewVars, stopVars
    <3>2. \/ gpc = "checkMirror" /\ gpc' \in {"checkTimeout", "loop"}
          \/ gpc = "checkTimeout" /\ gpc' \in {"stop", "arm"}
          \/ gpc \in {"clear", "arm"} /\ gpc' = "loop"
      BY <2>2 DEF CheckMirror, CheckTimeout, ClearMirror, ArmTimeout
    <3>3. WatchdogToLoop' < WatchdogToLoop
      BY <3>2 DEF WatchdogToLoop
    <3>4. QueueToEnd' = QueueToEnd /\ SlotToEnd' = SlotToEnd
      BY <3>1 DEF QueueToEnd, SlotToEnd
    <3>5. ToLoop' < ToLoop
      BY <1>8, <3>3, <3>4, LowerSums DEF ToLoop
    <3> QED BY <3>5
  <2>3. ~TimerDue
    BY <1>1, <2>0 DEF TimerDue
  <2> QED BY <1>3, <2>1, <2>2, <2>3 DEF Watchdog
<1>6. CASE UNCHANGED <<haveMirror, haveTimeout, gq, gpc, stopping>>
  BY <1>6
<1>7. CASE UNCHANGED vars
  BY <1>7 DEF vars, receiverVars, viewVars, stopVars
<1> QED BY <1>2, <1>3, <1>6, <1>7, UnheardSteps

\* Silence is noticed within a bounded number of the GUI thread's steps: nothing
\* but hearing the peer raises the count to the watchdog's stop.
THEOREM SilenceCounts == Spec => [](ToStop \in Nat) /\ [][NearsStop]_vars
<1>1. ProgressInv => ToStop \in Nat
  BY CountsAreNat DEF ProgressInv, NoContentInv, ToStop
<1>2. ProgressInv /\ [Next]_vars => [NearsStop]_vars
  BY StopNearer
<1> QED BY <1>1, <1>2, ProgressInvariant, PTL DEF Spec

\* A NO_CONTENT reaches the screen within a bounded number of the GUI thread's
\* steps: while the view is not clear the watchdog cannot start another turn.
THEOREM NoContentCounts == Spec => [](ToLoop \in Nat) /\ [][NearsClear]_vars
<1>1. ProgressInv => ToLoop \in Nat
  BY CountsAreNat DEF ProgressInv, NoContentInv, ToLoop
<1>2. ProgressInv /\ [Next]_vars => [NearsClear]_vars
  BY ClearNearer
<1> QED BY <1>1, <1>2, ProgressInvariant, PTL DEF Spec
=============================================================================
