----------------------- MODULE MirrorRefinement_proofs -----------------------
(***************************************************************************)
(* The mirror pipeline implements MirrorSession, for any set of            *)
(* descriptors and any number of messages.  What the caches hold follows   *)
(* from the invariant of MirrorPipeline_proofs; what is added here is the  *)
(* order of the queue, which makes the session told of only grow.          *)
(***************************************************************************)
EXTENDS MirrorRefinement, MirrorPipeline_proofs

hvars == <<vars, told>>

\* The descriptor the abstract mirror shows.
Shown == IF stopping = "frames" THEN NoFd ELSE bufferFD

QueueOrder == \A i, j \in 1..Len(gq) : i <= j => gq[i].epoch <= gq[j].epoch
ToldFirst == \A i \in 1..Len(gq) : gq[i].name = "updateBufferFD" => told <= gq[i].epoch

SessionInv ==
  /\ CacheInv
  /\ told \in Nat /\ told <= epoch
  /\ QueueOrder /\ ToldFirst

LEMMA QueueValues ==
  ASSUME TypeOK
  PROVE  epoch \in Nat /\ Len(gq) \in Nat /\ \A i \in 1..Len(gq) : gq[i].epoch \in Nat
<1>1. gq \in Seq(EventRec)
  BY DEF TypeOK, EventRec
<1>2. \A i \in 1..Len(gq) : gq[i] \in EventRec
  BY <1>1
<1> QED BY <1>1, <1>2 DEF TypeOK, EventRec

\* Absent is the one entry whose picture is the abstract None.
LEMMA NonePicture ==
  ASSUME NEW b \in Entry
  PROVE  b.epoch \in Int /\ (b.epoch = -1 <=> b = Absent) /\ (b # Absent => b.epoch \in Nat)
  BY DEF Entry, Buffer, Absent

\* The event about to be taken is from the session all cached pictures are from,
\* or from an earlier one.
LEMMA HeadToldOf ==
  ASSUME CacheInv, gq # <<>>, Head(gq).name = "updateBufferFD"
  PROVE  \A fd \in Fds : buffers[fd] # Absent => buffers[fd].epoch >= Head(gq).epoch
<1> SUFFICES ASSUME NEW fd \in Fds, buffers[fd] # Absent
             PROVE  buffers[fd].epoch >= Head(gq).epoch
  OBVIOUS
<1>1. Len(gq) \in Nat \ {0} /\ gq[1] = Head(gq)
  BY DEF CacheInv, TypeOK
<1>2. ~StopQueued(1 - 1)
  BY DEF StopQueued
<1>3. ~(buffers[fd].epoch < gq[1].epoch)
  <2>1. 1 \in 1..Len(gq) /\ gq[1].name = "updateBufferFD"
    BY <1>1
  <2> QED BY <2>1, <1>2 DEF CacheInv, NoImageOfOldSession
<1>4. buffers[fd] \in Entry
  BY DEF CacheInv, TypeOK, Entry
<1> QED BY <1>1, <1>3, <1>4, NonePicture, QueueValues DEF CacheInv

LEMMA SessionInvInit == HInit => SessionInv
<1> SUFFICES ASSUME HInit PROVE SessionInv
  OBVIOUS
<1>1. CacheInv
  BY CacheInit DEF HInit
<1>2. told = 0 /\ epoch = 0 /\ gq = <<>>
  BY DEF HInit, Init, CastInit, ReceiverInit, ViewInit
<1>3. Len(gq) = 0
  BY <1>2
<1> QED BY <1>1, <1>2, <1>3 DEF SessionInv, QueueOrder, ToldFirst

\* The queue's order, and its place behind what was told, survive posting,
LEMMA QueuePosted ==
  ASSUME SessionInv, NEW name \in Events, Post(name), UNCHANGED <<epoch, told>>
  PROVE  QueueOrder' /\ ToldFirst'
<1>1. /\ Len(gq) \in Nat /\ Len(gq') = Len(gq) + 1
      /\ gq'[Len(gq) + 1].epoch = epoch
      /\ gq'[Len(gq) + 1].name = name
      /\ \A i \in 1..Len(gq) : gq'[i] = gq[i]
  <2>1. TypeOK
    BY DEF SessionInv, CacheInv
  <2>2. gq'[Len(gq) + 1] = [name |-> name, epoch |-> epoch]
    BY <2>1, Posted
  <2>3. Len(gq) \in Nat
    BY <2>1, QueueValues
  <2> QED BY <2>1, <2>2, <2>3, Posted
<1>4. \A i \in 1..Len(gq) : gq[i].epoch <= epoch
  BY DEF SessionInv, CacheInv, QueueEpochs
<1>2. \A i \in 1..Len(gq') : i = Len(gq) + 1 \/ i \in 1..Len(gq)
  BY <1>1
<1>3. epoch \in Nat /\ \A i \in 1..Len(gq) : gq[i].epoch \in Nat
  BY QueueValues DEF SessionInv, CacheInv
<1> QED BY <1>1, <1>2, <1>3, <1>4 DEF SessionInv, QueueOrder, ToldFirst

\* and taking, when the session told of is then that of the event taken.
LEMMA QueueTaken ==
  ASSUME SessionInv, gq # <<>>, gq' = Tail(gq), UNCHANGED epoch,
         told' = IF Head(gq).name = "updateBufferFD" THEN Head(gq).epoch ELSE told
  PROVE  /\ QueueOrder' /\ ToldFirst'
         /\ told' \in Nat /\ told <= told' /\ told' <= epoch
<1>1. /\ Len(gq) \in Nat \ {0} /\ Len(gq') = Len(gq) - 1
      /\ gq[1] = Head(gq)
      /\ \A i \in 1..Len(gq') : gq'[i] = gq[i + 1]
  BY Taken DEF SessionInv, CacheInv
<1>2. epoch \in Nat /\ \A i \in 1..Len(gq) : gq[i].epoch \in Nat /\ gq[i].epoch <= epoch
  BY QueueValues DEF SessionInv, CacheInv, QueueEpochs
<1>3. QueueOrder'
  BY <1>1, <1>2 DEF SessionInv, QueueOrder
<1>4. \A i \in 1..Len(gq') : gq[1].epoch <= gq'[i].epoch
  BY <1>1, <1>2 DEF SessionInv, QueueOrder
<1>5. CASE Head(gq).name = "updateBufferFD"
  BY <1>1, <1>2, <1>3, <1>4, <1>5 DEF SessionInv, ToldFirst
<1>6. CASE Head(gq).name # "updateBufferFD"
  BY <1>1, <1>2, <1>3, <1>6 DEF SessionInv, ToldFirst
<1> QED BY <1>5, <1>6

\* Every other step leaves the queue and the session told of alone.
LEMMA NoFrameTaken ==
  ASSUME TypeOK, HNext, gq' = gq \/ \E name \in Events : Post(name)
  PROVE  told' = told
<1>1. ASSUME DeliverFrame PROVE FALSE
  <2>1. gq # <<>> /\ gq' = Tail(gq)
    BY <1>1 DEF DeliverFrame, Take
  <2>2. Len(gq') = Len(gq) - 1 /\ Len(gq) \in Nat
    BY <2>1, Taken
  <2>3. Len(gq') = Len(gq) \/ Len(gq') = Len(gq) + 1
    BY Posted
  <2> QED BY <2>2, <2>3
<1> QED BY <1>1 DEF HNext

LEMMA SameQueue ==
  ASSUME SessionInv, UNCHANGED <<gq, told>>, epoch' = epoch \/ epoch' = epoch + 1
  PROVE  QueueOrder' /\ ToldFirst' /\ told' \in Nat /\ told' <= epoch'
  BY QueueValues DEF SessionInv, CacheInv, QueueOrder, ToldFirst

-----------------------------------------------------------------------------
\* What a step of each thread is to the abstract mirror.
Implements ==
  /\ told' \in Nat /\ told' <= epoch'
  /\ QueueOrder' /\ ToldFirst'
  /\ Session!Next \/ UNCHANGED <<buffers, Shown, told>>

\* The library's thread writes nothing the abstract mirror has.
LEMMA ReceiverImplements ==
  ASSUME SessionInv, HNext, Receiver PROVE Implements
<1>1. UNCHANGED <<buffers, Shown>>
  BY DEF Receiver, Read, Update, viewVars, stopVars, Shown
<1>2. Quiet \/ NewEpoch \/ Posting
  BY ReceiverKinds DEF SessionInv, CacheInv
<1>3. told' = told
  BY <1>2, NoFrameTaken DEF SessionInv, CacheInv, Quiet, NewEpoch, Posting
<1>4. CASE Quiet \/ NewEpoch
  BY <1>1, <1>3, <1>4, SameQueue DEF Implements, Quiet, NewEpoch
<1>5. CASE Posting
  BY <1>1, <1>3, <1>5, QueuePosted DEF Implements, Posting, SessionInv
<1> QED BY <1>2, <1>4, <1>5

\* A delivered frame tells of its session; a delivered null withdraws; a
\* delivered start is no step at all.
LEMMA FrameImplements ==
  ASSUME SessionInv, HNext, DeliverFrame PROVE Implements
<1>1. /\ gq # <<>> /\ gq' = Tail(gq) /\ Head(gq).name = "updateBufferFD"
      /\ UNCHANGED <<epoch, buffers>> /\ Shown' = surf.fd
  BY DEF DeliverFrame, Take, castVars, OnBufferFDUpdate, stopVars, Shown
<1>2. told' = Head(gq).epoch
  BY DEF HNext
<1>3. QueueOrder' /\ ToldFirst' /\ told' \in Nat /\ told <= told' /\ told' <= epoch
  BY <1>1, <1>2, QueueTaken
<1>4. \A fd \in Fds : buffers[fd] # Absent => buffers[fd].epoch >= told'
  BY <1>1, <1>2, HeadToldOf DEF SessionInv
<1>5. Session!Tell
  <2>1. surf.fd \in Fds \cup {NoFd}
    BY DEF SessionInv, CacheInv, TypeOK, AnyFd
  <2>2. ASSUME NEW fd \in Fds PROVE buffers[fd].epoch = -1 \/ buffers[fd].epoch >= told'
    BY <1>4 DEF Absent
  <2> QED BY <1>1, <1>3, <2>1, <2>2, QueueValues DEF Session!Tell, Session!None, SessionInv, Shown
<1> QED BY <1>1, <1>3, <1>5 DEF Implements, Session!Next

LEMMA OtherSlotImplements ==
  ASSUME SessionInv, HNext, DeliverNull \/ DeliverStart PROVE Implements
<1>1. /\ gq # <<>> /\ gq' = Tail(gq) /\ Head(gq).name # "updateBufferFD"
      /\ UNCHANGED <<epoch, buffers>> /\ Shown' \in {Shown, NoFd}
  BY DEF DeliverNull, DeliverStart, Take, castVars, OnBufferFDUpdate, OnMirrorStart, stopVars, Shown
<1>2. told' = told
  BY <1>1 DEF HNext, DeliverFrame, Take
<1>3. QueueOrder' /\ ToldFirst' /\ told' \in Nat /\ told' <= epoch
  BY <1>1, <1>2, QueueTaken
<1>4. Session!Withdraw \/ UNCHANGED <<buffers, Shown, told>>
  BY <1>1, <1>2 DEF Session!Withdraw, Shown
<1> QED BY <1>1, <1>3, <1>4 DEF Implements, Session!Next

\* Both stops, the posted one and the watchdog's, clear the screen.
LEMMA StopImplements ==
  ASSUME SessionInv, HNext, DeliverStop \/ StopDirectly PROVE Implements
<1>1. OnMirrorStop /\ UNCHANGED epoch
  BY DEF DeliverStop, Take, StopDirectly, castVars
<1>2. gq' = gq \/ (gq # <<>> /\ gq' = Tail(gq) /\ Head(gq).name # "updateBufferFD")
  BY DEF DeliverStop, Take, StopDirectly, EmitStop
<1>3. told' = told
  <2>1. CASE gq' = gq
    BY <2>1, NoFrameTaken DEF SessionInv, CacheInv
  <2>2. CASE Head(gq).name # "updateBufferFD"
    BY <2>2 DEF HNext, DeliverFrame, Take
  <2> QED BY <1>2, <2>1, <2>2
<1>4. QueueOrder' /\ ToldFirst' /\ told' \in Nat /\ told' <= epoch'
  BY <1>1, <1>2, <1>3, SameQueue, QueueTaken
<1>5. Session!Clear
  BY <1>1, <1>3 DEF OnMirrorStop, Session!Clear, Session!None, Nothing, Absent
<1> QED BY <1>4, <1>5 DEF Implements, Session!Next

\* sync() builds the shown descriptor's picture, if it has none, in the epoch of
\* the moment, which is never behind what was told.
LEMMA RenderImplements ==
  ASSUME SessionInv, HNext, Render PROVE Implements
<1>1. stopping = "no" /\ UNCHANGED <<gq, epoch, bufferFD, stopping>>
  BY DEF Render, castVars, receiverVars, Sync, SyncNothing, SyncStartFailed, SyncPresent,
     CacheFrame, stopVars
<1>2. told' = told
  BY <1>1, NoFrameTaken DEF SessionInv, CacheInv
<1>3. QueueOrder' /\ ToldFirst' /\ told' \in Nat /\ told' <= epoch'
  BY <1>1, <1>2, SameQueue
<1>4. CASE UNCHANGED buffers
  BY <1>1, <1>2, <1>3, <1>4 DEF Implements, Shown
<1>5. CASE CacheFrame /\ buffers[bufferFD] = Absent
  <2>1. bufferFD \in Fds /\ bufferFD # NoFd
    BY <1>5 DEF CacheFrame, SessionInv, CacheInv, TypeOK, AnyFd
  <2>2. PICK b \in MirrorVideoBuffers : buffers' = [buffers EXCEPT ![bufferFD] = b]
    BY <1>5 DEF CacheFrame
  <2>3. b.epoch = epoch /\ epoch \in Nat /\ told \in Nat /\ told <= epoch
    BY QueueValues DEF MirrorVideoBuffers, SessionInv, CacheInv
  <2>4. buffers \in [Fds -> Entry]
    BY DEF SessionInv, CacheInv, TypeOK, Entry
  <2>5. Session!Build
    <3>1. [fd \in Fds |-> buffers[fd].epoch][bufferFD] = -1
      BY <1>5, <2>1 DEF Absent
    <3>2. [fd \in Fds |-> buffers[fd].epoch]' =
            [[fd \in Fds |-> buffers[fd].epoch] EXCEPT ![bufferFD] = epoch]
      BY <2>1, <2>2, <2>3, <2>4
    <3> QED BY <1>1, <1>2, <2>1, <2>3, <3>1, <3>2 DEF Session!Build, Session!None
  <2> QED BY <1>3, <2>5 DEF Implements, Session!Next
<1>6. UNCHANGED buffers \/ (CacheFrame /\ buffers[bufferFD] = Absent)
  BY DEF Render, Sync, SyncNothing, SyncStartFailed, SyncPresent, CacheFrame
<1> QED BY <1>4, <1>5, <1>6

LEMMA RestImplements ==
  ASSUME SessionInv, HNext,
         Bind \/ Start \/ StopSlot \/ (Watchdog /\ ~StopDirectly) \/ UNCHANGED vars
  PROVE  Implements
<1>1. UNCHANGED <<gq, epoch, buffers, Shown>>
  <2>1. CASE StopSlot
    BY <2>1 DEF StopSlot, StopOn, ClearFrames, LeaveFrames, LeaveBuffers, castVars, receiverVars,
       Shown
  <2>2. CASE ~StopSlot
    BY <2>2 DEF Bind, SetVideoSurface, Start, StartReceiver, Watchdog, TimerDue, CheckMirror,
       CheckTimeout, ClearMirror, ArmTimeout, vars, castVars, receiverVars, viewVars, stopVars,
       Shown
  <2> QED BY <2>1, <2>2
<1>2. told' = told
  BY <1>1, NoFrameTaken DEF SessionInv, CacheInv
<1> QED BY <1>1, <1>2, SameQueue DEF Implements

-----------------------------------------------------------------------------
LEMMA EveryStepImplements ==
  ASSUME SessionInv, [HNext]_hvars
  PROVE  SessionInv' /\ [Session!Next]_(Session!sessionVars)
<1>1. CacheInv'
  <2>1. [Next]_vars
    BY DEF HNext, hvars
  <2> QED BY <2>1, CacheNext DEF SessionInv
<1>2. CASE HNext
  <2>1. Implements
    BY <1>2, ReceiverImplements, FrameImplements, OtherSlotImplements, StopImplements,
       RenderImplements, RestImplements DEF HNext, Next, Deliver, Watchdog
  <2> QED BY <1>1, <2>1 DEF Implements, SessionInv, Session!sessionVars, Shown
<1>3. CASE UNCHANGED hvars
  <2>1. UNCHANGED <<gq, epoch, buffers, bufferFD, stopping, told>>
    BY <1>3 DEF hvars, vars, castVars, receiverVars, viewVars, stopVars
  <2> QED BY <1>1, <2>1, SameQueue DEF SessionInv, Session!sessionVars
<1> QED BY <1>2, <1>3

\* The pipeline of three threads, its queue and its flags implements the mirror
\* of sessions: started from the initial screen, every step of it is a step of
\* MirrorSession or changes nothing that module has.
THEOREM Refines == HSpec => ImplementsSession
<1>1. HInit => Session!Init
  <2> SUFFICES ASSUME HInit PROVE Session!Init
    OBVIOUS
  <2>1. told = 0 /\ bufferFD = NoFd /\ buffers = [fd \in Fds |-> Absent]
    BY DEF HInit, Init, ViewInit, Nothing
  <2> QED BY <2>1 DEF Session!Init, Session!None, Absent
<1>2. HSpec => []SessionInv
  <2>1. SessionInv /\ [HNext]_hvars => SessionInv'
    BY EveryStepImplements
  <2> QED BY <2>1, SessionInvInit, PTL DEF HSpec, hvars
<1>3. SessionInv /\ [HNext]_hvars => [Session!Next]_(Session!sessionVars)
  BY EveryStepImplements
<1> QED BY <1>1, <1>2, <1>3, PTL DEF HSpec, hvars, ImplementsSession, Session!Spec

-----------------------------------------------------------------------------
\* The abstract steps alone keep old pictures out: the view is told of a later
\* session only without them, and no picture is built for an earlier one.
LEMMA NothingOlderStays ==
  ASSUME SessionInv, Session!NothingOlder, [Session!Next]_(Session!sessionVars)
  PROVE  Session!NothingOlder'
<1> DEFINE pictures == [fd \in Fds |-> buffers[fd].epoch]
<1>1. CASE Session!Tell
  <2>1. UNCHANGED pictures /\ \A fd \in Fds : pictures[fd] = -1 \/ pictures[fd] >= told'
    BY <1>1 DEF Session!Tell, Session!None
  <2> QED BY <2>1 DEF Session!NothingOlder, Session!None
<1>2. CASE Session!Withdraw \/ UNCHANGED Session!sessionVars
  BY <1>2 DEF Session!Withdraw, Session!sessionVars, Session!NothingOlder, Session!None
<1>3. CASE Session!Clear
  <2>1. pictures' = [fd \in Fds |-> -1]
    BY <1>3 DEF Session!Clear, Session!None
  <2>2. \A fd \in Fds : pictures'[fd] = -1
    BY <2>1
  <2> QED BY <2>2 DEF Session!NothingOlder, Session!None
<1>4. CASE Session!Build
  <2>1. /\ pictures' = [pictures EXCEPT ![bufferFD] = pictures'[bufferFD]]
        /\ pictures'[bufferFD] >= told /\ told' = told
    BY <1>4 DEF Session!Build
  <2>2. \A fd \in Fds : fd = bufferFD \/ pictures'[fd] = pictures[fd]
    BY <2>1
  <2> QED BY <2>1, <2>2 DEF Session!NothingOlder, Session!None
<1> QED BY <1>1, <1>2, <1>3, <1>4 DEF Session!Next

\* Nothing the view holds is older than the session it was last told of, so a
\* descriptor whose number was reused never shows the old session's picture.
THEOREM NoOldPicture == HSpec => []Session!NothingOlder
<1>1. HInit => Session!NothingOlder
  <2>1. ASSUME HInit PROVE \A fd \in Fds : [f \in Fds |-> buffers[f].epoch][fd] = -1
    BY <2>1 DEF HInit, Init, ViewInit, Nothing, Absent
  <2> QED BY <2>1 DEF Session!NothingOlder, Session!None
<1>2. SessionInv /\ Session!NothingOlder /\ [HNext]_hvars => SessionInv' /\ Session!NothingOlder'
  BY EveryStepImplements, NothingOlderStays
<1> QED BY <1>1, <1>2, SessionInvInit, PTL DEF HSpec, hvars
=============================================================================
