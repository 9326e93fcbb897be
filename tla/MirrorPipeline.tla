--------------------------- MODULE MirrorPipeline ---------------------------
(***************************************************************************)
(* The mirror pipeline: the library's thread (SdCast, MirrorReceiver), the *)
(* GUI thread (the watchdog and the view's slots) and the render thread    *)
(* (sync), with the posted events between the first two.                   *)
(***************************************************************************)
EXTENDS MirrorReceiver, MirrorView

receiverVars == <<flagVars, gq, rpc, heard>>
vars == <<castVars, receiverVars, gpc, viewVars>>

Init == CastInit /\ ReceiverInit /\ ViewInit

--------------------------------------------------------------------------------
\* Start-up: the view is bound to its VideoOutput, then the receiver starts.
Bind == SetVideoSurface /\ UNCHANGED <<castVars, receiverVars, gpc>>
Start == surface # "none" /\ StartReceiver /\ UNCHANGED <<castVars, viewVars>>

\* The library's thread.
Read == CastStep /\ UNCHANGED <<flagVars, gq, heard, gpc, viewVars>>
Update == UpdateStep /\ UNCHANGED <<castVars, viewVars>>
Receiver == Read \/ Update

\* The GUI thread delivers the oldest posted event to its slot.
Take(name) ==
  /\ gpc = "loop" /\ stopping = "no"
  /\ gq # <<>>
  /\ Head(gq).name = name
  /\ gq' = Tail(gq)
  /\ UNCHANGED <<castVars, flagVars, rpc, heard, gpc>>

DeliverFrame == Take("updateBufferFD") /\ OnBufferFDUpdate(surf.fd)
DeliverNull == Take("updateBufferNull") /\ OnBufferFDUpdate(NoFd)
DeliverStart == Take("startMirror") /\ OnMirrorStart
DeliverStop == Take("stopMirror") /\ OnMirrorStop
Deliver == DeliverFrame \/ DeliverNull \/ DeliverStart \/ DeliverStop

\* onMirrorStop() goes on, called from either place.
StopSlot == StopOn /\ UNCHANGED <<castVars, receiverVars, gpc>>

\* The GUI thread runs the watchdog; its stopMirror is a direct call, and what
\* follows it waits for the slot to return.
StopDirectly == EmitStop /\ OnMirrorStop /\ UNCHANGED castVars
Watchdog ==
  /\ stopping = "no"
  /\ \/ StopDirectly
     \/ /\ TimerDue \/ CheckMirror \/ CheckTimeout \/ ClearMirror \/ ArmTimeout
        /\ UNCHANGED <<castVars, viewVars>>

\* The render thread, with the GUI thread blocked in its event loop.
Render ==
  /\ gpc = "loop" /\ stopping = "no"
  /\ Sync
  /\ UNCHANGED <<castVars, receiverVars, gpc>>

Next == Bind \/ Start \/ Receiver \/ Deliver \/ StopSlot \/ Watchdog \/ Render

Spec == Init /\ [][Next]_vars

(***************************************************************************)
(* Fairness: each thread keeps running.  Messages are the peer's choice,   *)
(* so reading one is not fair; the library's own steps are.  frameReady    *)
(* makes the VideoOutput request a frame, and the render loop serves a     *)
(* request although the 10 s timer may take the GUI thread now and then.   *)
(***************************************************************************)
Fairness ==
  /\ WF_vars(Update)
  /\ WF_vars(ExportSurface /\ UNCHANGED <<flagVars, gq, heard, gpc, viewVars>>)
  /\ WF_vars(Deliver)
  /\ WF_vars(StopSlot)
  /\ WF_vars(Watchdog)
  /\ SF_vars(dirty /\ Render)

FairSpec == Spec /\ Fairness

--------------------------------------------------------------------------------
ReceiverSteps ==
  {"off", "read", "export", "update", "hasContent", "noContent", "noContentWas",
   "noContentAlways", "noContentStop", "surfaceInfo", "firstFrame"}
GuiSteps == {"loop", "checkMirror", "checkTimeout", "stop", "clear", "arm"}
StopSteps == {"no", "frames", "leave", "release"}

\* Every variable of the three threads stays in its range (all of the module).
TypeOK ==
  /\ surf \in [cmd : Cmds \cup {"NONE"}, fd : AnyFd]
  /\ epoch \in Nat
  /\ sent \in Nat
  /\ rpc \in ReceiverSteps
  /\ haveMirror \in BOOLEAN
  /\ haveTimeout \in BOOLEAN
  /\ firstFrame \in BOOLEAN
  /\ heard \in BOOLEAN
  /\ gq \in Seq([name : Events, epoch : Nat])
  /\ gpc \in GuiSteps
  /\ bufferFD \in AnyFd
  /\ viewHaveMirror \in BOOLEAN
  /\ buffers \in [Fds -> Buffer \cup {Absent}]
  /\ frames \in [Fds -> Buffer \cup {Absent}]
  /\ surface \in {"none", "inactive", "active"}
  /\ presented \in AnyFd
  /\ dirty \in BOOLEAN
  /\ stopping \in StopSteps
  /\ iterBuffers \in [Fds -> Buffer \cup {Absent}]
  /\ iterFrames \in [Fds -> Buffer \cup {Absent}]

-------------------------- (* safety: the caches *) -------------------------

\* A buffer lives as long as m_Buffers or the iterator's copy of it owns it.
Alive(fd, buffer) == buffers[fd] = buffer \/ iterBuffers[fd] = buffer

\* A QVideoFrame keeps a bare pointer to its buffer, and its destructor calls
\* it: no frame of the view outlives its buffer, neither while it is cached nor
\* while onMirrorStop() takes both caches down, which empties the buffers first
\* and destroys them last (mirrorview.cpp 56-66, 112-129).
FramesWrapBuffers ==
  \A fd \in Fds : \A frame \in {frames[fd], iterFrames[fd]} :
    frame # Absent => Alive(fd, frame)

NoContentSteps == {"noContent", "noContentWas", "noContentAlways", "noContentStop"}

InNoContent == surf.cmd = "NO_CONTENT" /\ rpc \in {"update"} \cup NoContentSteps

StopQueued(n) == \E i \in 1..n : gq[i].name = "stopMirror"

\* An image built from a descriptor the library has since closed is on its way
\* out: the stopMirror that drops it is queued, or update() is about to emit it.
\* That holds however the flags were left by the watchdog, because line 61 emits
\* stopMirror whatever haveMirror says.
ClosedImagesLeave ==
  (\E fd \in Fds : buffers[fd] # Absent /\ buffers[fd].epoch < epoch)
    => InNoContent \/ StopQueued(Len(gq))

\* Descriptor numbers are reused: when the view is told to show a descriptor of
\* a session, no image of an earlier session is still cached, or a stopMirror
\* stands in front of that event in the queue.
NoImageOfOldSession ==
  \A i \in 1..Len(gq) : \A fd \in Fds :
    /\ gq[i].name = "updateBufferFD"
    /\ buffers[fd] # Absent
    /\ buffers[fd].epoch < gq[i].epoch
    => StopQueued(i - 1)

\* What NO_CONTENT promises to the screen: nothing is cached and no descriptor
\* is left to be shown.
Cleared ==
  /\ bufferFD = NoFd
  /\ ~viewHaveMirror
  /\ \A fd \in Fds : buffers[fd] = Absent /\ frames[fd] = Absent

\* Once update() has handled a NO_CONTENT, or a lost connection, the last event
\* in front of the view is a stopMirror, and when the queue is empty the view is
\* cleared or in the middle of clearing, whatever the watchdog and the render thread did in between.
NoContentClears ==
  surf.cmd = "NO_CONTENT" /\ rpc = "read"
    => /\ ~haveMirror
       /\ IF gq = <<>> THEN Cleared \/ stopping = "frames"
                       ELSE gq[Len(gq)].name = "stopMirror"

\* The receiver's flags and the view agree once everything posted is delivered:
\* while the receiver counts itself mirroring and the session's first frame has
\* passed, the view was told to start.  The watchdog's stop overtakes queued
\* events and HAS_CONTENT may come in the middle of it.
StartedWhileMirroring ==
  rpc = "read" /\ gq = <<>> /\ gpc = "loop" /\ stopping = "no" /\ haveMirror /\ ~firstFrame
    => viewHaveMirror

------------------------ (* safety: the watchdog *) -------------------------

\* The watchdog stops the mirror only after it has armed itself and no call of
\* update() has begun since: one full period of silence, also for a session that
\* begins while haveTimeout is still set from an earlier stop.
StopAfterSilence ==
  [][gpc = "checkTimeout" /\ gpc' = "stop" => ~heard]_vars

------------------------------ (* liveness *) -------------------------------

Silent == sent = MaxMsgs /\ rpc = "read"

\* A peer that falls silent while haveMirror is set is noticed: the watchdog
\* clears the view although no NO_CONTENT ever arrives.
SilenceClears == (Silent /\ haveMirror /\ gpc = "loop") ~> Cleared

\* A NO_CONTENT reaches the screen unless the peer goes on.
NoContentReaches == (surf.cmd = "NO_CONTENT" /\ rpc = "read")
                      ~> (Cleared \/ surf.cmd # "NO_CONTENT")

\* A descriptor the view was told to show is given to the active surface, unless
\* another one or a stop takes its place (frameReady drives the render loop).
FrameReaches ==
  \A fd \in Fds : (bufferFD = fd /\ surface = "active") ~> (presented = fd \/ bufferFD # fd)
=============================================================================
