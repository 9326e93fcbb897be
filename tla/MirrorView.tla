----------------------------- MODULE MirrorView -----------------------------
(***************************************************************************)
(* MirrorView: the slots the GUI thread runs for the receiver's signals,   *)
(* and sync(), which the render thread runs while the GUI thread is        *)
(* blocked.  A slot and sync() therefore exclude each other; neither       *)
(* excludes the library's thread, which rewrites the Surface m_surfaceInfo *)
(* points to.                                                              *)
(*                                                                         *)
(* m_Buffers and m_Frames map a descriptor to what was built for it, or to *)
(* Absent.  A MirrorVideoBuffer is kept as the epoch it was built in and   *)
(* whether it holds an EGL image; a QVideoFrame as the buffer it wraps.    *)
(* m_surfaceInfo always points to the library's one Surface once a frame   *)
(* arrived, and is not read before: it is no variable here.                *)
(***************************************************************************)
EXTENDS SdCast

VARIABLES
  bufferFD,       \* m_BufferFD
  viewHaveMirror, \* m_haveMirror
  buffers,        \* m_Buffers
  frames,         \* m_Frames
  surface,        \* m_surface: not set yet, inactive or active
  presented,      \* key of the frame the surface was last given
  dirty,          \* frameReady asked the window for a new frame
  stopping,       \* where onMirrorStop() is: not running, or one of its stages
  iterBuffers,    \* what its iterator i has a copy of
  iterFrames      \* what its iterator j has a copy of

stopVars == <<stopping, iterBuffers, iterFrames>>
viewVars ==
  <<bufferFD, viewHaveMirror, buffers, frames, surface, presented, dirty, stopVars>>

Absent == [epoch |-> -1, valid |-> FALSE]
Buffer == [epoch : Nat, valid : BOOLEAN]
Nothing == [fd \in Fds |-> Absent]

ViewInit ==
  /\ bufferFD = NoFd
  /\ viewHaveMirror = FALSE
  /\ buffers = Nothing
  /\ frames = Nothing
  /\ surface = "none"
  /\ presented = NoFd
  /\ dirty = FALSE
  /\ stopping = "no"
  /\ iterBuffers = Nothing
  /\ iterFrames = Nothing

\* The QML engine binds the VideoOutput to the view, once, before the event
\* loop can deliver the single shot that starts the receiver.
SetVideoSurface ==
  /\ surface = "none"
  /\ surface' = "inactive"
  /\ UNCHANGED <<bufferFD, viewHaveMirror, buffers, frames, presented, dirty, stopVars>>

\* Mutant: the slot forgets to emit frameReady.
BufferFDUpdateSilent(fd) ==
  /\ bufferFD' = fd
  /\ UNCHANGED <<viewHaveMirror, buffers, frames, surface, presented, dirty, stopVars>>

\* onBufferFDUpdate(info) reads the Surface as it is when the slot runs.
OnBufferFDUpdate(fd) ==
  /\ bufferFD' = fd
  /\ dirty' = TRUE
  /\ UNCHANGED <<viewHaveMirror, buffers, frames, surface, presented, stopVars>>

OnMirrorStart ==
  /\ viewHaveMirror' = TRUE
  /\ UNCHANGED <<bufferFD, buffers, frames, surface, presented, dirty, stopVars>>

---------------------------- (* onMirrorStop() *) ---------------------------
(***************************************************************************)
(* A QMapIterator copies the implicitly shared map it runs over.  So the   *)
(* two loops reset temporaries, clear() leaves the entries to the copies,  *)
(* and what they hold is destroyed at the closing brace: the locals in the *)
(* reverse order of their declarations, j with the frames before i with    *)
(* the buffers.  "stopping" is where the slot is; the GUI thread does      *)
(* nothing else meanwhile, the library's thread goes on.                   *)
(***************************************************************************)

\* Mutants: the buffers die with m_Buffers; it is not cleared.
ClearBuffersAtOnce ==
  /\ buffers' = Nothing
  /\ stopping' = "frames"
  /\ UNCHANGED <<iterBuffers, iterFrames, frames, bufferFD, viewHaveMirror, surface, presented, dirty>>
KeepBuffers ==
  /\ stopping' = "frames"
  /\ UNCHANGED <<buffers, iterBuffers, iterFrames, frames, bufferFD, viewHaveMirror, surface, presented, dirty>>

\* The slot's first stage: emit mirrorStop(), the iterator i, m_Buffers.clear().
OnMirrorStop ==
  /\ buffers' = Nothing
  /\ iterBuffers' = buffers
  /\ stopping' = "frames"
  /\ UNCHANGED <<iterFrames, frames, bufferFD, viewHaveMirror, surface, presented, dirty>>

\* Mutant: m_haveMirror is forgotten.
ClearFramesAlone ==
  /\ stopping = "frames"
  /\ frames' = Nothing
  /\ iterFrames' = frames
  /\ bufferFD' = NoFd
  /\ stopping' = "leave"
  /\ UNCHANGED <<buffers, iterBuffers, viewHaveMirror, surface, presented, dirty>>

\* The iterator j, m_Frames.clear(), the two members.
ClearFrames ==
  /\ stopping = "frames"
  /\ frames' = Nothing
  /\ iterFrames' = frames
  /\ bufferFD' = NoFd
  /\ viewHaveMirror' = FALSE
  /\ stopping' = "leave"
  /\ UNCHANGED <<buffers, iterBuffers, surface, presented, dirty>>

\* The closing brace: ~j, then ~i.
LeaveFrames ==
  /\ stopping = "leave"
  /\ iterFrames' = Nothing
  /\ stopping' = "release"
  /\ UNCHANGED <<buffers, iterBuffers, frames, bufferFD, viewHaveMirror, surface, presented, dirty>>

LeaveBuffers ==
  /\ stopping = "release"
  /\ iterBuffers' = Nothing
  /\ stopping' = "no"
  /\ UNCHANGED <<buffers, iterFrames, frames, bufferFD, viewHaveMirror, surface, presented, dirty>>

\* Its other stages.
StopOn == ClearFrames \/ LeaveFrames \/ LeaveBuffers

------------------------------- (* sync() *) --------------------------------

\* Mutant: the image is taken from before the descriptors were last closed.
MirrorVideoBuffersLate == {[epoch |-> epoch - 1, valid |-> surf.fd # NoFd]}

\* The constructor returns early on a bad descriptor and eglCreateImageKHR may
\* fail on any: in both cases the buffer exists without an image.
MirrorVideoBuffers ==
  {[epoch |-> epoch, valid |-> ok] : ok \in {FALSE, surf.fd # NoFd}}

SyncNothing ==
  /\ bufferFD = NoFd
  /\ dirty' = FALSE
  /\ UNCHANGED <<bufferFD, viewHaveMirror, buffers, frames, surface, presented, stopVars>>

\* m_surface->start() fails: the buffer and the frame stay cached.
CacheFrame ==
  /\ bufferFD # NoFd
  /\ IF buffers[bufferFD] = Absent
       THEN \E b \in MirrorVideoBuffers : buffers' = [buffers EXCEPT ![bufferFD] = b]
       ELSE UNCHANGED buffers
  /\ frames' = IF frames[bufferFD] = Absent
                 THEN [frames EXCEPT ![bufferFD] = buffers'[bufferFD]]
                 ELSE frames
  /\ dirty' = FALSE
  /\ UNCHANGED <<bufferFD, viewHaveMirror, stopVars>>

SyncStartFailed ==
  /\ surface = "inactive"
  /\ CacheFrame
  /\ UNCHANGED <<surface, presented>>

SyncPresent ==
  /\ CacheFrame
  /\ surface' = "active"
  /\ presented' = bufferFD

Sync == SyncNothing \/ SyncStartFailed \/ SyncPresent
=============================================================================
