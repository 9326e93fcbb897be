-------------------------- MODULE MirrorRefinement --------------------------
(***************************************************************************)
(* The mirror pipeline implements MirrorSession.  The code keeps no number *)
(* of the session the view was last told of, so a history variable does:   *)
(* it is the epoch in which the last delivered frame event was posted.     *)
(***************************************************************************)
EXTENDS MirrorPipeline

VARIABLE told  \* history: epoch of the last updateBufferFD delivered

HInit == Init /\ told = 0

HNext ==
  /\ Next
  /\ told' = IF DeliverFrame THEN Head(gq).epoch ELSE told

HSpec == HInit /\ [][HNext]_<<vars, told>>

\* A cached buffer is the picture of the epoch its descriptor was open in; an
\* Absent one has epoch -1, the abstract None.  The screen clears in one step,
\* when m_Buffers is emptied: the descriptor is then as good as withdrawn, for
\* nothing reads it before the slot resets it.
Session == INSTANCE MirrorSession WITH
  pictures <- [fd \in Fds |-> buffers[fd].epoch],
  current <- IF stopping = "frames" THEN NoFd ELSE bufferFD,
  told <- told

\* The pipeline keeps the abstract promise: no picture of a session the library
\* has closed survives the news of a later one, and a descriptor keeps the
\* picture it was given until the view is cleared (mirrorview.cpp 30-68, 112-125).
ImplementsSession == Session!Spec
=============================================================================
