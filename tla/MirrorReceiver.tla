--------------------------- MODULE MirrorReceiver ---------------------------
(***************************************************************************)
(* MirrorVideoReceiver.  Its update() runs on the library's thread, its    *)
(* watchdog onCheckAP1Shutdown() on the GUI thread; both read and write    *)
(* haveMirror and haveTimeout without a lock, so every access to the two   *)
(* that the other thread can tell apart is a step of its own.  firstFrame  *)
(* is used by update() alone.                                              *)
(*                                                                         *)
(* The receiver object lives in the GUI thread: what update() emits is     *)
(* queued as an event for the view (gq), what the watchdog emits is a      *)
(* direct call that overtakes everything queued.                           *)
(***************************************************************************)
EXTENDS SdCast

VARIABLES
  haveMirror, haveTimeout, firstFrame,
  gq,     \* events posted to the GUI thread for the view
  gpc,    \* where the GUI thread is: its event loop, or inside the watchdog
  heard   \* history: update() was entered since the watchdog last armed

flagVars == <<haveMirror, haveTimeout, firstFrame>>

Event(name) == [name |-> name, epoch |-> epoch]
Events == {"updateBufferFD", "updateBufferNull", "startMirror", "stopMirror"}
Post(name) == gq' = Append(gq, Event(name))

ReceiverInit ==
  /\ haveMirror = FALSE
  /\ haveTimeout = FALSE
  /\ firstFrame = FALSE
  /\ gq = <<>>
  /\ gpc = "loop"
  /\ heard = FALSE
  /\ rpc = "off"

\* init(): the library's thread starts to read and the watchdog to tick.
StartReceiver ==
  /\ rpc = "off"
  /\ rpc' = "read"
  /\ UNCHANGED <<flagVars, gq, gpc, heard>>

------------------------------ (* update(info) *) ---------------------------

\* Mutant: only pictures and heart beats end a silence, HAS_CONTENT does not.
EnterUpdateKeepsTimeout ==
  /\ rpc = "update"
  /\ haveTimeout' = (haveTimeout /\ surf.cmd = "HAS_CONTENT")
  /\ heard' = TRUE
  /\ rpc' = CASE surf.cmd = "HAS_CONTENT" -> "hasContent"
              [] surf.cmd = "NO_CONTENT" -> "noContent"
              [] surf.cmd = "SURFACE_INFO" /\ surf.fd # NoFd -> "surfaceInfo"
              [] OTHER -> "read"
  /\ UNCHANGED <<haveMirror, firstFrame, gq, gpc>>

EnterUpdate ==
  /\ rpc = "update"
  /\ haveTimeout' = FALSE
  /\ heard' = TRUE
  /\ rpc' = CASE surf.cmd = "HAS_CONTENT" -> "hasContent"
              [] surf.cmd = "NO_CONTENT" -> "noContent"
              [] surf.cmd = "SURFACE_INFO" /\ surf.fd # NoFd -> "surfaceInfo"
              [] OTHER -> "read"
  /\ UNCHANGED <<haveMirror, firstFrame, gq, gpc>>

\* Mutant: HAS_CONTENT does not ask for a new first frame.
HasContentKeepsFirst ==
  /\ rpc = "hasContent"
  /\ haveMirror' = TRUE
  /\ rpc' = "read"
  /\ UNCHANGED <<haveTimeout, firstFrame, gq, gpc, heard>>

HasContent ==
  /\ rpc = "hasContent"
  /\ haveMirror' = TRUE
  /\ firstFrame' = TRUE
  /\ rpc' = "read"
  /\ UNCHANGED <<haveTimeout, gq, gpc, heard>>

\* if (haveMirror) { haveMirror = false; emit stopMirror(); }
NoContentTest ==
  /\ rpc = "noContent"
  /\ rpc' = IF haveMirror THEN "noContentWas" ELSE "noContentAlways"
  /\ UNCHANGED <<flagVars, gq, gpc, heard>>

NoContentWas ==
  /\ rpc = "noContentWas"
  /\ haveMirror' = FALSE
  /\ Post("stopMirror")
  /\ rpc' = "noContentAlways"
  /\ UNCHANGED <<haveTimeout, firstFrame, gpc, heard>>

\* haveMirror = false; emit updateBufferFD(nullptr);
NoContentAlways ==
  /\ rpc = "noContentAlways"
  /\ haveMirror' = FALSE
  /\ Post("updateBufferNull")
  /\ rpc' = "noContentStop"
  /\ UNCHANGED <<haveTimeout, firstFrame, gpc, heard>>

\* Mutant: line 61 is dropped, line 56 stops a running mirror already.
NoContentNoStop ==
  /\ rpc = "noContentStop"
  /\ rpc' = "read"
  /\ UNCHANGED <<flagVars, gq, gpc, heard>>

NoContentStop ==
  /\ rpc = "noContentStop"
  /\ Post("stopMirror")
  /\ rpc' = "read"
  /\ UNCHANGED <<flagVars, gpc, heard>>

SurfaceInfo ==
  /\ rpc = "surfaceInfo"
  /\ Post("updateBufferFD")
  /\ rpc' = "firstFrame"
  /\ UNCHANGED <<flagVars, gpc, heard>>

FirstFrame ==
  /\ rpc = "firstFrame"
  /\ firstFrame' = FALSE
  /\ IF firstFrame THEN Post("startMirror") ELSE UNCHANGED gq
  /\ rpc' = "read"
  /\ UNCHANGED <<haveMirror, haveTimeout, gpc, heard>>

UpdateStep ==
  \/ EnterUpdate \/ HasContent
  \/ NoContentTest \/ NoContentWas \/ NoContentAlways \/ NoContentStop
  \/ SurfaceInfo \/ FirstFrame

--------------------- (* onCheckAP1Shutdown(), GUI thread *) ----------------

\* The event loop has delivered every posted event and turns to the timers.
TimerDue ==
  /\ gpc = "loop" /\ rpc # "off"
  /\ gq = <<>>
  /\ gpc' = "checkMirror"
  /\ UNCHANGED <<flagVars, gq, rpc, heard>>

CheckMirror ==
  /\ gpc = "checkMirror"
  /\ gpc' = IF haveMirror THEN "checkTimeout" ELSE "loop"
  /\ UNCHANGED <<flagVars, gq, rpc, heard>>

CheckTimeout ==
  /\ gpc = "checkTimeout"
  /\ gpc' = IF haveTimeout THEN "stop" ELSE "arm"
  /\ UNCHANGED <<flagVars, gq, rpc, heard>>

\* emit stopMirror(): the view's onMirrorStop() runs within this step.
EmitStop ==
  /\ gpc = "stop"
  /\ gpc' = "clear"
  /\ UNCHANGED <<flagVars, gq, rpc, heard>>

ClearMirror ==
  /\ gpc = "clear"
  /\ haveMirror' = FALSE
  /\ gpc' = "loop"
  /\ UNCHANGED <<haveTimeout, firstFrame, gq, rpc, heard>>

\* Mutant: the watchdog never arms itself.
ArmNothing ==
  /\ gpc = "arm"
  /\ heard' = FALSE
  /\ gpc' = "loop"
  /\ UNCHANGED <<flagVars, gq, rpc>>

ArmTimeout ==
  /\ gpc = "arm"
  /\ haveTimeout' = TRUE
  /\ heard' = FALSE
  /\ gpc' = "loop"
  /\ UNCHANGED <<haveMirror, firstFrame, gq, rpc>>
=============================================================================
