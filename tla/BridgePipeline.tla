---------------------------- MODULE BridgePipeline ---------------------------
(***************************************************************************)
(* The infotainment bridge and the screen: the IPC threads and the GUI     *)
(* thread over the members of ClusterData, with the posted signals between *)
(* them.                                                                   *)
(***************************************************************************)
EXTENDS ClusterScreen

vars == <<ipcVars, posted, screenVars>>

Init == BridgeInit /\ ScreenInit

--------------------------------------------------------------------------------
\* The IPC threads.
Service == ServiceComesOrGoes /\ UNCHANGED screenVars
Connect == Subscribe /\ UNCHANGED screenVars
Broadcast == OnBroadcast /\ UNCHANGED screenVars

\* The history variable notes a URL that QML had no chance to see change.
WriteProperty ==
  /\ WriteMember
  /\ overrun' = (\/ overrun
                 \/ /\ Assignment.prop = "albumArt"
                    /\ \/ val.albumArt = "default" /\ Assignment.value = "default"
                       \/ shown.albumArt # val.albumArt)
  /\ UNCHANGED <<shown, cover, currentApp, runningApps, navigationMode, gui>>

SetImage == WriteImage /\ UNCHANGED screenVars
Notify == EmitChanged(Bound) /\ UNCHANGED screenVars
Handler == WriteProperty \/ SetImage \/ Notify

\* The GUI thread delivers the oldest posted signal, or serves the user.
TakeSignal(prop) ==
  /\ posted # <<>>
  /\ Head(posted) = prop
  /\ posted' = Tail(posted)
  /\ UNCHANGED ipcVars

DeliverChange == \E prop \in DisplayProps : TakeSignal(prop) /\ Reevaluate(prop)
DeliverPage == TakeSignal("mockPage") /\ SetNavigationMode
FinishHandler == (LoadCover \/ RunMockPage) /\ UNCHANGED <<ipcVars, posted>>
Gui == DeliverChange \/ DeliverPage \/ FinishHandler

Click == \E app \in Apps : AppClicked(app) /\ UNCHANGED <<ipcVars, posted>>

Next == Service \/ Connect \/ Broadcast \/ Handler \/ Gui \/ Click

Spec == Init /\ [][Next]_vars

(***************************************************************************)
(* Fairness: the poll, a running handler and the GUI thread go on.  The    *)
(* service, its broadcasts and the user are free.                          *)
(***************************************************************************)
FairSpec == Spec /\ WF_vars(Connect) /\ WF_vars(Handler) /\ WF_vars(Gui)

--------------------------------------------------------------------------------
Props == DisplayProps \cup {"mockPage"}
Urls == {"", "default", "+0", "+1"}

ValueOf(prop) ==
  CASE prop \in {"title", "artist", "nextRoad", "currentRoad"} -> Names \cup {NoName}
    [] prop \in {"duration", "position"} -> Ints
    [] prop = "nextTurnDistance" -> Int
    [] prop = "albumArt" -> Urls
    [] prop = "nextTurnDistanceMeasuredIn" -> {"m", "km"}
    [] prop = "naviActive" -> BOOLEAN
    [] prop = "naviIcon" -> Nat \cup {NoIcon}
    [] prop = "mockPage" -> Apps \cup {""}
    [] prop = "image" -> Arts \cup {NoArt, DefaultArt}

\* Members, pending assignments and bindings have the types of the Q_PROPERTYs,
\* and the page index stays in mockIndexList.
TypeOK ==
  /\ available \in BOOLEAN /\ written \in BOOLEAN /\ flag \in BOOLEAN
  /\ subscribed \in 0..Len(Broadcasts)
  /\ received \in Nat
  /\ \A prop \in Props : val[prop] \in ValueOf(prop)
  /\ image \in ValueOf("image") /\ cover \in ValueOf("image")
  /\ mockCurrIndex \in 0..(Len(mockIndexList) - 1)
  /\ \A i \in 1..Len(todo) : todo[i].prop \in Props \cup {"image"}
                             /\ todo[i].value \in ValueOf(todo[i].prop)
  /\ \A i \in 1..Len(posted) : posted[i] \in Props
  /\ \A prop \in DisplayProps : shown[prop] \in ValueOf(prop)
  /\ currentApp \in Apps /\ runningApps \subseteq Apps
  /\ navigationMode \in BOOLEAN /\ overrun \in BOOLEAN
  /\ gui \in {"loop", "loadCover", "runApp"}

----------------------------- (* safety *) ----------------------------------

Queued(prop) == \E i \in 1..Len(posted) : posted[i] = prop
Emitting(prop) == written /\ Assignment.prop = prop
Pending(prop) == Queued(prop) \/ Emitting(prop)

\* No property is ever left stale on the screen: where a binding differs from
\* the member behind it, a signal is queued or the setter that wrote the member
\* is about to emit one.  Apps that are loaded in the middle included.
ShownOrPending ==
  \A prop \in DisplayProps \cap Bound : shown[prop] # val[prop] => Pending(prop)

\* main.qml reads the page twice, and the bridge may turn it in between: the
\* navigation mode and the app then disagree, but only as long as another
\* mockPageChanged is on its way.
ModeFollowsApp ==
  navigationMode # (currentApp = "map") => gui = "runApp" \/ Pending("mockPage")

Settled == todo = <<>> /\ posted = <<>> /\ gui = "loop"

\* Distance, unit, guide arrow and roads are six properties set one by one; once
\* everything is delivered they belong to one and the same instruction.
DirectionsAgree ==
  Settled /\ lastTbt # NoTbt =>
    /\ shown.nextTurnDistance = DistanceLabel(lastTbt.distance).number
    /\ shown.nextTurnDistanceMeasuredIn = DistanceLabel(lastTbt.distance).unit
    /\ shown.naviActive = (lastTbt.icon # 0) /\ shown.naviIcon = lastTbt.icon
    /\ shown.nextRoad = lastTbt.nextRoad /\ shown.currentRoad = lastTbt.currentRoad

\* The cover is the picture of the song on display, although the URL it hangs on
\* only alternates: as long as QML read every URL before the next was written, and
\* the next was not the same (two songs in a row without artwork).
CoverOfSong ==
  Settled /\ "music" \in runningApps /\ val.albumArt # "" /\ ~overrun => cover = image

\* MusicProgress.qml:46 says of the value it is given, position / duration:
\* 0 <= value <= 1.
ProgressWithinOne ==
  Settled /\ currentApp = "music" /\ shown.duration > 0 => shown.position <= shown.duration

\* A binding looks again at a property whose signal is queued, or about to be emitted.
Notified == INSTANCE NotifiedProperties WITH
  Props <- DisplayProps,
  member <- [prop \in DisplayProps |-> val[prop]],
  shown <- shown,
  live <- DisplayProps \cap Bound,
  due <- {prop \in DisplayProps : Pending(prop)}

\* Of handlers, setters, posted signals and apps that are loaded in the middle, the
\* screen sees no more than properties that are written, announced and looked at:
\* nothing is shown that the member does not hold then, and a write without a look
\* after it is only possible where nothing is bound (clusterdata.cpp 188-261,
\* MusicStore.qml, MapStore.qml).
ImplementsNotified == Notified!Spec

---------------------------- (* liveness *) ---------------------------------

\* A page the bridge turned to is displayed, or turned away from again.
PageReaches ==
  \A page \in Apps :
    (Emitting("mockPage") /\ val.mockPage = page) ~> (currentApp = page \/ val.mockPage # page)

\* The poll finds a service that stays, and all broadcasts are subscribed to.
SubscribesAll == (<>[]available) => <>(subscribed = Len(Broadcasts))
==============================================================================
