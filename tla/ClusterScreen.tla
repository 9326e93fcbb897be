---------------------------- MODULE ClusterScreen ----------------------------
(***************************************************************************)
(* What QML shows of the infotainment properties: the bindings of          *)
(* MusicStore.qml and MapStore.qml, the album cover, and the page that     *)
(* MockedWindows.qml displays, chosen by the bridge (onMockPageChanged) or *)
(* by the Launcher.  All of it runs on the GUI thread, which reads the     *)
(* bridge's members while the IPC thread may be writing them: where one    *)
(* handler reads twice it is two steps.                                    *)
(***************************************************************************)
EXTENDS ClusterBridge

VARIABLES
  shown,          \* what the bindings last evaluated to
  cover,          \* the picture the Image element of the album art displays
  currentApp,     \* d.currentApp of MockedWindows.qml
  runningApps,    \* apps loaded so far, never unloaded
  navigationMode, \* behaviourInterface.navigationMode
  gui,            \* where the GUI thread is
  overrun         \* history: an album art URL was replaced before QML read it, or
                  \* the default by itself, and no cover was loaded since

screenVars == <<shown, cover, currentApp, runningApps, navigationMode, gui, overrun>>

Apps == {"vehicle", "music", "map"}

PropsOf(app) == CASE app = "music" -> MusicProps
                  [] app = "map" -> MapProps
                  [] OTHER -> {}

\* main.qml's Connections are bound to mockPage from the start; a store's
\* bindings exist once its app is loaded.
Bound == {"mockPage"} \cup UNION {PropsOf(app) : app \in runningApps}

\* main.qml starts with the map.
ScreenInit ==
  /\ shown = [prop \in DisplayProps |-> val[prop]]
  /\ cover = NoArt
  /\ currentApp = "map"
  /\ runningApps = {"map"}
  /\ navigationMode = TRUE
  /\ gui = "loop"
  /\ overrun = FALSE

\* Mutants: a loaded app shows its defaults; runApp() returns for a running app
\* before it has made it the current one.
RunAppUnbound(app) ==
  /\ currentApp' = app
  /\ runningApps' = runningApps \cup {app}
  /\ gui' = "loop"
  /\ UNCHANGED shown
RunAppReturnsFirst(app) ==
  /\ runningApps' = runningApps \cup {app}
  /\ IF app \in runningApps
       THEN /\ gui' = "loop"
            /\ UNCHANGED <<shown, currentApp>>
       ELSE /\ gui' = "loop"
            /\ currentApp' = app
            /\ shown' = [prop \in DisplayProps |->
                           IF prop \in PropsOf(app) THEN val[prop] ELSE shown[prop]]

\* runApp(): an app that was never shown is loaded, and its bindings evaluated.
RunApp(app) ==
  /\ currentApp' = app
  /\ runningApps' = runningApps \cup {app}
  /\ IF app \in runningApps
       THEN /\ gui' = "loop"
            /\ UNCHANGED shown
       ELSE /\ gui' = IF app = "music" /\ val.albumArt # "" THEN "loadCover" ELSE "loop"
            /\ shown' = [prop \in DisplayProps |->
                           IF prop \in PropsOf(app) THEN val[prop] ELSE shown[prop]]

\* Mutant: the Launcher does not change the navigation mode.
AppClickedKeepsMode(app) ==
  /\ gui = "loop"
  /\ RunApp(app)
  /\ UNCHANGED <<cover, overrun, navigationMode>>

\* The user taps an icon of the Launcher.
AppClicked(app) ==
  /\ gui = "loop"
  /\ RunApp(app)
  /\ navigationMode' = (app = "map")
  /\ UNCHANGED <<cover, overrun>>

\* A posted NOTIFY signal makes its binding read the member anew.
Reevaluate(prop) ==
  /\ gui = "loop"
  /\ prop \in DisplayProps
  /\ shown' = [shown EXCEPT ![prop] = val[prop]]
  /\ gui' = IF prop = "albumArt" /\ shown[prop] # val[prop] THEN "loadCover" ELSE "loop"
  /\ UNCHANGED <<cover, currentApp, runningApps, navigationMode, overrun>>

\* A changed source makes the Image ask the provider, which ignores the id.
LoadCover ==
  /\ gui = "loadCover"
  /\ cover' = image
  /\ gui' = "loop"
  /\ overrun' = FALSE
  /\ UNCHANGED <<shown, currentApp, runningApps, navigationMode>>

\* onMockPageChanged reads clusterDataSource.mockPage once for the navigation
\* mode and once more for the app.
SetNavigationMode ==
  /\ gui = "loop"
  /\ navigationMode' = (val.mockPage = "map")
  /\ gui' = "runApp"
  /\ UNCHANGED <<shown, cover, currentApp, runningApps, overrun>>

RunMockPage ==
  /\ gui = "runApp"
  /\ RunApp(val.mockPage)
  /\ UNCHANGED <<cover, navigationMode, overrun>>
==============================================================================
