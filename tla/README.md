# Verification of qt-automotive-cluster

TLA+ models, TLC runs and TLAPS proofs for the instrument cluster in this
repository: a Qt/QML application that shows driving data, the navigation and
media state of the infotainment system, and a mirrored video stream of it.

    tlc -workers 2 -config MirrorSafety.cfg MCMirrorPipeline.tla
    tlapm MirrorPipeline_proofs.tla

## 1. The system

### Components

| Component | State it keeps | Operations | Talks to |
|---|---|---|---|
| `MirrorVideoReceiver` | `haveMirror`, `haveTimeout`, `firstFrame` | `init()`, `update()` for each message, the 10 s watchdog `onCheckAP1Shutdown()` | called by libSdCast on its thread; signals to `MirrorView` |
| `MirrorView`, `MirrorVideoBuffer` | `m_BufferFD`, `m_surfaceInfo`, `m_Buffers`, `m_Frames`, `m_haveMirror`, `m_surface` | slots for the receiver's signals, `sync()` in the render thread, `setVideoSurface()`, `setWindow()` | EGL, the `QAbstractVideoSurface` of a `VideoOutput` |
| libSdCast (binary) | one `Surface` object, the descriptors it exported | reads messages, exports buffers, closes descriptors | the peer ("AP1"), the receiver's callback |
| `ClusterData`, infotainment side | one member per `Q_PROPERTY`, the album art, `mockCurrIndex` | `startInfoIPC()` poll and subscriptions, five broadcast handlers, setters with NOTIFY signals | CommonAPI/FDBus threads, QML bindings, `ImageProvider` |
| `ClusterData`, demo side | lists of speeds and powers, temperature, theme | `init()` from `settings.xml`, `start()`, `stop()`, four timers | `ParseXmlFile`, QML bindings |
| Page switching (`main.qml`, `Launcher.qml`, `MockedWindows.qml`) | current app, apps loaded, navigation mode | `onMockPageChanged`, `onAppClicked`, `runApp()` | `ClusterData.mockPage`, the user |
| `ParseXmlFile` | one member per setting | a recursive-descent reader of `settings.xml` | `QXmlStreamReader`, `ClusterData::init()` |
| `SDApplication`, `main` | none | a fixed start-up order, `init()` 10 s after the QML context | everything above |
| Gauges and dials | states of `GaugesPanel`, delayed start timer, needle animations | property changes, `rtlMode` restart | `ClusterData` |
| Telltales, blinker, labels | blinker phase | timers, bindings | `ClusterData` |
| `Style`, `Sizes` attached properties | value per item, parent and children links | attach, reparent, set, inherit | the QML item tree |
| Default progress bar | animation state of a scene-graph node | `sync`, `updateCurrentTime` | render thread |
| CommonAPI, FDBus, generated proxies | third-party | | |

### Where it is hard

* **Three threads and one struct in the mirror.** libSdCast reads every message
  into the same `Surface` and passes a pointer to it; the GUI thread and the
  render thread read it later, when the next message may already be in it.
* **Two flags without a lock.** `haveMirror` and `haveTimeout` are written by
  the library's thread and by the watchdog, each in several steps.
* **Two orders for one signal.** What `update()` emits is queued for the GUI
  thread; what the watchdog emits is a direct call that overtakes the queue.
* **Descriptor numbers come back.** At the end of a session the library closes
  the descriptors it exported and the kernel hands the same numbers out again,
  while images cached under the old meaning may still be in the view.
* **Failures half-way.** `eglCreateImageKHR` and `QAbstractVideoSurface::start()`
  may fail after the caches were filled; the peer may vanish without a word.
* **Setters on a foreign thread.** The broadcast handlers run on FDBus's thread
  and write the members that QML reads, member by member, each with a signal
  that is delivered later and carries no value.
* **Two sources of the page.** The bridge turns pages and so does the user, and
  `onMockPageChanged` reads the page twice.
* **Six loops, one reader.** Each function of the settings parser decides how many
  tokens the next may not see, and a failure is a position rather than a value.
* **Two mutexes and three sets.** An event decides under one lock and tells the
  proxy after it; notifications walk the map under the other, with callbacks.
* **A tree that changes while it is walked.** A change of theme or scale runs QML
  between two calls of its loops.
* **A picture without a signal.** The album art is a member that only a URL
  announces, and that URL alternates between two names.

What each component must guarantee is the list of properties in section 3; the
hazards, one by one and at their lines, are in `PROJECT.json`.

## 2. Modules and the plan

| Module | Stands for | State |
|---|---|---|
| `SdCast` | the library as the callback and its headers show it | done |
| `MirrorReceiver` (extends `SdCast`) | `mirrorvideoreceiver.cpp` | done |
| `MirrorView` (extends `SdCast`) | `mirrorview.cpp`, the constructor in `mirrorvideobuffer.cpp` | done |
| `MirrorPipeline` | the two with their threads and the event queue; properties | done |
| `MirrorPipeline_proofs` | theorems | done |
| `ClusterBridge` | `ClusterData`'s IPC thread | done |
| `ClusterScreen` (extends it) | the QML that shows it, and the page switching | done |
| `BridgePipeline` | the two with the posted signals; properties | done |
| `BridgePipeline_proofs` | theorems | done |
| `NotifiedProperties` | what the cluster promises about properties one thread writes and another shows | done |
| `MCMirrorPipeline`, `MCBridgePipeline` | TLC instances | done |
| `MirrorSession` | what the mirror promises the screen, without threads, queue or flags | done |
| `MirrorRefinement` (extends `MirrorPipeline`) | the pipeline with the history the promise needs; `MirrorRefinement_proofs` | done |
| `SettingsFile` | `settings.xml` as `QXmlStreamReader` hands it out, and what it means to a reader of the whole file | done |
| `SettingsParser` (extends it) | `ParseXmlFile`; `SettingsParser_proofs` | done |
| `ClusterSettings` (extends it) | `ClusterData::init()` and `start()`; its theorem is in `SettingsParser_proofs` | done |
| `EventListeners` | `CommonAPI::Event` and `FDBusEvent`, the listeners under the bridge; `EventListeners_proofs`, `MCEventListeners` | done |
| `ListenerSet` | what an event promises its listeners, without maps, pending sets or locks | done |
| `AttachedTree` | `QQuickAttachedObject` as `Style` and `Sizes` use it; `AttachedTree_proofs` | done |
| `StyleTree` (extends it) | `Style`, `StyleDefaults` | done |
| `ClusterLook` (extends it) | the timer that turns temperature and theme, `main.qml` between them; `ClusterLook_proofs` | done |
| `SizesTree` (extends `AttachedTree`) | `Sizes`; `SizesTree_proofs` | done |

The order was: the mirror first, because it has the most threads and the worst
failure (wrong or dangling pictures in front of a driver); the bridge and the
events beneath it next; then what runs on one thread. Three of the modules are
abstract specifications (`MirrorSession`, `NotifiedProperties`, `ListenerSet`),
each implemented by the module of the code, checked and proved. No component is
planned beyond these: section 5 says why the rest stays out.

### The mirror: correspondence

`rpc` is the program counter of the library's thread, `gpc` of the GUI thread.
A step is as small as the other threads can tell: each test or write of
`haveMirror` and `haveTimeout` is an action; `firstFrame`, used by `update()`
alone, is not split from its neighbours.

| Code | Definition |
|---|---|
| reading a message into the `Surface` | `ReadNotice`, `ReadSurface`, `ExportSurface`, `LoseConnection` |
| `update()` 40-42 | `EnterUpdate` |
| `HAS_CONTENT` 43-50 | `HasContent` |
| `NO_CONTENT` 51-62 | `NoContentTest`, `NoContentWas`, `NoContentAlways`, `NoContentStop` |
| `SURFACE_INFO` 66-84 | the early return in `EnterUpdate`; `SurfaceInfo`, `FirstFrame` |
| `onCheckAP1Shutdown()` | `TimerDue`, `CheckMirror`, `CheckTimeout`, `EmitStop`, `ClearMirror`, `ArmTimeout` |
| `onBufferFDUpdate`, `onMirrorStart` | `OnBufferFDUpdate`, `OnMirrorStart`, delivered by `DeliverFrame`, `DeliverNull`, `DeliverStart` |
| `onMirrorStop` 106-117, 119-128, 129 | `OnMirrorStop`, delivered by `DeliverStop` or called by `StopDirectly`; then `ClearFrames`, `LeaveFrames`, `LeaveBuffers` in `StopSlot` |
| `sync()` | `SyncNothing`, `SyncStartFailed`, `SyncPresent` |

What shapes the model:

* The receiver lives in the GUI thread and the library's thread emits its
  signals, so Qt queues them; they are delivered first in, first out (`gq`).
  `updateBufferFD(info)` queues the pointer: the slot reads `surf.fd` as it is
  then (`DeliverFrame`), which may be another message's, or a notice's.
* The watchdog runs in the GUI thread and its `stopMirror` is a direct call.
  Qt sends posted events before it activates timers: `TimerDue` asks for an
  empty queue. Events posted after that are overtaken.
* `sync()` is connected to `beforeSynchronizing` and runs while the GUI thread
  is blocked in its event loop: `Render` asks for `gpc = "loop"`. Nothing
  blocks the library's thread.
* `onMirrorStop()` has four stages (`stopping`). A `QMapIterator` holds a copy of
  the implicitly shared map it runs over, so `reset()` works on a temporary and
  `m_Buffers.clear()` leaves the entries to the copy `i`, `m_Frames.clear()` to the
  copy `j` (`iterBuffers`, `iterFrames`). What they hold is destroyed at the closing
  brace, locals in reverse order: `j` with the frames first, `i` with the buffers
  after it. The GUI thread delivers nothing, the watchdog does not go on and
  `sync()` does not run in between; the library's thread does.
* `init()` calls the library's `Init()` before it hands it the callback;
  `StartReceiver` has both in one step, since no property depends on the order.
* `epoch` is a history variable: the number of times the descriptors were
  closed. A cached image carries the epoch of its descriptor.
* A `MirrorVideoBuffer` whose constructor returned early, or whose image could
  not be created, is cached like any other (`valid = FALSE`). The members it
  leaves uninitialised are not modelled further.
* `SdCast` leaves open what the binary hides: whether an export succeeds, which
  number it returns, what a notice leaves in `prime_fd`.

### The mirror and its promise

`MirrorSession` has three variables: for each descriptor the session its picture
was built in, the descriptor shown, and the session the view was last told of.
It allows to be told of a session only when everything held is of that session
or a later one, to withdraw the picture, to clear, and to build a picture for
the descriptor shown when it has none. `MirrorRefinement` maps
`buffers[fd].epoch` to the pictures and `bufferFD` to the descriptor shown (none
while `onMirrorStop()` has yet to reset it: nothing reads it before); the third is a
history variable, the epoch of the last frame event delivered, since the code keeps
none. `onBufferFDUpdate` is `Tell` or `Withdraw`, `onMirrorStop` is `Clear`, `sync()` is `Build`, and everything else stutters.

### The bridge: correspondence

A broadcast handler is a list `todo` of assignments; each is two steps, the
write of the member (`WriteMember`) and the emission of its signal
(`EmitChanged`), and the GUI thread may run between any two. `TakeSignal` and
`Reevaluate` deliver a signal: the binding reads the member as it is then.

| Code | Definition |
|---|---|
| `startInfoIPC()` 111-166 | `Subscribe`, one per broadcast; the poll is its guard |
| handlers 118-164 | `OnPlayStatus`, `OnProgress`, `OnSong`, `OnTbt`, `OnControlPage` |
| setters 188-261 | `SetMockPage`, `WriteMember`, `EmitChanged` |
| `setNextPage()`, `setPreviousPage()` | `NextIndex`, `PreviousIndex` |
| `setAlbumArt()`, `setDefaultAlbumArt()` | `SetAlbumArt`, `ToggleFlag`, `WriteImage` |
| `requestImage()` | `LoadCover` |
| `MusicStore.qml`, `MapStore.qml` | `MusicProps`, `MapProps`, `Reevaluate` |
| `main.qml` `onMockPageChanged` | `SetNavigationMode`, then `RunMockPage` |
| `main.qml` `onAppClicked`, `MockedWindows.qml` `runApp()` | `AppClicked`, `RunApp` |

* A NOTIFY signal emitted on another thread is posted to the GUI thread only
  if QML is bound to the property at that moment, so signals of an app that is
  not loaded are lost. `Bound` is the set of bound properties. Loading an app
  captures its properties and reads them on the GUI thread; the model makes
  that one step per app, because a binding is captured before it is read and a
  write in between is announced.
* `available` is looked at until the first subscription and not again:
  `Subscribe` keeps that. A service that leaves afterwards stops the broadcasts
  and the code does nothing about it.
* `UInt64` durations and `UInt32` distances are stored in an `int`: `Duration` and
  `AsInt` keep the lower bits and the sign, with the constant `IntLimit` for 2^31.
  A song may thus have a negative duration, and a distance from `IntLimit` on is a
  negative number and shown in metres. `Positions` truncates the product of progress
  and duration and allows any `int` where it does not fit into one; the last digit
  a `float` loses before is left out. 0 / 0 before the first song is outside the
  model.
* Distances are kept in tenths of the number displayed. `Tenths` is a constant
  operator, what `arg(d / 1000.0f, 0, 'f', 1)` writes, and assumed to be as exact as
  a `float` makes it (`TenthsAssumption`): within 50 m up to 2^24 m, where every
  metre is a `float`, and within 250 m (`Error`) beyond. Which way a tie goes is left open.
* `overrun` and `lastTbt` are history variables: an album-art URL was replaced
  unread, or the default URL by itself; the last instruction received.
* `mockCurrIndex` is not tied to the Launcher or to the map shown at start-up:
  neither is it in the code.
* Handlers run one at a time (one dispatcher thread). `QString` and `QImage`
  assignments are atomic here; in the code they race with the readers, and a
  torn read has no outcome that could be named.

### The bridge and its promise

`NotifiedProperties` knows neither threads nor signals. It has the members, what
the screen shows, which properties something is bound to, and which are due a
look. A write makes its property due; a look takes the value of that moment; what
is due and not on the screen is missed; loading an app shows the values of the
moment. `BridgePipeline` maps the properties with a display (`DisplayProps`) to it:
due is whatever has its signal posted, or was written by a setter that is yet to
emit (`Pending`). `WriteProperty` is `Write`, `DeliverChange` is `Refresh`, a
`Notify` for which nothing is bound is `Miss`, `RunApp` is `Load`, and the page
and the cover stutter.

### The settings: correspondence

`ParseXmlFile` is six nested loops over one reader. Each looks at the current
token and then makes one or two `readNext()` before the next loop looks: `pc`
is the loop, `reads` the calls still to make. The five section functions differ
in the names they know, so they are one action, `Section`, and five tables.

| Code | Definition |
|---|---|
| `Parse()` | `Open`, `Prolog` |
| `parseSetting()` | `Settings`, `EnterSection`, `Leave` |
| `parse...Setting()` | `Section`, `ReadEntry`, `LeaveSection` |
| `<string-array>` 191-210 | `Array`, `ReadItem` |
| `QXmlStreamReader` | `ReadNext`, `ReadText` and the tokens in `SettingsFile` |
| `ClusterData::init()` 33-70, `start()` | `Load`, `Start` |

* The document is not given but chosen while it is read: at each `readNext()`
  any token the reader may report. It is as long as it likes, may break off
  anywhere, and after an element out of place anything may follow.
* `ref`, `fault` and `anySection` are history variables: what the document
  means, its first irregularity, whether it has a section. The parser does not
  see them; the properties compare it with them.
* A text is what `toInt()` makes of it. A name that no table knows stands for
  every unknown one, a member outside `Names` keeps its 0.
* `Load` takes the mileage, the two top speeds and the temperature cycle with the
  checks of `init()`, and the speed list. The durations and the other lists are
  taken over as `speedList` is, and are left out.

### The listeners of an event: correspondence

| Code | Definition |
|---|---|
| `subscribe()` 104-125 | `Subscribe`, then `Added`, then `OnFirstListenerAdded` |
| `unsubscribe()` 127-164 | `Unsubscribe`, then `OnLastListenerRemoved` |
| `notify...()` 166-304 | `Drain`, `Step` for each position of the iterator, `Finish` |
| the end of `notifySpecificError()` | `Forget` |
| a listener's callback | `InCallback`: from the `Step` that calls it to the next |
| `FDBusEvent::SignalHandler` | `Arrive` |

`subscribe()` and `unsubscribe()` are called by the application or by a callback, in
the thread that notifies it (`by`); its iterator moves on when the call is done. One
such call is made at a time. What happens under `subscriptionMutex_` is one step,
because its holder waits for nothing; `notificationMutex_` is held across callbacks and is a variable. The
keys grow, so the iterator is the last key visited. `removeSignalMemberHandler`
and `addSignalMemberHandler` work on a map keyed by the handler: `attached` is
whether it is there.

`ListenerSet` is the promise: one set of listeners, joined and left at once; a
notification takes its turn with the listeners of that moment and comes to each
of them once, in the order of their keys. The set is `Listening` (map, less the
pending removals, with the pending additions), the turn is `notificationMutex_`,
and whom a notification has yet to come to is what its iterator has ahead. `Drain`
is `Begin`, `Step` is `Visit` (a specific notification visits all and calls
one), `Finish` is `End`, `Forget` and `Unsubscribe` are `Unsubscribe` or stutter.

### Style and Sizes: correspondence

A change is a loop over the children that calls a setter which loops again.
`calls` is the set of calls the loops still owe. Handlers of the change signals
run between two calls and may create parts, so a new part may appear anywhere;
parts move or go only from the event loop, when no call is owed: a handler that
moves or deletes a part in the middle of a change is not in the model.

| Code | Definition |
|---|---|
| `QQuickAttachedObject` | `Attach`, `Reattach`, `Detach`, `Destroy` |
| `Style::setTheme`, `setAccentColor` and their propagation | `SetTheme`, `SetAccentColor`, `PropagateTheme`, `PropagateAccentColor` |
| `inheritStyle()` of both | `InheritStyle` |
| `StyleDefaults` | `StyleDefaults`, `Loaded`, `AccentColor` |
| `Sizes::setScale`, `propagateScale`, `dp()` | `SetScale`, `PropagateScale`, `ResetDp`, `Dp` |
| `temperatureValueUpdate()`, `main.qml` 61 | `TemperatureValueUpdate` |

* A `style.conf` may have either group, both or none. `colors` is the accent colour
  of each theme: two may be equal, and a theme without a group, or whose group has
  no `AccentColor` or one that names no colour, has an invalid one and counts as a
  theme all the same. Without the key `Theme` the constructor returns early and
  leaves the theme uninitialised, which may be any value.
* `inheritStyle()` emits its signals between its assignments and lists the children
  after both; `InheritStyle` is one step, and the calls it owes come after it.
* A part that comes to life between a part and the one it is attached below adopts
  the latter (`QQuickAttachedObject::init()`), which bindings evaluated child first
  can bring about. At rest that is `Detach` and `Reattach`.
* The set `calls` allows more orders than the depth-first recursion takes. What
  is proved of it holds of the code's order.
* `calls` may hold a call to a part whose parent has changed in value meanwhile;
  the value is read when the call is made, as the loop does.
* `ClusterData`'s `accentColor` is never written, so `onAccentColorChanged` never
  runs.

## 3. Runs

| Run | Configuration | Question | States | Time |
|---|---|---|---|---|
| `mirror_safety` | `MirrorSafety` | do caches, queue and flags stay consistent under every interleaving? | 2.08 M | 28 s |
| `mirror_liveness` | `MirrorLiveness` | does silence, or the end of a session, reach the screen, and does a frame? | 94 k | 13 s |
| `bridge_media` | `BridgeMedia` | is no binding left stale, and is the cover the song's? | 1.50 M | 35 s |
| `bridge_directions` | `BridgeDirections` | do mode and app agree, and the six properties of an instruction? | 3.06 M | 59 s |
| `bridge_liveness` | `BridgeLiveness` | is a page turn displayed, a service that stays subscribed to, and is every step one of `NotifiedProperties`? | 116 k | 35 s |
| `bridge_progress` | `BridgeProgress` | is the progress within 0 and 1? No: see below | | 7 s |
| `mirror_refines` | `MirrorRefinement` | does the pipeline keep `MirrorSession`'s promise? | 740 k | 11 s |
| `settings` | `Settings` | does the parser read what the file says, for every file? | 714 k | 26 s |
| `settings_animation` | `SettingsAnimation` | is the animation optional? No: see below | | 2 s |
| `event` | `Event` | is every listener heard of, reached, silent once removed, and is it all one `ListenerSet`? | 121 k | 4 s |
| `look` | `Look` | does every part wear the cluster's theme at rest, does the temperature sweep? | 335 k | 22 s |
| `sizes` | `Sizes` | has every part the scale of the one above, and a `dp()` of it? | 128 k | 4 s |

Mirror, safety:

* `FramesWrapBuffers`: a `QVideoFrame` holds a bare pointer to a buffer that
  `m_Buffers`, or an iterator's copy of it, owns; no frame of the view outlives its
  buffer, cached or held by an iterator, after a failed `start()` and at each stage
  of `onMirrorStop()`. That slot empties the buffers before the frames, and what
  saves it is what the iterators keep and the order in which they are left: were the
  buffers destroyed at line 117, as the loop intends, the property would fail.
* `ClosedImagesLeave`: an image of a closed descriptor always has the
  `stopMirror` that drops it in front of it. It rests on line 61, which emits
  whatever `haveMirror` says, because the watchdog may have cleared the flag.
* `NoImageOfOldSession`: a descriptor number used again never meets the image
  cached under its earlier use.
* `NoContentClears`: once a `NO_CONTENT` is handled, the last event queued is a
  `stopMirror`, and an empty queue means a cleared view.
* `StartedWhileMirroring`: receiver and view agree once the queue is empty,
  although the watchdog's stop overtakes queued starts.
* `StopAfterSilence`: the watchdog stops only after a full period in which
  `update()` was not entered, a session that follows a silent one included.

Mirror, liveness: `SilenceClears` (a peer that dies without a word),
`NoContentReaches`, `FrameReaches`.

Bridge: `ShownOrPending` (wherever a binding differs from its member a signal
is on its way, whichever app is loaded in the middle of a handler),
`ModeFollowsApp`, `DirectionsAgree`, `CoverOfSong`; liveness `PageReaches`,
`SubscribesAll`. `ImplementsNotified` is the refinement of `NotifiedProperties`: it
fails as soon as a member is written without a signal, a binding shows a value
the member no longer holds when it looks, or an app comes up with old values.

The mirror's promise: `ImplementsSession` is the refinement, as a property of the run;
that nothing in the view was built before the session it was last told of, which
is what makes a reused descriptor safe, is `NothingOlder` of the abstract
specification and follows from it (theorem `NoOldPicture`).

Settings:

* `Faithful`: a regular file is read to its end and accepted, and every member
  has the value of its last entry, whatever blanks, comments and repetitions
  stand between. This is where a `readNext()` too many or too few would show.
* `PrefixIsRead`: a file that breaks off is read up to that place.
* `UnknownRefused`: an unknown entry makes `Parse()` return false. It is not
  obvious: line 62 returns the result of the last section only. The reader is
  left on the unknown tag, so `parseSetting()` meets it next and refuses.
* `ClusterTakesFile`: mileage, top speeds, temperature cycle and speed list come from
  the file where they are in range and are the built-in ones where not, and a refused
  file leaves no trace. The run has names for a top speed and the list; for the
  other members it is the theorem `TakesFile` that says so.
* `KeepsReading`: parsing ends or reads on; no loop stays at one token.

Events: `HeardOf` (while a listener is subscribed and no call of `subscribe()` or
`unsubscribe()` is under way, the proxy has the handler), `ReachesAll`, `RemovedIsSilent`. `ImplementsPromise`
is the refinement of `ListenerSet`: nobody is added, lost or brought back by the
merging of the sets, and the order and the single turn are kept, whatever the
callbacks of the notification themselves subscribe and remove.

Look and sizes: `OneLook`, `WearsClusterTheme`, `OneScale`, `DpFresh`; their
`TypeOK` includes that every call owed is to a part that is there, the loops
holding plain pointers. `TemperatureSteps` and `TemperatureSweeps`: the
temperature moves by one degree, within its bounds, and reaches both for ever.

**The findings.** `MusicProgress.qml:46` says of the value it is given that
`0 <= value <= 1`. `MusicStore.qml:48` gives it `position / duration`, two
members set by two broadcasts. When a shorter song follows a longer one,
`setDuration()` has run and `position` is the old song's: the bar is given more
than 1 until the next progress event. `bridge_progress` shows it.

`settings.xml:4` says of `playCustomAni` that 1 plays the custom animation and 0
does not. `ClusterData::start()` starts the animation's timers without asking, and
nothing reads `ParseXmlFile::playCustomAni()`. `settings_animation` shows it.

### Behaviours worth knowing that are no violation of a stated rule

* Line 104 writes `haveMirror = false` after the stop. A `HAS_CONTENT` handled
  between the watchdog's test and that write is overwritten, and its session
  runs without a watchdog. `SilenceClears` therefore starts from a GUI thread
  in its event loop with `haveMirror` set.
* After the watchdog stopped the mirror, pictures that resume without a new
  `HAS_CONTENT` are shown with `haveMirror` false: no `startMirror`, and no
  watchdog when they stop again.
* The image cached under a descriptor is made from the `Surface` as it is when
  `sync()` runs. A message in between puts another buffer's image, or none,
  under that key until the session ends; not beyond, by `NoImageOfOldSession`.
* The video surface keeps its copy of the last frame after `onMirrorStop()`;
  nothing calls `m_surface->stop()` then. `setVideoSurface(nullptr)` is
  dereferenced at line 27.
* Two songs before QML reads the URL of the first (`+0`, `+1`, `+0`) leave the
  first cover on display, and two songs in a row without artwork may leave an
  empty one, because a load in between got the null picture and the URL does
  not change again. `CoverOfSong` excludes both through `overrun`: it is about the
  songs that QML keeps up with, and catches neither of the two.
* `Event.hpp:63` warns that `unsubscribe()` called inside a callback "will deadlock".
  The code's does not: it takes `subscriptionMutex_` alone, which `notifyListeners()`
  has released before it calls anyone, and enters the listener among the pending
  removals. The model makes such calls, and every property holds with them. What
  `removeSignalMemberHandler()` waits for is in a binary library, and may still be
  what the warning is about. `ClusterData` never unsubscribes.
* A distance of 2^31 m or more is shown as a negative number of metres, and a
  duration of that size is negative too.

* A truncated settings file is accepted: `hasError()` is asked only when there was
  no root element. A section tag inside a section is accepted: the outer function
  fails on it, `parseSetting()` meets the tag as a section of its own and forgets
  the failure. `UnknownRefused` is therefore about entries. A file whose root has
  no section at all is refused.
* A tag that follows `</string-array>` without a blank is lost: there are two
  `readNext()` behind it. `Faithful` asks for the blank.
* `temperatureNumber` is parsed and not used; the temperature starts at 30.
  `indicatorList_` is filled and read by nobody.
* A missing key `Theme` in `style.conf` leaves the default theme uninitialised.
  A default theme without a group of its own is entered empty by `dataFromTheme()`
  and counts: such a file supports two themes with the colours of one.
* A listener removed by `notifySpecificError()` leaves the proxy's handler in
  place: `HeardOf` is one implication and not an equivalence.
* The decision that a listener is the first or last is made under the mutex and
  acted on after it. With two callers at once (two threads, or a callback while the
  application calls) the handler may go while a listener is there; `ClusterData`
  subscribes from one thread and from no callback.

### Bounds, and why they are enough

* `Fds`: two descriptors, interchangeable (symmetry in the safety run only).
  Reuse of a number needs one; a mismatch of key and image needs two; no
  property relates three.
* `MaxMsgs` = 5 messages in the safety run: a session (`HAS_CONTENT`, picture),
  its end, and the beginning of the next; 3 in the liveness run, enough for a
  session that falls silent or ends. The queue is bounded through it.
* `MaxEvents` = 3 broadcasts (2 in the liveness run): a song, a shorter one and
  one without artwork in any order, or instructions on both sides of 1000 m and
  the end of guidance, with page turns among them. Media and directions are
  separate runs because they share no member but the page. The liveness run, with
  the refinement, has songs, progress and pages; instructions are the same setters
  with other names.
* `mirror_refines` has 4 messages: a session, its end, and a picture of the next.
* `Names` = a member with a range check (`maxCarSpeed`), a string (`carSpeed`) and a
  name no table knows (`speedLimit`); two texts, 250 and 0, one in the range and one
  out of it. A third known name multiplies the states by what each member may hold
  and adds no path. The length of the document is not bounded: the parser's states
  repeat.
* `IntLimit` = 2000, with one song and one instruction that wrap (3900 and 3000), in
  place of 2^31, which TLC's own integers do not reach. `MCTenths` rounds ties down.
* Style has two colours besides the invalid one: two themes may share one or not.
* Two notifiers, because only one holds the mutex and one waits; three
  subscriptions, one in each of the map and the two pending sets.
* Four parts: a root, a chain of three or two branches, and a part that joins.
  Two scales tell old from new.
* The theorems below have none of these bounds.

### Fairness

* Mirror: weak fairness of `Update`, of the library's export, of `Deliver`, of
  `StopSlot` (a slot that has begun goes on) and of `Watchdog`: a thread, an event loop and a periodic timer go on running.
  Strong fairness of `dirty /\ Render`: `frameReady` makes the `VideoOutput`
  ask for a frame and the render loop serves the request although the timer
  may take the GUI thread in between. Reading a message is not fair: the peer
  may stay silent for ever. `TimerDue` needs an empty queue; the peer's
  messages are finitely many in an instance, so it comes.
* Bridge: weak fairness of the poll and subscriptions, of a running handler and
  of the GUI thread. The service, its broadcasts and the user are free.
* Settings: weak fairness of the start-up, one thread's program.
* Look: weak fairness of the calls owed, which are synchronous, and strong
  fairness of `TemperatureValueUpdate`: the timer is periodic, and the event
  loop comes back between two changes of the scene, which are free.
* `event` and `sizes` check safety only.

Deadlock checking is on in every run. In the mirror and the bridge the
watchdog's timer and the user's click are always possible; the parser's `Stop`
stutters when it is done, a refused subscription may always be reported, and
the scene may always change. A state without successor would be a mistake.

## 4. Theorems

Proved by TLAPS for every value of the constants, from the assumptions in
`SdCast` (`NoFd` is no descriptor, the bound a number) and `ClusterBridge` (songs
and instructions are typed records, distances unsigned numbers of an `int`'s width;
`IntLimit` is at least 1000; `Tenths` is as exact as a `float`; the null picture is
neither a decoded one nor the default).

| Theorem | Property | Argument |
|---|---|---|
| `TypeCorrect` (mirror) | `TypeOK` | one step per action |
| `FramesWrap` | `FramesWrapBuffers` | `Stages`: which map holds what at each stage of the stop |
| `ClosedImages` | `ClosedImagesLeave` | part of `CacheInv` |
| `OldSessions` | `NoImageOfOldSession` | part of `CacheInv` |
| `WatchdogWaits` | `StopAfterSilence` | invariant `haveTimeout => ~heard` |
| `NoContent` | `NoContentClears` | `NoContentInv` |
| `Started` | `StartedWhileMirroring` | `StartedInv` |
| `TypeCorrect` (bridge) | `TypeOK` | `TypeInv` |
| `KeepsNotified` | `ImplementsNotified` | every step, with `TypeInv` and `QueuedBound` |
| `NothingStale` | `ShownOrPending` | `Fresh` of the abstract specification, through `KeepsNotified`'s steps |
| `ModeAgrees` | `ModeFollowsApp` | `ModeInv` |
| `Directions` | `DirectionsAgree` | `DirectionsInv` |
| `Distances` | `DistanceFits` (not a run's) | `DirectionsAgree` and `LabelFits`, what the label makes of a distance |
| `Cover` | `CoverOfSong` | `CoverInv` and `UrlInv`, with `NothingStale` |
| `Refines` | `ImplementsSession` | initial states and every step, with `CacheInv` |
| `NoOldPicture` | `Session!NothingOlder` (not a run's) | inductive in the abstract specification, through `Refines` |
| `SilenceCounts` | `NearsStop` (not a run's) | `ProgressInv`; the core of `SilenceClears` |
| `NoContentCounts` | `NearsClear` (not a run's) | `ProgressInv`; the core of `NoContentReaches` |
| `TypeCorrect` (settings) | `TypeOK` | one step per loop |
| `ReadsFaithfully`, `ReadsPrefix`, `RefusesUnknown` | `Faithful`, `PrefixIsRead`, `UnknownRefused` | one invariant that aligns parser and document |
| `NoLoopStays` | `ReadsOrNears` (not a run's) | a count of at most 6; the core of `KeepsReading` |
| `TakesFile` | `ClusterTakesFile` | the parser's invariant, carried through `Load` |
| `TypeCorrect`, `AlwaysHeardOf`, `AlwaysReachesAll`, `AlwaysSilent` (events) | `TypeOK`, `HeardOf`, `ReachesAll`, `RemovedIsSilent` | who holds the mutex, and which set each key is in |
| `KeepsPromise` | `ImplementsPromise` | every step, with `EventInv` |
| `MapAlwaysStands` | `MapStands` (not a run's) | `EventInv`: who holds the mutex |
| `LookTypeCorrect`, `AlwaysOneLook`, `AlwaysClusterTheme`, `AlwaysSteps` | `TypeOK`, `OneLook`, `WearsClusterTheme`, `TemperatureSteps` | `LookInv` |
| `SizesTypeCorrect`, `AlwaysOneScale`, `AlwaysDpFresh` | `TypeOK`, `OneScale`, `DpFresh` | `SizesInv` |
| `SweepCounts` | `Counted`, `SweepsOn` (not a run's) | `Swing`; the core of `TemperatureSweeps` |
| `AlwaysWindowOfOneScale`, `AlwaysWindowOfOneLook` | of those names (not a run's) | neighbours agree, and `Forest` |

* `Stages`: while `onMirrorStop()` runs, what a frame still held points to is in the map
  or in the iterator's copy, and the copy of the frames is left before that of the
  buffers. Otherwise both maps hold the same.
* `CacheInv` conjoins `ClosedImagesLeave` and `NoImageOfOldSession` with two facts: the command in
  the `Surface` is the one the receiver's step belongs to (`CommandMatches`), and
  no queued event is from a later epoch than now. `NoImageOfOldSession` is not
  inductive alone: it needs `ClosedImagesLeave` when a descriptor is posted.
* `NoContentInv` adds that line 58 has cleared `haveMirror` before the last
  `stopMirror` is posted. Until then the property says nothing; afterwards only
  `HAS_CONTENT` can set the flag and every later event is in front of the stop.
* `StartedInv` says where the start is when the view has not had it: of the
  starts and stops queued the youngest is a start, or none is queued and the
  view has started (`Told`). The watchdog breaks this between its direct stop
  and `haveMirror = false`, where the GUI thread delivers nothing: the
  invariant leaves that step out (`gpc = "clear"`).
* `WatchdogWaits` needs only that whoever sets `haveTimeout` has just forgotten
  what was heard, and that `update()` clears it before anything else.
* `TypeInv` types the pending assignments as a sequence and adds that a page is
  in the member before anyone asks for it: `mockPage` starts as the empty
  string, which is no app.
* `ModeInv` adds what holds between the two reads of `onMockPageChanged`: the
  mode follows the page, or the page was turned since and that is announced.
* `DirectionsInv` says of each of the six members that it already has the value
  of the last instruction, or that the handler is still to give it, and that it
  is to be given no other. `CoverInv` says that a handler which replaces the
  picture still has the URL to set, and that a URL QML has read comes with its
  picture unless that is about to be loaded. It needs `UrlInv`: the URL that
  `setAlbumArt()` will use next for a decoded picture is neither in the member
  nor about to be. Together with `NothingStale` an
  idle system shows what they speak of.

* The refinement needs that a frame event delivered is never older than what the
  view was told of and that the images held are no older than the event: both
  follow from `CacheInv`'s order of the queue. `Build` is the delicate step: a
  picture is built in the epoch of the moment, which is not before `told`.
* `KeepsNotified` needs, beside the types, that a signal is only queued for what is
  bound (`QueuedBound`): `EmitChanged` asks, and no binding is ever undone. The
  delicate step is the emission: the assignment leaves `todo` and, unless nothing
  is bound, its signal is posted in the same step, so the property stays due.
  `Fresh` (what is on the screen is right or due) is then proved from the abstract
  steps, and `NothingStale` no longer looks at the code's actions.
* `KeepsPromise` maps four variables to three sets and a mutex. That the merge under
  the mutex changes nothing in `Listening` needs `EventInv`: pending additions are
  not in the map and pending removals are. That `Step` visits the least listener
  due is the iterator; that `End` finds nobody due is its end. Additions and
  removals while the map is walked go to the pending sets, so they change
  `Listening` and not whom the iterator has ahead.
* `SilenceCounts` and `NoContentCounts` are what the liveness properties need
  besides fairness. While nothing is heard, the steps of the GUI thread left to the
  watchdog's stop are a natural number: four for each event queued, which may be a
  stop of four stages, and seven more with `haveTimeout` set or eleven without, since one turn of the timer arms and the next
  stops. No step raises it, each of the GUI thread's lowers it, and the receiver's
  only end the silence. After a `NO_CONTENT` the count is to the event loop with an
  empty queue, where `NoContentClears` says that the view is clear; the timer
  cannot fire in between because it waits for an empty queue. `ProgressInv` adds to
  `NoContentInv` that between the direct stop and line 104 the view stays clear.
* `NoLoopStays` is the same for the parser: a step reads a token, or lowers the looks
  (at most two) that it takes before one of the six loops reads or returns. Behind
  the document's end the steps to the return are counted, at most six.
* `SweepCounts`: the turns left to each bound are a function of temperature and
  direction, because a bound is only ever stood on with the turn still to be made
  (`Swing`), so four turns lead from one to the other.
* `Distances` says what `Directions` means to a driver: below 1000 m the number is
  exact, from there on it is in kilometres, within 50 m up to 2^24 m and within 250 m
  as far as an `int` reaches, and from `IntLimit` on it is a negative number of metres.
* `Forest`, a part of `LookInv` and `SizesInv`, is what makes the recursion of `setTheme` and `setScale` come back and
  reach everything. It is stated without induction or chains: every set of parts
  has one whose parent is outside of it. `Under` quantifies over the sets closed
  downwards, so "neighbours agree" gives "all below the root agree" by choosing the
  set of the parts that agree (`Downwards`), and a part's uppermost ancestor is the
  member `Forest` gives of the set of those above it (`HasTop`).
* The parser's invariant says where in the document each loop may be. While the
  document is regular, the loop it is in and the number of reads it still owes
  determine what surrounds the next token, and members and meaning agree but for
  the entry being read. After an unknown entry the reader stands still on it.
* `LookInv` and `SizesInv` have one idea, `Lag`: a part that differs from the one
  above is owed a call. A setter that returns early when the value is the same
  would break it, were the children of such a part not in step already. `Look`
  needs `Wave` besides: theme and colour go down in two waves, and the colour of
  a theme must not be overtaken by the part that moved.
* Beside `PartsAssumption`, `ScalesAssumption`, `TextsAssumption`, `UnsetAssumption`,
  `NotifiersAssumption` and `MaxSubscriptionsAssumption` (the markers are no
  members, 0 is a text, 1 a scale) nothing is assumed.

Left to TLC: `SilenceClears`, `NoContentReaches`, `FrameReaches`, `PageReaches`,
`SubscribesAll`, `KeepsReading` and `TemperatureSweeps`. They depend on fairness and
`ENABLED`, out of the provers' reach, and the last step from a count that falls to
"eventually" is an induction over numbers, which the provers cannot instantiate. Of
the first two, of `KeepsReading` and of `TemperatureSweeps` the counts are proved, as
said above. The two
findings are violations, shown by their runs.

## 5. Not modelled

* Gauges and dials, telltales, blinker, labels: states, transitions and
  animations declared to Qt Quick. How they interrupt each other is the
  toolkit's and not in this repository; `rtlMode`, which the panel has a handler
  for, never changes.
* `speedUpdate()`, `rotationUpdate()`, `epowerUpdate()`: each walks a list that
  nothing else touches. `stop()`, `navigationUpdate()` and `mockIndexUpdate()` are
  never called.
* The progress bar: `NeptuneProgressBar` is registered and no QML file uses it.
* CommonAPI, FDBus and the generated proxies, but for the listeners of an event:
  the headers of a binary library and its serialisers, three quarters of the
  lines in `src/`. They are the environment of `ClusterBridge`.
* libSdCast beyond its callback, EGL, Qt's scene graph: external.
* The tree of `Style` and `Sizes` while a change goes down it: a part that adopts
  those below it, moves or goes between two of the calls. Births between the calls
  are in the model; the rest happens at rest only.
* `SDApplication` and `main` beyond the order they start things in;
  `onDumpFps()` logs and `onBufferDisplayed()` is empty. Layout, opacity animations,
  colours, fonts and logging are left out throughout.
* Two calls of `subscribe()` or `unsubscribe()` at once on one event, and torn reads of `QString` and `QImage`:
  see the hazards in `PROJECT.json`.
