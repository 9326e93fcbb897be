---------------------------- MODULE ClusterBridge ----------------------------
(***************************************************************************)
(* The infotainment side of ClusterData.  startInfoIPC() polls for the     *)
(* service on a thread of its own and then subscribes to the broadcasts;   *)
(* their handlers run on the IPC library's thread.  A handler is a list of *)
(* property setters, and a setter writes a member and then emits its       *)
(* NOTIFY signal: "todo" is what the running handler still has to set, and *)
(* the GUI thread may run between any two of those steps.                  *)
(*                                                                         *)
(* A signal emitted on this thread reaches QML as an event posted to the   *)
(* GUI thread (posted), and only if something in QML is bound to it; the   *)
(* event carries no value, QML reads the member when it is delivered.      *)
(***************************************************************************)
EXTENDS Integers, Sequences

CONSTANTS
  Songs,       \* songs the infotainment system may play
  Tbts,        \* turn-by-turn instructions it may send
  Progresses,  \* progress values, in 1/10000 of the song
  Names,       \* titles, artists and road names
  NoName,      \* the empty string
  Arts,        \* pictures that can be decoded
  NoArt,       \* album art that cannot: a null QImage
  DefaultArt,  \* assets/default_cover_art.png
  MaxEvents,   \* BOUND: broadcasts received in a behaviour
  IntLimit,    \* an int holds -IntLimit .. IntLimit - 1: 2^31
  Tenths(_)    \* of a distance in metres, the tenths of a kilometre that
               \* arg(metres / 1000.0f, 0, 'f', 1) writes

ASSUME IntLimitAssumption == IntLimit \in Nat /\ IntLimit >= 1000

\* Metres are whole, so that up to 2^24 of them the float is good enough for the
\* nearest tenth, and only the direction of a tie is its own (1050 gives 1.0);
\* beyond that it loses up to 64 m on the way in and 125 m in the division.
Error(metres) == IF metres < 16777216 THEN 50 ELSE 250
ASSUME TenthsAssumption ==
  \A metres \in 1000..IntLimit - 1 :
    /\ Tenths(metres) \in Nat
    /\ 100 * Tenths(metres) - metres \in -Error(metres)..Error(metres)
ASSUME SongAssumption ==
  Songs \subseteq [title : Names, artist : Names, duration : Nat, art : Arts \cup {NoArt}]
ASSUME TbtAssumption ==
  Tbts \subseteq [icon : Nat, distance : 0..2 * IntLimit - 1, currentRoad : Names, nextRoad : Names]
ASSUME ProgressAssumption == Progresses \subseteq Nat
ASSUME ArtAssumption == NoArt \notin Arts \cup {DefaultArt}
ASSUME MaxEventsAssumption == MaxEvents \in Nat

VARIABLES
  available,     \* the service is on the bus
  subscribed,    \* how many of the broadcasts are subscribed to, in order
  received,      \* broadcasts received so far, for the bound
  val,           \* the members behind the Q_PROPERTYs
  image,         \* m_ImageProvider.mAlbumArtImage
  flag,          \* the static flag of setAlbumArt()
  mockCurrIndex,
  todo,          \* assignments left of the running handler
  written,       \* the first of them is written, its signal not yet emitted
  posted,        \* NOTIFY signals posted to the GUI thread
  lastTbt        \* history: the last instruction received

ipcVars == <<available, subscribed, received, val, image, flag, mockCurrIndex,
             todo, written, lastTbt>>

MusicProps == {"title", "artist", "duration", "position", "albumArt"}
MapProps == {"nextTurnDistance", "nextTurnDistanceMeasuredIn", "naviActive",
             "naviIcon", "nextRoad", "currentRoad"}
DisplayProps == MusicProps \cup MapProps

Broadcasts == <<"playStatus", "currentProgress", "songDetail", "tbtInfo", "controlPage">>

mockIndexList == <<"vehicle", "music", "map">>
NoIcon == -1  \* m_naviIcon is the empty string
NoTbt == [icon |-> 0, distance |-> -1, currentRoad |-> NoName, nextRoad |-> NoName]

BridgeInit ==
  /\ available = FALSE
  /\ subscribed = 0
  /\ received = 0
  /\ val = [title |-> NoName, artist |-> NoName, duration |-> 0, position |-> 0,
            albumArt |-> "", nextTurnDistance |-> 100, nextTurnDistanceMeasuredIn |-> "km",
            naviActive |-> FALSE, naviIcon |-> NoIcon, nextRoad |-> NoName,
            currentRoad |-> NoName, mockPage |-> ""]
  /\ image = NoArt
  /\ flag = FALSE
  /\ mockCurrIndex = 0
  /\ todo = <<>>
  /\ written = FALSE
  /\ posted = <<>>
  /\ lastTbt = NoTbt

------------------------ (* startInfoIPC()'s thread *) ----------------------

\* The service appears on the bus, or leaves it.
ServiceComesOrGoes ==
  /\ available' = ~available
  /\ UNCHANGED <<subscribed, received, val, image, flag, mockCurrIndex, todo, written,
                 posted, lastTbt>>

\* Mutant: the last broadcast is forgotten.
SubscribeButLast ==
  /\ subscribed = 0 => available
  /\ subscribed < Len(Broadcasts) - 1
  /\ subscribed' = subscribed + 1
  /\ UNCHANGED <<available, received, val, image, flag, mockCurrIndex, todo, written,
                 posted, lastTbt>>

\* The poll ends when it finds the service; what follows does not look again.
Subscribe ==
  /\ subscribed = 0 => available
  /\ subscribed < Len(Broadcasts)
  /\ subscribed' = subscribed + 1
  /\ UNCHANGED <<available, received, val, image, flag, mockCurrIndex, todo, written,
                 posted, lastTbt>>

------------------- (* the handlers, on the library's thread *) -------------

Set(prop, value) == [prop |-> prop, value |-> value]

Receive(broadcast) ==
  /\ todo = <<>>
  /\ \E i \in 1..subscribed : Broadcasts[i] = broadcast
  /\ available
  /\ received < MaxEvents
  /\ received' = received + 1
  /\ UNCHANGED <<available, subscribed, val, image, written, posted>>

\* The handler only logs.
OnPlayStatus ==
  /\ Receive("playStatus")
  /\ UNCHANGED <<flag, mockCurrIndex, todo, lastTbt>>

Ints == -IntLimit..IntLimit - 1

\* Mutant: the number is kept as it came.
AsUnsigned(x) == x

\* A 32-bit number in an int.
AsInt(x) == IF x < IntLimit THEN x ELSE x - 2 * IntLimit

\* A product beyond the range of int is converted to any int.
Positions(value) ==
  LET product == value * val.duration
      exact == IF product >= 0 THEN product \div 10000 ELSE -((-product) \div 10000)
  IN  IF exact \in Ints THEN {exact} ELSE Ints

OnProgress(value) ==
  /\ Receive("currentProgress")
  /\ \E position \in Positions(value) : todo' = <<Set("position", position)>>
  /\ UNCHANGED <<flag, mockCurrIndex, lastTbt>>

\* setAlbumArt(): the picture is replaced before its URL is.  The URL alternates
\* so that QML sees it change from one song to the next.
SetAlbumArt(art) ==
  IF art = NoArt
    THEN <<Set("image", art), Set("image", DefaultArt), Set("albumArt", "default")>>
    ELSE <<Set("image", art), Set("albumArt", IF flag THEN "+0" ELSE "+1")>>

\* Mutant: the URL does not alternate.
ToggleNothing(art) == UNCHANGED flag

ToggleFlag(art) == flag' = IF art = NoArt THEN flag ELSE ~flag

\* Of the 64 bits of the duration the int keeps the lower 32.
Duration(song) == AsInt(song.duration % (2 * IntLimit))

OnSong(song) ==
  /\ Receive("songDetail")
  /\ todo' = <<Set("title", song.title), Set("artist", song.artist),
                Set("duration", Duration(song))>> \o SetAlbumArt(song.art)
  /\ ToggleFlag(song.art)
  /\ UNCHANGED <<mockCurrIndex, lastTbt>>

\* Distances are kept in tenths of the number displayed: below 1000 m the metres
\* themselves, from there on kilometres with one decimal.  A distance too great for
\* an int is a negative number of metres.
DistanceLabel(distance) ==
  LET currentPos == AsInt(distance) IN
  IF currentPos < 1000
    THEN [number |-> 10 * currentPos, unit |-> "m"]
    ELSE [number |-> Tenths(currentPos), unit |-> "km"]

\* Mutant: the unit is only set when it is "km".
OnTbtKeepsMetres(tbt) ==
  LET label == DistanceLabel(tbt.distance) IN
  /\ Receive("tbtInfo")
  /\ todo' = <<Set("nextTurnDistance", label.number)>>
               \o (IF label.unit = "km" THEN <<Set("nextTurnDistanceMeasuredIn", "km")>> ELSE <<>>)
               \o <<Set("naviActive", tbt.icon # 0), Set("naviIcon", tbt.icon),
                    Set("nextRoad", tbt.nextRoad), Set("currentRoad", tbt.currentRoad)>>
  /\ lastTbt' = tbt
  /\ UNCHANGED <<flag, mockCurrIndex>>

OnTbt(tbt) ==
  LET label == DistanceLabel(tbt.distance) IN
  /\ Receive("tbtInfo")
  /\ todo' = <<Set("nextTurnDistance", label.number),
                Set("nextTurnDistanceMeasuredIn", label.unit),
                Set("naviActive", tbt.icon # 0), Set("naviIcon", tbt.icon),
                Set("nextRoad", tbt.nextRoad), Set("currentRoad", tbt.currentRoad)>>
  /\ lastTbt' = tbt
  /\ UNCHANGED <<flag, mockCurrIndex>>

SetMockPage(index) ==
  LET page == mockIndexList[index + 1] IN
  IF page = val.mockPage THEN <<>> ELSE <<Set("mockPage", page)>>

NextIndex == (mockCurrIndex + 1) % Len(mockIndexList)
PreviousIndex == IF mockCurrIndex = 0 THEN Len(mockIndexList) - 1 ELSE mockCurrIndex - 1

OnControlPage ==
  /\ Receive("controlPage")
  /\ mockCurrIndex' \in {NextIndex, PreviousIndex}
  /\ todo' = SetMockPage(mockCurrIndex')
  /\ UNCHANGED <<flag, lastTbt>>

OnBroadcast ==
  \/ OnPlayStatus
  \/ \E value \in Progresses : OnProgress(value)
  \/ \E song \in Songs : OnSong(song)
  \/ \E tbt \in Tbts : OnTbt(tbt)
  \/ OnControlPage

-------------------------- (* the property setters *) -----------------------

Assignment == Head(todo)

\* The picture has no signal of its own.
WriteImage ==
  /\ todo # <<>>
  /\ Assignment.prop = "image"
  /\ image' = Assignment.value
  /\ todo' = Tail(todo)
  /\ UNCHANGED <<available, subscribed, received, val, flag, mockCurrIndex, written,
                 posted, lastTbt>>

\* Mutant: a setter without its signal.
WriteSilently ==
  /\ todo # <<>> /\ ~written
  /\ Assignment.prop # "image"
  /\ val' = [val EXCEPT ![Assignment.prop] = Assignment.value]
  /\ todo' = Tail(todo)
  /\ UNCHANGED <<available, subscribed, received, image, flag, mockCurrIndex, written,
                 posted, lastTbt>>

WriteMember ==
  /\ todo # <<>> /\ ~written
  /\ Assignment.prop # "image"
  /\ val' = [val EXCEPT ![Assignment.prop] = Assignment.value]
  /\ written' = TRUE
  /\ UNCHANGED <<available, subscribed, received, image, flag, mockCurrIndex, todo,
                 posted, lastTbt>>

\* "bound" are the properties QML is bound to.
EmitChanged(bound) ==
  /\ written
  /\ posted' = IF Assignment.prop \in bound THEN Append(posted, Assignment.prop) ELSE posted
  /\ todo' = Tail(todo)
  /\ written' = FALSE
  /\ UNCHANGED <<available, subscribed, received, val, image, flag, mockCurrIndex, lastTbt>>
==============================================================================
