------------------------ MODULE BridgePipeline_proofs ------------------------
(***************************************************************************)
(* Proofs about BridgePipeline, for any songs and instructions and any     *)
(* number of broadcasts.                                                   *)
(***************************************************************************)
EXTENDS BridgePipeline, SequenceTheorems, TLAPS

AllProps == Props \cup {"image"}

\* What a handler may assign: to mockPage, a page of mockIndexList.
AssignedTo(prop) == IF prop = "mockPage" THEN Apps ELSE ValueOf(prop)
Assignments == UNION {{Set(prop, value) : value \in AssignedTo(prop)} : prop \in AllProps}

\* The type invariant made inductive: the pending assignments are typed as a
\* sequence, and a page is in the member before anybody asks for it.
TypeInv ==
  /\ TypeOK
  /\ DOMAIN val = Props /\ val = [prop \in DOMAIN val |-> val[prop]]
  /\ DOMAIN shown = DisplayProps /\ shown = [prop \in DOMAIN shown |-> shown[prop]]
  /\ todo \in Seq(Assignments)
  /\ posted \in Seq(Props)
  /\ written => todo # <<>> /\ Assignment.prop # "image"
  /\ Pending("mockPage") \/ gui = "runApp" => val.mockPage \in Apps

LEMMA SetTyped == \A prop \in AllProps : \A value \in AssignedTo(prop) : Set(prop, value) \in Assignments
  BY DEF Assignments

LEMMA AssignmentTyped ==
  ASSUME NEW a \in Assignments
  PROVE  a.prop \in AllProps /\ a.value \in AssignedTo(a.prop) /\ a.value \in ValueOf(a.prop)
<1>1. PICK prop \in AllProps : \E value \in AssignedTo(prop) : a = Set(prop, value)
  BY DEF Assignments
<1>2. PICK value \in AssignedTo(prop) : a = Set(prop, value)
  BY <1>1
<1>3. a.prop = prop /\ a.value = value
  BY <1>2 DEF Set
<1>4. AssignedTo(prop) \subseteq ValueOf(prop)
  BY DEF AssignedTo, ValueOf
<1> QED
  BY <1>1, <1>2, <1>3, <1>4

LEMMA PropNames ==
  /\ AllProps = {"title", "artist", "duration", "position", "albumArt", "nextTurnDistance",
                 "nextTurnDistanceMeasuredIn", "naviActive", "naviIcon", "nextRoad",
                 "currentRoad", "mockPage", "image"}
  /\ Props = AllProps \ {"image"}
  /\ DisplayProps = Props \ {"mockPage"}
  BY DEF AllProps, Props, DisplayProps, MusicProps, MapProps

--------------------------------------------------------------------------------
\* What each handler leaves to be assigned is well typed.

LEMMA ProgressTodo ==
  ASSUME NEW value \in Progresses, NEW position \in Positions(value)
  PROVE  <<Set("position", position)>> \in Seq(Assignments)
<1>1. position \in Ints
  BY DEF Positions
<1>2. Set("position", position) \in Assignments
  BY <1>1, SetTyped, PropNames DEF AssignedTo, ValueOf
<1> QED BY <1>2

\* A number of 32 bits fits into an int.
LEMMA AsIntTyped == ASSUME NEW x \in 0..2 * IntLimit - 1 PROVE AsInt(x) \in Ints
  BY IntLimitAssumption DEF AsInt, Ints

LEMMA DurationTyped == ASSUME NEW song \in Songs PROVE Duration(song) \in Ints
<1>1. song.duration \in Nat /\ 2 * IntLimit \in Nat /\ 2 * IntLimit > 0
  BY SongAssumption, IntLimitAssumption
<1>2. song.duration % (2 * IntLimit) \in 0..2 * IntLimit - 1
  BY <1>1
<1> QED BY <1>2, AsIntTyped DEF Duration

LEMMA SongParts ==
  ASSUME NEW song \in Songs
  PROVE  /\ <<Set("title", song.title), Set("artist", song.artist),
              Set("duration", Duration(song))>> \in Seq(Assignments)
         /\ SetAlbumArt(song.art) \in Seq(Assignments)
<1>1. song \in [title : Names, artist : Names, duration : Nat, art : Arts \cup {NoArt}]
  BY SongAssumption
<1>2. /\ Set("title", song.title) \in Assignments
      /\ Set("artist", song.artist) \in Assignments
      /\ Set("duration", Duration(song)) \in Assignments
      /\ Set("image", song.art) \in Assignments
  BY <1>1, DurationTyped, SetTyped, PropNames DEF AssignedTo, ValueOf
<1>3. /\ Set("image", DefaultArt) \in Assignments
      /\ Set("albumArt", "default") \in Assignments
      /\ Set("albumArt", IF flag THEN "+0" ELSE "+1") \in Assignments
  BY SetTyped, PropNames DEF AssignedTo, ValueOf, Urls
<1>4. SetAlbumArt(song.art) \in Seq(Assignments)
  BY <1>2, <1>3 DEF SetAlbumArt
<1> QED BY <1>2, <1>4

LEMMA SongTodo ==
  ASSUME NEW song \in Songs
  PROVE  <<Set("title", song.title), Set("artist", song.artist),
           Set("duration", Duration(song))>> \o SetAlbumArt(song.art) \in Seq(Assignments)
  BY SongParts, ConcatProperties

\* What the map is to read for a distance.
Reads(distance, number, unit) ==
  /\ distance < 1000 => unit = "m" /\ number = 10 * distance
  /\ distance \in 1000..IntLimit - 1 =>
       unit = "km" /\ 100 * number - distance \in -Error(distance)..Error(distance)
  /\ distance >= IntLimit => unit = "m" /\ number < 0

LEMMA LabelFits ==
  ASSUME NEW d \in 0..2 * IntLimit - 1
  PROVE  /\ DistanceLabel(d).number \in Int /\ DistanceLabel(d).unit \in {"m", "km"}
         /\ Reads(d, DistanceLabel(d).number, DistanceLabel(d).unit)
<1>1. CASE d < 1000
  BY <1>1, IntLimitAssumption DEF DistanceLabel, AsInt, Reads
<1>2. CASE d \in 1000..IntLimit - 1
  <2>1. AsInt(d) = d /\ ~(d < 1000)
    BY <1>2, IntLimitAssumption DEF AsInt
  <2>2. DistanceLabel(d) = [number |-> Tenths(d), unit |-> "km"]
    BY <2>1 DEF DistanceLabel
  <2> QED BY <1>2, <2>1, <2>2, TenthsAssumption, IntLimitAssumption DEF Reads
<1>3. CASE d >= IntLimit
  BY <1>3, IntLimitAssumption DEF DistanceLabel, AsInt, Reads
<1> QED BY <1>1, <1>2, <1>3, IntLimitAssumption

LEMMA TbtTodo ==
  ASSUME NEW tbt \in Tbts
  PROVE  <<Set("nextTurnDistance", DistanceLabel(tbt.distance).number),
           Set("nextTurnDistanceMeasuredIn", DistanceLabel(tbt.distance).unit),
           Set("naviActive", tbt.icon # 0), Set("naviIcon", tbt.icon),
           Set("nextRoad", tbt.nextRoad), Set("currentRoad", tbt.currentRoad)>>
           \in Seq(Assignments)
<1>1. tbt \in [icon : Nat, distance : 0..2 * IntLimit - 1, currentRoad : Names, nextRoad : Names]
  BY TbtAssumption
<1>2. /\ DistanceLabel(tbt.distance).number \in Int
      /\ DistanceLabel(tbt.distance).unit \in {"m", "km"}
  <2>1. tbt.distance \in 0..2 * IntLimit - 1
    BY <1>1
  <2> QED BY <2>1, LabelFits, IntLimitAssumption
<1>3. /\ Set("nextTurnDistance", DistanceLabel(tbt.distance).number) \in Assignments
      /\ Set("nextTurnDistanceMeasuredIn", DistanceLabel(tbt.distance).unit) \in Assignments
  BY <1>2, SetTyped, PropNames DEF AssignedTo, ValueOf
<1>4. /\ Set("naviActive", tbt.icon # 0) \in Assignments
      /\ Set("naviIcon", tbt.icon) \in Assignments
      /\ Set("nextRoad", tbt.nextRoad) \in Assignments
      /\ Set("currentRoad", tbt.currentRoad) \in Assignments
  BY <1>1, SetTyped, PropNames DEF AssignedTo, ValueOf
<1> QED BY <1>3, <1>4

LEMMA PageTodo ==
  ASSUME NEW index \in {0, 1, 2}
  PROVE  SetMockPage(index) \in Seq(Assignments)
<1>1. mockIndexList[index + 1] \in Apps
  BY DEF mockIndexList, Apps
<1>2. Set("mockPage", mockIndexList[index + 1]) \in Assignments
  BY <1>1, SetTyped, PropNames DEF AssignedTo
<1> QED BY <1>2 DEF SetMockPage

LEMMA ValuesTyped ==
  ASSUME TypeInv
  PROVE  /\ \A prop \in Props : val[prop] \in ValueOf(prop)
         /\ \A i \in 1..Len(todo) : todo[i] \in Assignments
         /\ todo # <<>> => Assignment \in Assignments /\ Tail(todo) \in Seq(Assignments)
         /\ posted # <<>> => Head(posted) \in Props /\ Tail(posted) \in Seq(Props)
  BY DEF TypeInv, TypeOK, Assignment

LEMMA TodoTyped ==
  ASSUME todo \in Seq(Assignments)
  PROVE  \A i \in 1..Len(todo) : todo[i].prop \in Props \cup {"image"}
                                  /\ todo[i].value \in ValueOf(todo[i].prop)
<1>1. \A i \in 1..Len(todo) : todo[i] \in Assignments
  OBVIOUS
<1> QED BY <1>1, AssignmentTyped DEF AllProps

LEMMA PostedTyped ==
  ASSUME posted \in Seq(Props)
  PROVE  \A i \in 1..Len(posted) : posted[i] \in Props
  OBVIOUS

LEMMA ValueSets ==
  /\ ValueOf("title") = Names \cup {NoName} /\ ValueOf("artist") = Names \cup {NoName}
  /\ ValueOf("nextRoad") = Names \cup {NoName} /\ ValueOf("currentRoad") = Names \cup {NoName}
  /\ ValueOf("duration") = Ints /\ ValueOf("position") = Ints /\ ValueOf("nextTurnDistance") = Int
  /\ ValueOf("albumArt") = Urls /\ ValueOf("mockPage") = Apps \cup {""}
  /\ ValueOf("nextTurnDistanceMeasuredIn") = {"m", "km"}
  /\ ValueOf("naviActive") = BOOLEAN /\ ValueOf("naviIcon") = Nat \cup {NoIcon}
  /\ ValueOf("image") = Arts \cup {NoArt, DefaultArt}
  BY DEF ValueOf

LEMMA TypeInit == Init => TypeInv
<1> SUFFICES ASSUME Init PROVE TypeInv
  OBVIOUS
<1> USE DEF Init, BridgeInit, ScreenInit
<1>1. todo = <<>> /\ posted = <<>> /\ written \in BOOLEAN /\ ~written /\ gui = "loop"
  OBVIOUS
<1>2. DOMAIN val = Props /\ val = [prop \in DOMAIN val |-> val[prop]]
  BY PropNames
<1>3. DOMAIN shown = DisplayProps /\ shown = [prop \in DOMAIN shown |-> shown[prop]]
  OBVIOUS
<1>4. \A prop \in Props : val[prop] \in ValueOf(prop)
  <2>1. /\ val["title"] = NoName /\ val["artist"] = NoName
        /\ val["nextRoad"] = NoName /\ val["currentRoad"] = NoName
        /\ val["albumArt"] = "" /\ val["mockPage"] = ""
        /\ val["nextTurnDistanceMeasuredIn"] = "km" /\ val["naviIcon"] = NoIcon
    OBVIOUS
  <2>7. val["naviActive"] \in BOOLEAN
    OBVIOUS
  <2>6. val["duration"] = 0 /\ val["position"] = 0 /\ val["nextTurnDistance"] = 100
    OBVIOUS
  <2> HIDE DEF Init, BridgeInit, ScreenInit
  <2>8. 0 \in Ints /\ 100 \in Int
    BY IntLimitAssumption DEF Ints
  <2>2. \A prop \in {"title", "artist", "nextRoad", "currentRoad"} : val[prop] \in ValueOf(prop)
    <3>1. \A prop \in {"title", "artist", "nextRoad", "currentRoad"} : val[prop] \in Names \cup {NoName}
      BY <2>1
    <3> QED BY <3>1, ValueSets
  <2>3. \A prop \in {"duration", "position", "nextTurnDistance"} : val[prop] \in ValueOf(prop)
    BY <2>6, <2>8, ValueSets
  <2>4. \A prop \in {"albumArt", "mockPage", "nextTurnDistanceMeasuredIn"} :
          val[prop] \in ValueOf(prop)
    BY <2>1, ValueSets DEF Urls
  <2>5. \A prop \in {"naviActive", "naviIcon"} : val[prop] \in ValueOf(prop)
    BY <2>1, <2>7, ValueSets
  <2> QED BY <2>2, <2>3, <2>4, <2>5, PropNames
<1>5. \A prop \in DisplayProps : shown[prop] \in ValueOf(prop)
  BY <1>4, PropNames
<1>6. image = NoArt /\ cover = NoArt /\ flag \in BOOLEAN /\ available \in BOOLEAN
      /\ subscribed = 0 /\ received = 0 /\ mockCurrIndex = 0 /\ currentApp = "map"
      /\ runningApps = {"map"} /\ navigationMode \in BOOLEAN /\ overrun \in BOOLEAN
  OBVIOUS
<1> HIDE DEF Init, BridgeInit, ScreenInit
<1>7. TypeOK
  <2>1. Len(Broadcasts) = 5 /\ Len(mockIndexList) = 3 /\ Len(todo) = 0 /\ Len(posted) = 0
    BY <1>1 DEF Broadcasts, mockIndexList
  <2>2. image \in ValueOf("image") /\ cover \in ValueOf("image")
    BY <1>6, ValueSets
  <2>3. subscribed \in 0..Len(Broadcasts) /\ mockCurrIndex \in 0..(Len(mockIndexList) - 1)
    BY <1>6, <2>1
  <2>4. currentApp \in Apps /\ runningApps \subseteq Apps
    BY <1>6 DEF Apps
  <2> QED BY <1>1, <1>4, <1>5, <1>6, <2>1, <2>2, <2>3, <2>4 DEF TypeOK
<1> QED BY <1>1, <1>2, <1>3, <1>7 DEF TypeInv, Pending, Queued, Emitting

--------------------------------------------------------------------------------
\* The type invariant, step by step.

TypeRest ==
  /\ available \in BOOLEAN /\ flag \in BOOLEAN
  /\ subscribed \in 0..Len(Broadcasts)
  /\ received \in Nat
  /\ image \in ValueOf("image")
  /\ mockCurrIndex \in 0..(Len(mockIndexList) - 1)

\* What every handler begins with and leaves alone.
LEMMA BroadcastFrame ==
  ASSUME Broadcast
  PROVE  /\ todo = <<>> /\ received' = received + 1
         /\ UNCHANGED <<available, subscribed, val, image, written, posted>>
         /\ UNCHANGED screenVars
<1>1. PICK broadcast \in {"playStatus", "currentProgress", "songDetail", "tbtInfo", "controlPage"} :
        Receive(broadcast)
  <2>1. OnPlayStatus => Receive("playStatus")
    BY DEF OnPlayStatus
  <2>2. \A value \in Progresses : OnProgress(value) => Receive("currentProgress")
    BY DEF OnProgress
  <2>3. \A song \in Songs : OnSong(song) => Receive("songDetail")
    BY DEF OnSong
  <2>4. \A tbt \in Tbts : OnTbt(tbt) => Receive("tbtInfo")
    BY DEF OnTbt
  <2>5. OnControlPage => Receive("controlPage")
    BY DEF OnControlPage
  <2> QED BY <2>1, <2>2, <2>3, <2>4, <2>5 DEF Broadcast, OnBroadcast
<1> QED BY <1>1 DEF Receive, Broadcast

LEMMA TypeBroadcast == ASSUME TypeInv, Broadcast PROVE TypeInv'
<1>1. todo = <<>> /\ ~written /\ received' \in Nat
  BY BroadcastFrame DEF TypeInv, TypeOK
<1>2. /\ UNCHANGED <<available, subscribed, val, image, written, posted>>
      /\ UNCHANGED <<shown, cover, currentApp, runningApps, navigationMode, gui, overrun>>
  BY BroadcastFrame DEF screenVars
<1>3. /\ todo' \in Seq(Assignments)
      /\ flag' \in BOOLEAN
      /\ mockCurrIndex' \in 0..(Len(mockIndexList) - 1)
  <2>0. flag \in BOOLEAN /\ mockCurrIndex \in 0..(Len(mockIndexList) - 1) /\ todo \in Seq(Assignments)
    BY DEF TypeInv, TypeOK
  <2>1. CASE OnPlayStatus
    BY <2>0, <2>1 DEF OnPlayStatus
  <2>2. CASE \E value \in Progresses : OnProgress(value)
    BY <2>0, <2>2, ProgressTodo DEF OnProgress
  <2>3. CASE \E song \in Songs : OnSong(song)
    BY <2>0, <2>3, SongTodo DEF OnSong, ToggleFlag
  <2>4. CASE \E tbt \in Tbts : OnTbt(tbt)
    BY <2>0, <2>4, TbtTodo DEF OnTbt
  <2>5. CASE OnControlPage
    <3>1. Len(mockIndexList) = 3
      BY DEF mockIndexList
    <3>2. NextIndex \in {0, 1, 2} /\ PreviousIndex \in {0, 1, 2}
      BY <2>0, <3>1 DEF NextIndex, PreviousIndex
    <3> QED BY <2>0, <2>5, <3>1, <3>2, PageTodo DEF OnControlPage
  <2> QED BY <2>1, <2>2, <2>3, <2>4, <2>5 DEF Broadcast, OnBroadcast
<1>4. \A i \in 1..Len(todo') : todo'[i].prop \in Props \cup {"image"}
                               /\ todo'[i].value \in ValueOf(todo'[i].prop)
  <2>1. \A i \in 1..Len(todo') : todo'[i] \in Assignments
    BY <1>3
  <2> QED BY <2>1, AssignmentTyped DEF AllProps
<1>5. TypeOK'
  BY <1>1, <1>2, <1>3, <1>4 DEF TypeInv, TypeOK
<1>6. Pending("mockPage")' => Pending("mockPage")
  BY <1>1, <1>2 DEF Pending, Queued, Emitting
<1> QED BY <1>1, <1>2, <1>3, <1>5, <1>6 DEF TypeInv

--------------------------------------------------------------------------------
\* What is queued after a signal is posted, or taken.

LEMMA QueuedAppend ==
  ASSUME posted \in Seq(Props), NEW q \in Props, posted' = Append(posted, q), NEW p \in Props
  PROVE  Queued(p)' <=> Queued(p) \/ p = q
<1>1. /\ Len(posted') = Len(posted) + 1
      /\ posted'[Len(posted) + 1] = q
      /\ \A i \in 1..Len(posted) : posted'[i] = posted[i]
  BY AppendProperties
<1>2. Len(posted) \in Nat
  OBVIOUS
<1> QED BY <1>1, <1>2 DEF Queued

LEMMA QueuedTail ==
  ASSUME posted \in Seq(Props), posted # <<>>, posted' = Tail(posted), NEW p \in Props
  PROVE  /\ Queued(p)' => Queued(p)
         /\ Queued(p) => Queued(p)' \/ p = Head(posted)
<1>1. /\ Len(posted') = Len(posted) - 1
      /\ \A i \in 1..Len(posted') : posted'[i] = posted[i + 1]
      /\ Head(posted) = posted[1]
  BY HeadTailProperties
<1>2. Len(posted) \in Nat
  OBVIOUS
<1>3. ASSUME Queued(p)' PROVE Queued(p)
  BY <1>1, <1>2, <1>3 DEF Queued
<1>4. ASSUME Queued(p), p # Head(posted) PROVE Queued(p)'
  <2>1. PICK i \in 1..Len(posted) : posted[i] = p
    BY <1>4 DEF Queued
  <2>2. i - 1 \in 1..Len(posted') /\ posted'[i - 1] = p
    BY <2>1, <1>1, <1>2, <1>4
  <2> QED BY <2>2 DEF Queued
<1> QED BY <1>3, <1>4

LEMMA TypeHandler == ASSUME TypeInv, Handler PROVE TypeInv'
<1>0. /\ todo \in Seq(Assignments) /\ posted \in Seq(Props)
      /\ written => todo # <<>> /\ Assignment.prop # "image"
  BY DEF TypeInv
<1>1. CASE WriteProperty
  <2>1. /\ todo # <<>> /\ ~written /\ Assignment.prop # "image" /\ written' = TRUE
        /\ val' = [val EXCEPT ![Assignment.prop] = Assignment.value]
        /\ UNCHANGED <<available, subscribed, received, image, flag, mockCurrIndex, todo,
                       posted, shown, cover, currentApp, runningApps, navigationMode, gui>>
    BY <1>1 DEF WriteProperty, WriteMember
  <2>2. /\ Assignment.prop \in Props /\ Assignment.value \in ValueOf(Assignment.prop)
        /\ Assignment.prop = "mockPage" => Assignment.value \in Apps
    BY <2>1, ValuesTyped, AssignmentTyped DEF AllProps, AssignedTo
  <2>3. /\ DOMAIN val' = Props /\ val' = [prop \in DOMAIN val' |-> val'[prop]]
        /\ val'[Assignment.prop] = Assignment.value
        /\ \A prop \in Props : prop # Assignment.prop => val'[prop] = val[prop]
    BY <2>1, <2>2 DEF TypeInv
  <2>4. \A prop \in Props : val'[prop] \in ValueOf(prop)
    BY <2>2, <2>3, ValuesTyped
  <2>5. overrun' \in BOOLEAN
    BY <1>1 DEF WriteProperty, TypeInv, TypeOK
  <2>6. TypeOK'
    BY <2>1, <2>4, <2>5 DEF TypeInv, TypeOK
  <2>7. Assignment' = Assignment
    BY <2>1 DEF Assignment
  <2>8. ASSUME Pending("mockPage")' \/ gui' = "runApp" PROVE val'.mockPage \in Apps
    <3>1. CASE Assignment.prop = "mockPage"
      BY <3>1, <2>2, <2>3
    <3>2. CASE Assignment.prop # "mockPage"
      <4>1. Pending("mockPage") \/ gui = "runApp"
        BY <3>2, <2>1, <2>7, <2>8 DEF Pending, Queued, Emitting
      <4>2. val["mockPage"] \in Apps
        BY <4>1 DEF TypeInv
      <4> QED BY <4>2, <3>2, <2>3, PropNames
    <3> QED BY <3>1, <3>2
  <2> QED BY <1>0, <2>1, <2>3, <2>6, <2>7, <2>8 DEF TypeInv
<1>2. CASE SetImage
  <2>1. /\ todo # <<>> /\ Assignment.prop = "image"
        /\ image' = Assignment.value /\ todo' = Tail(todo)
        /\ UNCHANGED <<available, subscribed, received, val, flag, mockCurrIndex, written, posted>>
        /\ UNCHANGED <<shown, cover, currentApp, runningApps, navigationMode, gui, overrun>>
    BY <1>2 DEF SetImage, WriteImage, screenVars
  <2>2. ~written
    BY <1>0, <2>1
  <2>3. todo' \in Seq(Assignments) /\ image' \in ValueOf("image")
    BY <2>1, ValuesTyped, AssignmentTyped
  <2>4. \A i \in 1..Len(todo') : todo'[i].prop \in Props \cup {"image"}
                                 /\ todo'[i].value \in ValueOf(todo'[i].prop)
    <3>1. \A i \in 1..Len(todo') : todo'[i] \in Assignments
      BY <2>3
    <3> QED BY <3>1, AssignmentTyped DEF AllProps
  <2>5. TypeOK'
    BY <2>1, <2>3, <2>4 DEF TypeInv, TypeOK
  <2>6. Pending("mockPage")' => Pending("mockPage")
    BY <2>1, <2>2 DEF Pending, Queued, Emitting
  <2> QED BY <2>1, <2>2, <2>3, <2>5, <2>6 DEF TypeInv
<1>3. CASE Notify
  <2>1. /\ written /\ todo' = Tail(todo) /\ written' = FALSE
        /\ posted' = IF Assignment.prop \in Bound THEN Append(posted, Assignment.prop) ELSE posted
        /\ UNCHANGED <<available, subscribed, received, val, image, flag, mockCurrIndex>>
        /\ UNCHANGED <<shown, cover, currentApp, runningApps, navigationMode, gui, overrun>>
    BY <1>3 DEF Notify, EmitChanged, screenVars
  <2>2. Assignment.prop \in Props
    BY <1>0, <2>1, ValuesTyped, AssignmentTyped DEF AllProps
  <2>3. todo' \in Seq(Assignments)
    BY <1>0, <2>1, ValuesTyped
  <2>4. \A i \in 1..Len(todo') : todo'[i].prop \in Props \cup {"image"}
                                 /\ todo'[i].value \in ValueOf(todo'[i].prop)
    <3>1. \A i \in 1..Len(todo') : todo'[i] \in Assignments
      BY <2>3
    <3> QED BY <3>1, AssignmentTyped DEF AllProps
  <2>5. posted' \in Seq(Props)
    BY <1>0, <2>1, <2>2
  <2>6. \A i \in 1..Len(posted') : posted'[i] \in Props
    BY <2>5
  <2>7. TypeOK'
    BY <2>1, <2>4, <2>6 DEF TypeInv, TypeOK
  <2>8. Pending("mockPage")' => Pending("mockPage")
    BY <1>0, <2>1, <2>2, QueuedAppend, PropNames DEF Pending, Queued, Emitting
  <2> QED BY <2>1, <2>3, <2>5, <2>7, <2>8 DEF TypeInv
<1> QED BY <1>1, <1>2, <1>3 DEF Handler

\* Loading an app keeps the bindings typed.
LEMMA RunAppTyped ==
  ASSUME TypeInv, NEW app \in Apps, RunApp(app)
  PROVE  /\ currentApp' \in Apps /\ runningApps' \subseteq Apps
         /\ gui' \in {"loop", "loadCover"}
         /\ DOMAIN shown' = DisplayProps /\ shown' = [prop \in DOMAIN shown' |-> shown'[prop]]
         /\ \A prop \in DisplayProps : shown'[prop] \in ValueOf(prop)
<1>1. /\ runningApps \subseteq Apps
      /\ DOMAIN shown = DisplayProps /\ shown = [prop \in DOMAIN shown |-> shown[prop]]
      /\ \A prop \in DisplayProps : shown[prop] \in ValueOf(prop)
      /\ \A prop \in DisplayProps : val[prop] \in ValueOf(prop)
  BY PropNames DEF TypeInv, TypeOK
<1>2. /\ currentApp' = app /\ runningApps' = runningApps \cup {app}
      /\ gui' \in {"loop", "loadCover"}
      /\ \/ shown' = shown
         \/ shown' = [prop \in DisplayProps |->
                        IF prop \in PropsOf(app) THEN val[prop] ELSE shown[prop]]
  BY DEF RunApp
<1> QED BY <1>1, <1>2

LEMMA TypeGui == ASSUME TypeInv, Gui PROVE TypeInv'
<1>0. /\ todo \in Seq(Assignments) /\ posted \in Seq(Props)
      /\ DOMAIN shown = DisplayProps /\ shown = [prop \in DOMAIN shown |-> shown[prop]]
      /\ \A prop \in DisplayProps : shown[prop] \in ValueOf(prop)
      /\ \A prop \in DisplayProps : val[prop] \in ValueOf(prop)
  BY PropNames DEF TypeInv, TypeOK
<1>1. CASE DeliverChange
  <2>1. PICK prop \in DisplayProps : TakeSignal(prop) /\ Reevaluate(prop)
    BY <1>1 DEF DeliverChange
  <2>2. /\ posted # <<>> /\ posted' = Tail(posted) /\ gui = "loop"
        /\ shown' = [shown EXCEPT ![prop] = val[prop]]
        /\ gui' \in {"loop", "loadCover"}
        /\ UNCHANGED <<available, subscribed, received, val, image, flag, mockCurrIndex,
                       todo, written, lastTbt>>
        /\ UNCHANGED <<cover, currentApp, runningApps, navigationMode, overrun>>
    BY <2>1 DEF TakeSignal, Reevaluate, ipcVars
  <2>3. posted' \in Seq(Props) /\ \A i \in 1..Len(posted') : posted'[i] \in Props
    <3>1. posted' \in Seq(Props)
      BY <1>0, <2>2
    <3> QED BY <3>1
  <2>4. /\ DOMAIN shown' = DisplayProps /\ shown' = [q \in DOMAIN shown' |-> shown'[q]]
        /\ \A q \in DisplayProps : shown'[q] \in ValueOf(q)
    BY <1>0, <2>2
  <2>5. TypeOK'
    BY <2>2, <2>3, <2>4 DEF TypeInv, TypeOK
  <2>6. Pending("mockPage")' => Pending("mockPage")
    BY <1>0, <2>2, QueuedTail, PropNames DEF Pending, Queued, Emitting, Assignment
  <2> QED BY <2>2, <2>3, <2>4, <2>5, <2>6 DEF TypeInv, Assignment
<1>2. CASE DeliverPage
  <2>1. /\ posted # <<>> /\ Head(posted) = "mockPage" /\ posted' = Tail(posted)
        /\ navigationMode' = (val.mockPage = "map") /\ gui' = "runApp"
        /\ UNCHANGED <<available, subscribed, received, val, image, flag, mockCurrIndex,
                       todo, written, lastTbt>>
        /\ UNCHANGED <<shown, cover, currentApp, runningApps, overrun>>
    BY <1>2 DEF DeliverPage, TakeSignal, SetNavigationMode, ipcVars
  <2>2. posted' \in Seq(Props) /\ \A i \in 1..Len(posted') : posted'[i] \in Props
    <3>1. posted' \in Seq(Props)
      BY <1>0, <2>1
    <3> QED BY <3>1
  <2>3. TypeOK'
    BY <2>1, <2>2 DEF TypeInv, TypeOK
  <2>4. Pending("mockPage")
    <3>1. posted[1] = "mockPage" /\ 1 \in 1..Len(posted)
      BY <1>0, <2>1
    <3> QED BY <3>1 DEF Pending, Queued
  <2> QED BY <2>1, <2>2, <2>3, <2>4 DEF TypeInv, Assignment
<1>3. CASE LoadCover /\ UNCHANGED <<ipcVars, posted>>
  <2>1. /\ cover' = image /\ gui' = "loop" /\ overrun' = FALSE
        /\ UNCHANGED <<available, subscribed, received, val, image, flag, mockCurrIndex,
                       todo, written, lastTbt, posted>>
        /\ UNCHANGED <<shown, currentApp, runningApps, navigationMode>>
    BY <1>3 DEF LoadCover, ipcVars
  <2>2. TypeOK'
    BY <2>1 DEF TypeInv, TypeOK
  <2>3. Pending("mockPage")' => Pending("mockPage")
    BY <2>1 DEF Pending, Queued, Emitting, Assignment
  <2> QED BY <2>1, <2>2, <2>3 DEF TypeInv, Assignment
<1>4. CASE RunMockPage /\ UNCHANGED <<ipcVars, posted>>
  <2>1. /\ gui = "runApp" /\ RunApp(val.mockPage)
        /\ UNCHANGED <<available, subscribed, received, val, image, flag, mockCurrIndex,
                       todo, written, lastTbt, posted>>
        /\ UNCHANGED <<cover, navigationMode, overrun>>
    BY <1>4 DEF RunMockPage, ipcVars
  <2>2. val.mockPage \in Apps
    BY <2>1 DEF TypeInv
  <2>3. TypeOK'
    BY <2>1, <2>2, RunAppTyped DEF TypeInv, TypeOK
  <2> QED BY <2>1, <2>2, <2>3, RunAppTyped DEF TypeInv, Assignment
<1> QED BY <1>1, <1>2, <1>3, <1>4 DEF Gui, FinishHandler

LEMMA TypeClick == ASSUME TypeInv, Click PROVE TypeInv'
<1>1. PICK app \in Apps : AppClicked(app) /\ UNCHANGED <<ipcVars, posted>>
  BY DEF Click
<1>2. /\ gui = "loop" /\ RunApp(app) /\ navigationMode' = (app = "map")
      /\ UNCHANGED <<available, subscribed, received, val, image, flag, mockCurrIndex,
                     todo, written, lastTbt, posted>>
      /\ UNCHANGED <<cover, overrun>>
  BY <1>1 DEF AppClicked, ipcVars
<1>3. TypeOK'
  BY <1>2, RunAppTyped DEF TypeInv, TypeOK
<1>4. Pending("mockPage")' => Pending("mockPage")
  BY <1>2 DEF Pending, Queued, Emitting, Assignment
<1> QED BY <1>2, <1>3, <1>4, RunAppTyped DEF TypeInv, Assignment

LEMMA TypeStep == TypeInv /\ [Next]_vars => TypeInv'
<1> SUFFICES ASSUME TypeInv, [Next]_vars PROVE TypeInv'
  OBVIOUS
<1>1. CASE Service \/ Connect \/ UNCHANGED vars
  <2>1. /\ available' \in BOOLEAN /\ subscribed' \in 0..Len(Broadcasts)
        /\ UNCHANGED <<received, val, image, flag, mockCurrIndex, todo, written, posted>>
        /\ UNCHANGED <<shown, cover, currentApp, runningApps, navigationMode, gui, overrun>>
    <3>1. Len(Broadcasts) = 5
      BY DEF Broadcasts
    <3>2. CASE Service
      BY <3>2 DEF Service, ServiceComesOrGoes, screenVars, TypeInv, TypeOK
    <3>3. CASE Connect
      BY <3>1, <3>3 DEF Connect, Subscribe, screenVars, TypeInv, TypeOK
    <3>4. CASE UNCHANGED vars
      BY <3>4 DEF vars, ipcVars, screenVars, TypeInv, TypeOK
    <3> QED BY <1>1, <3>2, <3>3, <3>4
  <2>2. TypeOK'
    BY <2>1 DEF TypeInv, TypeOK
  <2> QED BY <2>1, <2>2 DEF TypeInv, Pending, Queued, Emitting, Assignment
<1> QED BY <1>1, TypeBroadcast, TypeHandler, TypeGui, TypeClick DEF Next

\* The type invariant, for any set of songs and instructions.
THEOREM TypeCorrect == Spec => []TypeOK
<1>1. TypeInv => TypeOK
  BY DEF TypeInv
<1> QED BY <1>1, TypeInit, TypeStep, PTL DEF Spec

--------------------------------------------------------------------------------
(***************************************************************************)
(* The bridge and the screen implement NotifiedProperties.  All that is    *)
(* needed beyond the types is that signals of what nothing is bound to are *)
(* not queued: EmitChanged asks, and no binding is ever undone.            *)
(***************************************************************************)

Member == [prop \in DisplayProps |-> val[prop]]
LiveProps == DisplayProps \cap Bound
DueProps == {prop \in DisplayProps : Pending(prop)}

QueuedBound == \A prop \in DisplayProps : Queued(prop) => prop \in Bound

\* The step is one of the abstract specification, or none.
NotifiedStep == Notified!Next \/ UNCHANGED <<Member, shown, LiveProps, DueProps>>

\* A step that changes neither members nor bindings, takes no signal and drops
\* no setter.
LEMMA Unmoved ==
  ASSUME QueuedBound,
         UNCHANGED <<val, shown, runningApps, posted, written>>,
         written => UNCHANGED todo
  PROVE  QueuedBound' /\ NotifiedStep
<1>1. Bound' = Bound /\ \A prop \in DisplayProps : Pending(prop)' <=> Pending(prop)
  BY DEF Bound, Pending, Queued, Emitting, Assignment
<1>2. QueuedBound'
  BY <1>1 DEF QueuedBound, Queued
<1>3. UNCHANGED <<Member, shown, LiveProps, DueProps>>
  BY <1>1 DEF Member, LiveProps, DueProps
<1> QED BY <1>2, <1>3 DEF NotifiedStep

\* A setter writes: its property is due, whatever was due before.
LEMMA WriteIsWrite ==
  ASSUME TypeInv, QueuedBound, WriteProperty PROVE QueuedBound' /\ NotifiedStep
<1>0. /\ todo \in Seq(Assignments) /\ DOMAIN val = Props /\ val = [prop \in DOMAIN val |-> val[prop]]
  BY DEF TypeInv
<1>1. /\ todo # <<>> /\ ~written /\ written' = TRUE /\ Assignment.prop # "image"
      /\ UNCHANGED <<todo, posted, shown, runningApps>>
      /\ val' = [val EXCEPT ![Assignment.prop] = Assignment.value]
  BY DEF WriteProperty, WriteMember
<1>2. Assignment.prop \in Props /\ Assignment' = Assignment
  BY <1>0, <1>1, ValuesTyped, AssignmentTyped DEF AllProps, Assignment
<1>3. Bound' = Bound /\ QueuedBound' /\ LiveProps' = LiveProps
  BY <1>1 DEF Bound, QueuedBound, Queued, LiveProps
<1>4. \A prop \in DisplayProps : Pending(prop)' <=> Pending(prop) \/ prop = Assignment.prop
  BY <1>1, <1>2 DEF Pending, Queued, Emitting
<1>5. \A prop \in DisplayProps : prop # Assignment.prop => val'[prop] = val[prop]
  BY <1>0, <1>1, PropNames
<1>6. CASE Assignment.prop \in DisplayProps
  <2> DEFINE p == Assignment.prop
  <2>1. DueProps' = DueProps \union {p} /\ p \in DueProps'
    BY <1>4, <1>6 DEF DueProps
  <2>2. Member' = [Member EXCEPT ![p] = Member'[p]]
    BY <1>5, <1>6 DEF Member
  <2>3. Notified!Write
    BY <1>1, <1>3, <1>6, <2>1, <2>2 DEF Notified!Write, DueProps, Member, LiveProps
  <2> QED BY <1>3, <2>3 DEF NotifiedStep, Notified!Next
<1>7. CASE Assignment.prop \notin DisplayProps
  <2>1. Member' = Member /\ DueProps' = DueProps
    BY <1>4, <1>5, <1>7 DEF Member, DueProps
  <2> QED BY <1>1, <1>3, <2>1 DEF NotifiedStep
<1> QED BY <1>6, <1>7

\* A setter emits: the look stays due, or there is nothing that could look.
LEMMA EmitOrMiss ==
  ASSUME TypeInv, QueuedBound, Notify PROVE QueuedBound' /\ NotifiedStep
<1>0. todo \in Seq(Assignments) /\ posted \in Seq(Props)
  BY DEF TypeInv
<1>1. /\ written /\ ~written' /\ UNCHANGED <<val, shown, runningApps>>
      /\ posted' = IF Assignment.prop \in Bound THEN Append(posted, Assignment.prop) ELSE posted
  BY DEF Notify, EmitChanged, screenVars
<1>2. Assignment.prop \in Props
  BY <1>0, <1>1, ValuesTyped, AssignmentTyped DEF AllProps, TypeInv
<1>3. Bound' = Bound /\ Member' = Member /\ LiveProps' = LiveProps
  BY <1>1 DEF Bound, Member, LiveProps
<1>4. \A prop \in DisplayProps :
        /\ Pending(prop) <=> Queued(prop) \/ prop = Assignment.prop
        /\ Pending(prop)' <=> Queued(prop)'
  BY <1>1 DEF Pending, Emitting
<1>5. CASE Assignment.prop \in Bound
  <2>1. \A prop \in DisplayProps : Queued(prop)' <=> Queued(prop) \/ prop = Assignment.prop
    BY <1>0, <1>1, <1>2, <1>5, QueuedAppend, PropNames
  <2>2. QueuedBound' /\ DueProps' = DueProps
    BY <1>3, <1>4, <1>5, <2>1 DEF QueuedBound, DueProps
  <2> QED BY <1>1, <1>3, <2>2 DEF NotifiedStep
<1>6. CASE Assignment.prop \notin Bound
  <2>1. \A prop \in DisplayProps : Queued(prop)' <=> Queued(prop)
    BY <1>1, <1>6 DEF Queued
  <2>2. QueuedBound'
    BY <1>3, <2>1 DEF QueuedBound
  <2>3. CASE Assignment.prop \in DisplayProps
    <3>1. Assignment.prop \in DueProps \ LiveProps
      BY <1>4, <1>6, <2>3 DEF DueProps, LiveProps
    <3>2. DueProps' = DueProps \ {Assignment.prop}
      BY <1>4, <1>6, <2>1 DEF DueProps, QueuedBound
    <3>3. Notified!Miss
      BY <1>1, <1>3, <3>1, <3>2 DEF Notified!Miss, DueProps, Member, LiveProps
    <3> QED BY <2>2, <3>3 DEF NotifiedStep, Notified!Next
  <2>4. CASE Assignment.prop \notin DisplayProps
    <3>1. DueProps' = DueProps
      BY <1>4, <2>1, <2>4 DEF DueProps
    <3> QED BY <1>1, <1>3, <2>2, <3>1 DEF NotifiedStep
  <2> QED BY <2>3, <2>4
<1> QED BY <1>5, <1>6

\* Taking a signal leaves every other one.
LEMMA SignalTaken ==
  ASSUME TypeInv, QueuedBound, NEW prop \in Props, TakeSignal(prop), UNCHANGED runningApps
  PROVE  /\ QueuedBound'
         /\ prop \in DisplayProps => prop \in DueProps /\ prop \in LiveProps
         /\ DueProps' \in {DueProps, DueProps \ {prop}}
         /\ prop \notin DisplayProps => DueProps' = DueProps
         /\ Member' = Member /\ LiveProps' = LiveProps
<1>0. /\ posted \in Seq(Props) /\ posted # <<>> /\ Head(posted) = prop /\ posted' = Tail(posted)
      /\ UNCHANGED <<val, todo, written, runningApps>>
  BY DEF TypeInv, TakeSignal, ipcVars
<1>1. \A q \in DisplayProps : /\ Queued(q)' => Queued(q)
                              /\ Queued(q) => Queued(q)' \/ q = prop
                              /\ Emitting(q)' <=> Emitting(q)
  BY <1>0, QueuedTail, PropNames DEF Emitting, Assignment
<1>2. Bound' = Bound /\ Member' = Member /\ LiveProps' = LiveProps
  BY <1>0 DEF Bound, Member, LiveProps
<1>3. QueuedBound'
  BY <1>1, <1>2 DEF QueuedBound
<1>4. Queued(prop)
  <2>1. posted[1] = prop /\ 1 \in 1..Len(posted)
    BY <1>0
  <2> QED BY <2>1 DEF Queued
<1>5. prop \in DisplayProps => prop \in DueProps /\ prop \in LiveProps
  BY <1>4 DEF QueuedBound, DueProps, LiveProps, Pending
<1>6. DueProps' \in {DueProps, DueProps \ {prop}} /\ (prop \notin DisplayProps => DueProps' = DueProps)
  BY <1>1 DEF DueProps, Pending
<1> QED BY <1>2, <1>3, <1>5, <1>6

\* A delivered signal is a look.
LEMMA DeliveryIsRefresh ==
  ASSUME TypeInv, QueuedBound, DeliverChange PROVE QueuedBound' /\ NotifiedStep
<1>1. PICK prop \in DisplayProps : TakeSignal(prop) /\ Reevaluate(prop)
  BY DEF DeliverChange
<1>2. prop \in Props /\ UNCHANGED runningApps /\ shown' = [shown EXCEPT ![prop] = val[prop]]
  BY <1>1, PropNames DEF Reevaluate
<1>3. /\ QueuedBound' /\ prop \in DueProps /\ prop \in LiveProps
      /\ DueProps' \in {DueProps, DueProps \ {prop}}
      /\ Member' = Member /\ LiveProps' = LiveProps
  BY <1>1, <1>2, SignalTaken
<1>4. shown' = [shown EXCEPT ![prop] = Member[prop]]
  BY <1>2 DEF Member
<1>5. Notified!Refresh
  BY <1>3, <1>4 DEF Notified!Refresh, DueProps, Member, LiveProps
<1> QED BY <1>3, <1>5 DEF NotifiedStep, Notified!Next

\* An app that is loaded brings its properties, which nothing was bound to.
LEMMA RunAppIsLoad ==
  ASSUME TypeInv, QueuedBound, NEW app \in Apps, RunApp(app),
         UNCHANGED <<val, posted, written, todo>>
  PROVE  QueuedBound' /\ NotifiedStep
<1>1. runningApps' = runningApps \cup {app} /\ \A q \in DisplayProps : Pending(q)' <=> Pending(q)
  BY DEF RunApp, Pending, Queued, Emitting, Assignment
<1>2. Bound \subseteq Bound'
  BY <1>1 DEF Bound
<1>3. QueuedBound' /\ Member' = Member /\ DueProps' = DueProps
  BY <1>1, <1>2 DEF QueuedBound, Queued, Member, DueProps
<1>4. CASE app \in runningApps
  <2>1. shown' = shown /\ runningApps' = runningApps
    BY <1>4 DEF RunApp
  <2> QED BY <1>3, <2>1 DEF NotifiedStep, LiveProps, Bound
<1>5. CASE app \notin runningApps
  <2>1. shown' = [q \in DisplayProps |-> IF q \in PropsOf(app) THEN val[q] ELSE shown[q]]
    BY <1>5 DEF RunApp
  <2>2. LiveProps' \ LiveProps = PropsOf(app)
    <3>1. \A other \in runningApps : PropsOf(other) \intersect PropsOf(app) = {}
      BY <1>5 DEF PropsOf, MusicProps, MapProps, TypeInv, TypeOK, Apps
    <3>2. PropsOf(app) \subseteq DisplayProps
      BY DEF PropsOf, DisplayProps
    <3>3. Bound' = Bound \cup PropsOf(app) /\ Bound \intersect PropsOf(app) = {}
      <4>1. "mockPage" \notin DisplayProps
        BY PropNames
      <4> QED BY <1>1, <3>1, <3>2, <4>1 DEF Bound
    <3> QED BY <3>2, <3>3 DEF LiveProps
  <2>3. shown' = [q \in DisplayProps |-> IF q \in LiveProps' \ LiveProps THEN Member[q] ELSE shown[q]]
    BY <2>1, <2>2 DEF Member
  <2>4. LiveProps \subseteq LiveProps' /\ LiveProps' \subseteq DisplayProps
    BY <1>2 DEF LiveProps
  <2>5. Notified!Load
    BY <1>3, <2>3, <2>4 DEF Notified!Load, DueProps, Member, LiveProps
  <2> QED BY <1>3, <2>5 DEF NotifiedStep, Notified!Next
<1> QED BY <1>4, <1>5

LEMMA EveryStepNotified == ASSUME TypeInv, QueuedBound, [Next]_vars PROVE QueuedBound' /\ NotifiedStep
<1>0. written => todo # <<>> /\ Assignment.prop # "image"
  BY DEF TypeInv
<1>1. CASE Service \/ Connect \/ UNCHANGED vars
  BY <1>1, Unmoved DEF Service, ServiceComesOrGoes, Connect, Subscribe, vars, ipcVars, screenVars
<1>2. CASE Broadcast
  BY <1>0, <1>2, BroadcastFrame, Unmoved DEF screenVars
<1>3. CASE SetImage
  BY <1>0, <1>3, Unmoved DEF SetImage, WriteImage, screenVars
<1>4. CASE DeliverPage
  <2>1. TakeSignal("mockPage") /\ UNCHANGED <<shown, runningApps>>
    BY <1>4 DEF DeliverPage, SetNavigationMode
  <2>2. "mockPage" \in Props \ DisplayProps
    BY PropNames
  <2> QED BY <2>1, <2>2, SignalTaken DEF NotifiedStep
<1>5. CASE LoadCover /\ UNCHANGED <<ipcVars, posted>>
  BY <1>5, Unmoved DEF LoadCover, ipcVars
<1>6. CASE RunMockPage /\ UNCHANGED <<ipcVars, posted>>
  <2>1. val.mockPage \in Apps
    BY <1>6 DEF RunMockPage, TypeInv
  <2> QED BY <1>6, <2>1, RunAppIsLoad DEF RunMockPage, ipcVars
<1>7. CASE Click
  BY <1>7, RunAppIsLoad DEF Click, AppClicked, ipcVars
<1> QED BY <1>1, <1>2, <1>3, <1>4, <1>5, <1>6, <1>7, WriteIsWrite, EmitOrMiss, DeliveryIsRefresh
       DEF Next, Handler, Gui, FinishHandler

LEMMA NotifiedInit == Init => QueuedBound /\ Notified!Init
<1> SUFFICES ASSUME Init PROVE QueuedBound /\ Notified!Init
  OBVIOUS
<1>1. posted = <<>> /\ ~written /\ shown = [prop \in DisplayProps |-> val[prop]]
  BY DEF Init, BridgeInit, ScreenInit
<1>2. \A prop \in DisplayProps : ~Queued(prop) /\ ~Pending(prop)
  BY <1>1 DEF Pending, Queued, Emitting
<1> QED BY <1>1, <1>2 DEF QueuedBound, Notified!Init

LEMMA NotifiedInvariant == Spec => [](TypeInv /\ QueuedBound)
<1>1. TypeInv /\ QueuedBound /\ [Next]_vars => TypeInv' /\ QueuedBound'
  BY TypeStep, EveryStepNotified
<1> QED BY <1>1, TypeInit, NotifiedInit, PTL DEF Spec

\* Handlers, setters, posted signals and apps loaded in the middle are, to the
\* screen, properties that are written, due for a look and looked at.
THEOREM KeepsNotified == Spec => ImplementsNotified
<1>1. ASSUME TypeInv, QueuedBound, [Next]_vars PROVE [Notified!Next]_(Notified!propertyVars)
  <2>1. ASSUME UNCHANGED <<Member, shown, LiveProps, DueProps>>
        PROVE  UNCHANGED Notified!propertyVars
    BY <2>1 DEF Notified!propertyVars, Member, LiveProps, DueProps
  <2> QED BY <1>1, <2>1, EveryStepNotified DEF NotifiedStep
<1>2. TypeInv /\ QueuedBound /\ [Next]_vars => [Notified!Next]_(Notified!propertyVars)
  BY <1>1
<1> QED BY <1>2, NotifiedInit, NotifiedInvariant, PTL DEF Spec, ImplementsNotified, Notified!Spec

--------------------------------------------------------------------------------
(***************************************************************************)
(* ShownOrPending is the freshness of the abstract properties, and follows *)
(* from the abstract steps alone: none of the code's actions is looked at  *)
(* again.                                                                  *)
(***************************************************************************)

LEMMA FreshIsShown == Notified!Fresh <=> ShownOrPending
<1>1. \A prop \in DisplayProps : Member[prop] = val[prop] /\ (prop \in DueProps <=> Pending(prop))
  BY DEF Member, DueProps
<1> QED BY <1>1 DEF Notified!Fresh, ShownOrPending, Member, DueProps

\* A written property is due, a look brings the value of the moment, nobody
\* looks at what was missed, and an application is loaded fresh.
LEMMA FreshStays == ASSUME TypeInv, Notified!Fresh, NotifiedStep PROVE Notified!Fresh'
<1> USE DEF Notified!Fresh, Member, LiveProps, DueProps
<1>0. /\ DOMAIN shown = DisplayProps /\ shown = [prop \in DOMAIN shown |-> shown[prop]]
      /\ Member = [prop \in DisplayProps |-> Member[prop]]
      /\ LiveProps \subseteq DisplayProps
  BY DEF TypeInv
<1>1. CASE Notified!Write
  <2>1. PICK p \in DisplayProps :
          /\ DueProps' = DueProps \union {p}
          /\ Member' = [Member EXCEPT ![p] = Member'[p]]
          /\ UNCHANGED <<shown, LiveProps>>
    BY <1>1 DEF Notified!Write
  <2>2. \A q \in DisplayProps : q # p => Member'[q] = Member[q]
    BY <1>0, <2>1
  <2> QED BY <1>0, <2>1, <2>2
<1>2. CASE Notified!Refresh
  <2>1. PICK p \in DisplayProps :
          /\ shown' = [shown EXCEPT ![p] = Member[p]]
          /\ DueProps' \in {DueProps, DueProps \ {p}}
          /\ UNCHANGED <<Member, LiveProps>>
    BY <1>2 DEF Notified!Refresh
  <2>2. shown'[p] = Member[p] /\ \A q \in DisplayProps : q # p => shown'[q] = shown[q]
    BY <1>0, <2>1
  <2> QED BY <1>0, <2>1, <2>2
<1>3. CASE Notified!Miss
  <2>1. PICK p \in DueProps \ LiveProps :
          DueProps' = DueProps \ {p} /\ UNCHANGED <<Member, shown, LiveProps>>
    BY <1>3 DEF Notified!Miss
  <2> QED BY <2>1
<1>4. CASE Notified!Load
  <2>1. /\ LiveProps' \subseteq DisplayProps /\ UNCHANGED <<Member, DueProps>>
        /\ shown' = [q \in DisplayProps |-> IF q \in LiveProps' \ LiveProps THEN Member[q] ELSE shown[q]]
    BY <1>4 DEF Notified!Load
  <2> QED BY <2>1
<1>5. CASE UNCHANGED <<Member, shown, LiveProps, DueProps>>
  BY <1>5
<1> QED BY <1>1, <1>2, <1>3, <1>4, <1>5 DEF NotifiedStep, Notified!Next

\* No property stays stale on the screen, however the setters, the deliveries and
\* the loading of apps interleave.
THEOREM NothingStale == Spec => []ShownOrPending
<1>1. Init => Notified!Fresh
  BY NotifiedInit DEF Notified!Init, Notified!Fresh
<1>2. TypeInv /\ QueuedBound /\ Notified!Fresh /\ [Next]_vars => Notified!Fresh'
  BY EveryStepNotified, FreshStays
<1> QED BY <1>1, <1>2, NotifiedInvariant, FreshIsShown, PTL DEF Spec

--------------------------------------------------------------------------------
\* Between the two reads of onMockPageChanged the mode already follows the page,
\* or the page was turned since and that is announced.
ModeInv ==
  /\ ModeFollowsApp
  /\ gui = "runApp" => navigationMode = (val.mockPage = "map") \/ Pending("mockPage")

LEMMA ModeStep == ASSUME TypeInv, ModeInv, [Next]_vars PROVE ModeInv'
<1>0. /\ todo \in Seq(Assignments) /\ posted \in Seq(Props)
      /\ written => todo # <<>> /\ Assignment.prop # "image"
      /\ DOMAIN val = Props
      /\ "mockPage" \in Props /\ "mockPage" \in Bound
  BY PropNames DEF TypeInv, Bound
<1> DEFINE Kept == /\ UNCHANGED <<navigationMode, currentApp>>
                   /\ (gui = "runApp") = (gui' = "runApp")
                   /\ val'.mockPage = val.mockPage
                   /\ Pending("mockPage") => Pending("mockPage")'
<1>a. ASSUME Kept PROVE ModeInv'
  BY <1>a DEF ModeInv, ModeFollowsApp
<1>1. CASE Service \/ Connect \/ UNCHANGED vars
  <2>1. Kept
    BY <1>1 DEF Service, ServiceComesOrGoes, Connect, Subscribe, vars, ipcVars, screenVars,
       Pending, Queued, Emitting, Assignment
  <2> QED BY <1>a, <2>1
<1>2. CASE Broadcast
  <2>1. Kept
    BY <1>0, <1>2, BroadcastFrame DEF screenVars, Pending, Queued, Emitting
  <2> QED BY <1>a, <2>1
<1>3. CASE WriteProperty
  <2>1. /\ ~written /\ written' = TRUE /\ UNCHANGED <<todo, posted, navigationMode, currentApp, gui>>
        /\ val' = [val EXCEPT ![Assignment.prop] = Assignment.value]
    BY <1>3 DEF WriteProperty, WriteMember
  <2>2. CASE Assignment.prop = "mockPage"
    <3>1. Pending("mockPage")'
      BY <2>1, <2>2 DEF Pending, Emitting, Assignment
    <3> QED BY <3>1 DEF ModeInv, ModeFollowsApp
  <2>3. CASE Assignment.prop # "mockPage"
    <3>1. val'["mockPage"] = val["mockPage"]
      BY <1>0, <2>1, <2>3
    <3>2. Kept
      BY <2>1, <3>1 DEF Pending, Queued, Emitting
    <3> QED BY <1>a, <3>2
  <2> QED BY <2>2, <2>3
<1>4. CASE SetImage
  <2>1. Kept
    BY <1>0, <1>4 DEF SetImage, WriteImage, screenVars, Pending, Queued, Emitting
  <2> QED BY <1>a, <2>1
<1>5. CASE Notify
  <2>1. /\ written /\ UNCHANGED <<val, navigationMode, currentApp, gui>>
        /\ posted' = IF Assignment.prop \in Bound THEN Append(posted, Assignment.prop) ELSE posted
    BY <1>5 DEF Notify, EmitChanged, screenVars
  <2>2. Assignment.prop \in Props
    BY <1>0, <2>1, ValuesTyped, AssignmentTyped DEF AllProps
  <2>3. Pending("mockPage") => Queued("mockPage")'
    BY <1>0, <2>1, <2>2, QueuedAppend DEF Pending, Emitting, Queued
  <2>4. Kept
    BY <2>1, <2>3 DEF Pending
  <2> QED BY <1>a, <2>4
<1>6. CASE DeliverChange
  <2>1. PICK prop \in DisplayProps : TakeSignal(prop) /\ Reevaluate(prop)
    BY <1>6 DEF DeliverChange
  <2>2. /\ posted # <<>> /\ Head(posted) # "mockPage" /\ posted' = Tail(posted)
        /\ gui = "loop" /\ gui' \in {"loop", "loadCover"}
        /\ UNCHANGED <<val, todo, written, currentApp, navigationMode>>
    BY <2>1, PropNames DEF TakeSignal, Reevaluate, ipcVars
  <2>3. Kept
    BY <1>0, <2>2, QueuedTail DEF Pending, Emitting, Assignment
  <2> QED BY <1>a, <2>3
<1>7. CASE DeliverPage
  BY <1>7 DEF DeliverPage, TakeSignal, SetNavigationMode, ipcVars, ModeInv, ModeFollowsApp
<1>8. CASE LoadCover /\ UNCHANGED <<ipcVars, posted>>
  <2>1. Kept
    BY <1>8 DEF LoadCover, ipcVars, Pending, Queued, Emitting, Assignment
  <2> QED BY <1>a, <2>1
<1>9. CASE RunMockPage /\ UNCHANGED <<ipcVars, posted>>
  <2>1. /\ gui = "runApp" /\ currentApp' = val.mockPage /\ gui' \in {"loop", "loadCover"}
        /\ UNCHANGED <<val, posted, written, todo, navigationMode>>
    BY <1>9 DEF RunMockPage, RunApp, ipcVars
  <2>2. Pending("mockPage")' <=> Pending("mockPage")
    BY <2>1 DEF Pending, Queued, Emitting, Assignment
  <2> QED BY <2>1, <2>2 DEF ModeInv, ModeFollowsApp
<1>10. CASE Click
  <2>1. PICK app \in Apps : AppClicked(app)
    BY <1>10 DEF Click
  <2>2. currentApp' = app /\ navigationMode' = (app = "map") /\ gui' \in {"loop", "loadCover"}
    BY <2>1 DEF AppClicked, RunApp
  <2> QED BY <2>2 DEF ModeInv, ModeFollowsApp
<1> QED BY <1>1, <1>2, <1>3, <1>4, <1>5, <1>6, <1>7, <1>8, <1>9, <1>10
       DEF Next, Handler, Gui, FinishHandler

\* Navigation mode and app disagree only while a page is still to be delivered.
THEOREM ModeAgrees == Spec => []ModeFollowsApp
<1>1. Init => ModeInv
  BY DEF Init, ScreenInit, ModeInv, ModeFollowsApp
<1>2. TypeInv /\ ModeInv /\ [Next]_vars => ModeInv'
  BY ModeStep
<1>3. ModeInv => ModeFollowsApp
  BY DEF ModeInv
<1> QED BY <1>1, <1>2, <1>3, TypeInit, TypeStep, PTL DEF Spec

--------------------------------------------------------------------------------
(***************************************************************************)
(* DirectionsAgree: whatever is still to be assigned to the six properties *)
(* belongs to the last instruction, and where nothing is, the member       *)
(* already does.                                                           *)
(***************************************************************************)
Wanted ==
  [nextTurnDistance |-> DistanceLabel(lastTbt.distance).number,
   nextTurnDistanceMeasuredIn |-> DistanceLabel(lastTbt.distance).unit,
   naviActive |-> (lastTbt.icon # 0), naviIcon |-> lastTbt.icon,
   nextRoad |-> lastTbt.nextRoad, currentRoad |-> lastTbt.currentRoad]

ToCome(prop) == \E i \in 1..Len(todo) : todo[i].prop = prop /\ ~(i = 1 /\ written)

DirectionsInv ==
  /\ "map" \in runningApps
  /\ lastTbt # NoTbt =>
       \A prop \in MapProps :
         /\ \A i \in 1..Len(todo) : todo[i].prop = prop => todo[i].value = Wanted[prop]
         /\ ToCome(prop) \/ val[prop] = Wanted[prop]

\* The other handlers do not touch the six properties.
LEMMA OtherTodo ==
  /\ \A value : \A i \in 1..Len(<<Set("position", value)>>) :
        <<Set("position", value)>>[i].prop \notin MapProps
  /\ \A index \in {0, 1, 2} : \A i \in 1..Len(SetMockPage(index)) :
        SetMockPage(index)[i].prop \notin MapProps
  /\ \A song \in Songs :
        LET songTodo == <<Set("title", song.title), Set("artist", song.artist),
                          Set("duration", Duration(song))>> \o SetAlbumArt(song.art)
        IN  \A i \in 1..Len(songTodo) : songTodo[i].prop \notin MapProps
<1>1. ASSUME NEW value, NEW i \in 1..Len(<<Set("position", value)>>)
      PROVE  <<Set("position", value)>>[i].prop \notin MapProps
  BY <1>1 DEF Set, MapProps
<1>2. ASSUME NEW index \in {0, 1, 2}, NEW i \in 1..Len(SetMockPage(index))
      PROVE  SetMockPage(index)[i].prop \notin MapProps
  <2>1. SetMockPage(index) = <<Set("mockPage", mockIndexList[index + 1])>>
    BY <1>2 DEF SetMockPage
  <2>2. Set("mockPage", mockIndexList[index + 1]).prop = "mockPage"
    BY DEF Set
  <2> QED BY <1>2, <2>1, <2>2 DEF MapProps
<1>3. ASSUME NEW song \in Songs
      PROVE  LET songTodo == <<Set("title", song.title), Set("artist", song.artist),
                               Set("duration", Duration(song))>> \o SetAlbumArt(song.art)
             IN  \A i \in 1..Len(songTodo) : songTodo[i].prop \notin MapProps
  <2> DEFINE first == <<Set("title", song.title), Set("artist", song.artist),
                        Set("duration", Duration(song))>>
             last == SetAlbumArt(song.art)
             Others == {Set("title", song.title), Set("artist", song.artist),
                        Set("duration", Duration(song)), Set("image", song.art),
                        Set("image", DefaultArt), Set("albumArt", "default"),
                        Set("albumArt", IF flag THEN "+0" ELSE "+1")}
  <2>1. first \in Seq(Others)
    OBVIOUS
  <2>2. last \in Seq(Others)
    <3> HIDE DEF Others
    <3>1. /\ Set("image", song.art) \in Others /\ Set("image", DefaultArt) \in Others
          /\ Set("albumArt", "default") \in Others
          /\ Set("albumArt", IF flag THEN "+0" ELSE "+1") \in Others
      BY DEF Others
    <3> QED BY <3>1 DEF SetAlbumArt
  <2>3. first \o last \in Seq(Others)
    BY <2>1, <2>2, ConcatProperties
  <2>4. \A a \in Others : a.prop \notin MapProps
    BY DEF Set, MapProps
  <2>5. \A i \in 1..Len(first \o last) : (first \o last)[i] \in Others
    BY <2>3
  <2> QED BY <2>4, <2>5
<1> QED BY <1>1, <1>2, <1>3

LEMMA DirectionsBroadcast == ASSUME TypeInv, DirectionsInv, Broadcast PROVE DirectionsInv'
<1>0. /\ todo = <<>> /\ ~written /\ ~written' /\ UNCHANGED <<val, runningApps>>
      /\ todo' \in Seq(Assignments)
  BY BroadcastFrame, TypeBroadcast DEF screenVars, TypeInv
<1>1. CASE /\ lastTbt' = lastTbt
           /\ \A i \in 1..Len(todo') : todo'[i].prop \notin MapProps
  <2>1. Wanted' = Wanted
    BY <1>1 DEF Wanted
  <2>2. \A prop \in MapProps : ~ToCome(prop)
    BY <1>0 DEF ToCome
  <2> QED BY <1>0, <1>1, <2>1, <2>2 DEF DirectionsInv
<1>2. CASE \E tbt \in Tbts : OnTbt(tbt)
  <2>1. PICK tbt \in Tbts : OnTbt(tbt)
    BY <1>2
  <2>2. /\ lastTbt' = tbt
        /\ todo' = <<Set("nextTurnDistance", DistanceLabel(tbt.distance).number),
                     Set("nextTurnDistanceMeasuredIn", DistanceLabel(tbt.distance).unit),
                     Set("naviActive", tbt.icon # 0), Set("naviIcon", tbt.icon),
                     Set("nextRoad", tbt.nextRoad), Set("currentRoad", tbt.currentRoad)>>
    BY <2>1 DEF OnTbt
  <2>3. /\ Len(todo') = 6
        /\ todo'[1] = Set("nextTurnDistance", DistanceLabel(tbt.distance).number)
        /\ todo'[2] = Set("nextTurnDistanceMeasuredIn", DistanceLabel(tbt.distance).unit)
        /\ todo'[3] = Set("naviActive", tbt.icon # 0)
        /\ todo'[4] = Set("naviIcon", tbt.icon)
        /\ todo'[5] = Set("nextRoad", tbt.nextRoad)
        /\ todo'[6] = Set("currentRoad", tbt.currentRoad)
    BY <2>2
  <2>4. /\ Wanted'.nextTurnDistance = DistanceLabel(tbt.distance).number
        /\ Wanted'.nextTurnDistanceMeasuredIn = DistanceLabel(tbt.distance).unit
        /\ Wanted'.naviActive = (tbt.icon # 0) /\ Wanted'.naviIcon = tbt.icon
        /\ Wanted'.nextRoad = tbt.nextRoad /\ Wanted'.currentRoad = tbt.currentRoad
    BY <2>2 DEF Wanted
  <2>5. \A i \in 1..6 : todo'[i].value = Wanted'[todo'[i].prop]
    <3>1. todo'[1].value = Wanted'[todo'[1].prop] /\ todo'[2].value = Wanted'[todo'[2].prop]
      BY <2>3, <2>4 DEF Set
    <3>2. todo'[3].value = Wanted'[todo'[3].prop] /\ todo'[4].value = Wanted'[todo'[4].prop]
      BY <2>3, <2>4 DEF Set
    <3>3. todo'[5].value = Wanted'[todo'[5].prop] /\ todo'[6].value = Wanted'[todo'[6].prop]
      BY <2>3, <2>4 DEF Set
    <3> QED BY <3>1, <3>2, <3>3
  <2>6. \A prop \in MapProps : \E i \in 1..6 : todo'[i].prop = prop
    BY <2>3 DEF Set, MapProps
  <2>7. \A prop \in MapProps : ToCome(prop)'
    BY <1>0, <2>3, <2>6 DEF ToCome
  <2> QED BY <1>0, <2>3, <2>5, <2>7 DEF DirectionsInv
<1>3. CASE OnPlayStatus
  BY <1>0, <1>1, <1>3 DEF OnPlayStatus
<1>4. CASE \E value \in Progresses : OnProgress(value)
  BY <1>1, <1>4, OtherTodo DEF OnProgress
<1>5. CASE \E song \in Songs : OnSong(song)
  BY <1>1, <1>5, OtherTodo DEF OnSong
<1>6. CASE OnControlPage
  <2>1. NextIndex \in {0, 1, 2} /\ PreviousIndex \in {0, 1, 2}
    <3>1. Len(mockIndexList) = 3 /\ mockCurrIndex \in 0..2
      BY DEF mockIndexList, TypeInv, TypeOK
    <3> QED BY <3>1 DEF NextIndex, PreviousIndex
  <2> QED BY <1>1, <1>6, <2>1, OtherTodo DEF OnControlPage
<1> QED BY <1>2, <1>3, <1>4, <1>5, <1>6 DEF Broadcast, OnBroadcast

LEMMA DirectionsHandler == ASSUME TypeInv, DirectionsInv, Handler PROVE DirectionsInv'
<1>0. /\ todo \in Seq(Assignments) /\ DOMAIN val = Props /\ MapProps \subseteq Props
      /\ written => todo # <<>> /\ Assignment.prop # "image"
      /\ "image" \notin MapProps
  BY PropNames DEF TypeInv, MapProps
<1>1. CASE WriteProperty
  <2>1. /\ todo # <<>> /\ ~written /\ written' = TRUE
        /\ val' = [val EXCEPT ![Assignment.prop] = Assignment.value]
        /\ UNCHANGED <<todo, runningApps, lastTbt>>
    BY <1>1 DEF WriteProperty, WriteMember
  <2>2. Assignment = todo[1] /\ 1 \in 1..Len(todo) /\ Len(todo) \in Nat
    BY <1>0, <2>1 DEF Assignment
  <2>3. Wanted' = Wanted
    BY <2>1 DEF Wanted
  <2>4. ASSUME lastTbt # NoTbt, NEW prop \in MapProps
        PROVE  ToCome(prop)' \/ val'[prop] = Wanted[prop]
    <3>1. CASE prop = Assignment.prop
      BY <1>0, <2>1, <2>2, <2>4, <3>1 DEF DirectionsInv
    <3>2. CASE prop # Assignment.prop
      <4>1. val'[prop] = val[prop]
        BY <1>0, <2>1, <3>2
      <4>2. ToCome(prop) => ToCome(prop)'
        BY <2>1, <2>2, <3>2 DEF ToCome
      <4> QED BY <2>4, <4>1, <4>2 DEF DirectionsInv
    <3> QED BY <3>1, <3>2
  <2> QED BY <2>1, <2>3, <2>4 DEF DirectionsInv
<1>2. CASE SetImage \/ Notify
  <2>1. /\ todo # <<>> /\ todo' = Tail(todo) /\ ~written'
        /\ UNCHANGED <<val, runningApps, lastTbt>>
        /\ Assignment.prop \notin MapProps \/ written
    BY <1>0, <1>2 DEF SetImage, WriteImage, Notify, EmitChanged, screenVars
  <2>2. /\ Len(todo') = Len(todo) - 1 /\ Len(todo) \in Nat
        /\ \A i \in 1..Len(todo') : todo'[i] = todo[i + 1]
        /\ Assignment = todo[1]
    BY <1>0, <2>1, HeadTailProperties DEF Assignment
  <2>3. Wanted' = Wanted
    BY <2>1 DEF Wanted
  <2>4. ASSUME NEW prop \in MapProps, ToCome(prop) PROVE ToCome(prop)'
    <3>1. PICK i \in 1..Len(todo) : todo[i].prop = prop /\ ~(i = 1 /\ written)
      BY <2>4 DEF ToCome
    <3>2. i # 1
      BY <2>1, <2>2, <3>1
    <3>3. i - 1 \in 1..Len(todo') /\ todo'[i - 1].prop = prop
      BY <2>2, <3>1, <3>2
    <3> QED BY <2>1, <3>3 DEF ToCome
  <2>5. ASSUME lastTbt # NoTbt, NEW prop \in MapProps, NEW i \in 1..Len(todo'), todo'[i].prop = prop
        PROVE  todo'[i].value = Wanted[prop]
    BY <2>2, <2>5 DEF DirectionsInv
  <2> QED BY <2>1, <2>3, <2>4, <2>5 DEF DirectionsInv
<1> QED BY <1>1, <1>2 DEF Handler

LEMMA DirectionsStep == ASSUME TypeInv, DirectionsInv, [Next]_vars PROVE DirectionsInv'
<1>1. CASE Broadcast
  BY <1>1, DirectionsBroadcast
<1>2. CASE Handler
  BY <1>2, DirectionsHandler
<1>3. CASE Service \/ Connect \/ Gui \/ Click \/ UNCHANGED vars
  <2>1. UNCHANGED <<todo, val, written, lastTbt>>
    BY <1>3 DEF Service, ServiceComesOrGoes, Connect, Subscribe, Gui, DeliverChange, DeliverPage,
       TakeSignal, FinishHandler, Click, vars, ipcVars
  <2>2. runningApps \subseteq runningApps'
    BY <1>3 DEF Service, ServiceComesOrGoes, Connect, Subscribe, Gui, DeliverChange, DeliverPage,
       Reevaluate, SetNavigationMode, FinishHandler, LoadCover, RunMockPage, RunApp, Click,
       AppClicked, vars, screenVars
  <2>3. Wanted' = Wanted /\ \A prop \in MapProps : ToCome(prop)' = ToCome(prop)
    BY <2>1 DEF Wanted, ToCome
  <2> QED BY <2>1, <2>2, <2>3 DEF DirectionsInv
<1> QED BY <1>1, <1>2, <1>3 DEF Next

\* What the map shows once everything is delivered is one instruction, the last.
THEOREM Directions == Spec => []DirectionsAgree
<1>1. Init => DirectionsInv
  BY DEF Init, BridgeInit, ScreenInit, DirectionsInv
<1>2. TypeInv /\ DirectionsInv /\ ShownOrPending => DirectionsAgree
  <2> SUFFICES ASSUME TypeInv, DirectionsInv, ShownOrPending, Settled, lastTbt # NoTbt
               PROVE  \A prop \in MapProps : shown[prop] = Wanted[prop]
    BY DEF DirectionsAgree, Wanted, MapProps
  <2> TAKE prop \in MapProps
  <2>1. val[prop] = Wanted[prop]
    BY DEF DirectionsInv, ToCome, Settled
  <2>2. prop \in DisplayProps \cap Bound
    BY DEF DirectionsInv, Bound, PropsOf, DisplayProps
  <2>3. ~Pending(prop)
    BY DEF Settled, Pending, Queued, Emitting, TypeInv
  <2> QED BY <2>1, <2>2, <2>3 DEF ShownOrPending
<1>3. TypeInv /\ DirectionsInv /\ [Next]_vars => DirectionsInv'
  BY DirectionsStep
<1> QED BY <1>1, <1>2, <1>3, NothingStale, TypeInit, TypeStep, PTL DEF Spec

\* Only instructions are kept, and the label of each is a number for its unit: metres
\* up to 999, exactly, and from there tenths of a kilometre, no further away than half
\* of one.
Instructed == lastTbt \in Tbts \cup {NoTbt}

LEMMA InstructedStep == Instructed /\ [Next]_vars => Instructed'
<1> SUFFICES ASSUME Instructed, [Next]_vars PROVE Instructed'
  OBVIOUS
<1>1. CASE Broadcast
  <2>1. OnPlayStatus \/ OnControlPage => lastTbt' = lastTbt
    BY DEF OnPlayStatus, OnControlPage
  <2>2. \A value \in Progresses : OnProgress(value) => lastTbt' = lastTbt
    BY DEF OnProgress
  <2>3. \A song \in Songs : OnSong(song) => lastTbt' = lastTbt
    BY DEF OnSong
  <2>4. \A tbt \in Tbts : OnTbt(tbt) => lastTbt' = tbt
    BY DEF OnTbt
  <2> QED BY <1>1, <2>1, <2>2, <2>3, <2>4 DEF Broadcast, OnBroadcast, Instructed
<1>2. CASE Handler
  BY <1>2 DEF Handler, WriteProperty, WriteMember, SetImage, WriteImage, Notify, EmitChanged, Instructed
<1>3. CASE Gui
  BY <1>3 DEF Gui, FinishHandler, LoadCover, RunMockPage, DeliverChange, DeliverPage, TakeSignal,
     Reevaluate, SetNavigationMode, ipcVars, Instructed
<1>4. CASE Service \/ Connect \/ Click \/ UNCHANGED vars
  BY <1>4 DEF Service, ServiceComesOrGoes, Connect, Subscribe, Click, AppClicked, vars, ipcVars, Instructed
<1> QED BY <1>1, <1>2, <1>3, <1>4 DEF Next

\* Once everything is delivered the map says how far the next turn is, number and unit
\* together: the metres below 1000, the kilometres to a tenth from there on as far as
\* an int reaches, and a negative number of metres beyond (clusterdata.cpp 139-148).
DistanceFits ==
  LET distance == lastTbt.distance
      number == shown.nextTurnDistance
      unit == shown.nextTurnDistanceMeasuredIn
  IN  Settled /\ lastTbt # NoTbt => Reads(distance, number, unit)

\* The distance on the map is never a number of one instruction, or of one unit, with
\* another's.  Below IntLimit it is the distance that was sent, to half a tenth of a
\* kilometre up to 2^24 m and to 250 m from there; every distance from IntLimit on
\* is shown as less than nothing.
THEOREM Distances == Spec => []DistanceFits
<1>1. Init => Instructed
  BY DEF Init, BridgeInit, Instructed
<1>2. Instructed /\ DirectionsAgree => DistanceFits
  <2> SUFFICES ASSUME Instructed, DirectionsAgree, Settled, lastTbt # NoTbt
               PROVE  DistanceFits
    BY DEF DistanceFits
  <2>1. lastTbt.distance \in 0..2 * IntLimit - 1
    BY TbtAssumption DEF Instructed
  <2> QED BY <2>1, LabelFits DEF DirectionsAgree, DistanceFits
<1> QED BY <1>1, <1>2, Directions, InstructedStep, PTL DEF Spec

--------------------------------------------------------------------------------
(***************************************************************************)
(* CoverOfSong: a handler that replaces the picture still has the URL to   *)
(* set, and a URL that QML has read is followed by the picture unless it   *)
(* is about to be loaded.                                                  *)
(***************************************************************************)
CoverInv ==
  /\ (\E i \in 1..Len(todo) : todo[i].prop = "image") => todo[Len(todo)].prop = "albumArt"
  /\ /\ "music" \in runningApps /\ val.albumArt # "" /\ ~overrun
     /\ ~ToCome("albumArt") /\ shown.albumArt = val.albumArt /\ gui # "loadCover"
     => cover = image

\* The last element of a concatenation is the last of its second part.
LEMMA LastOfConcat ==
  ASSUME NEW S, NEW s \in Seq(S), NEW t \in Seq(S), Len(t) > 0
  PROVE  /\ Len(s \o t) = Len(s) + Len(t)
         /\ Len(s \o t) \in 1..Len(s \o t)
         /\ (s \o t)[Len(s \o t)] = t[Len(t)]
<1>1. Len(s) \in Nat /\ Len(t) \in Nat
  OBVIOUS
<1>2. Len(s \o t) = Len(s) + Len(t)
  OBVIOUS
<1>3. Len(s) + Len(t) \in 1..Len(s \o t)
  BY <1>1, <1>2
<1>4. (s \o t)[Len(s) + Len(t)] = t[Len(t)]
  BY <1>1, <1>2, <1>3
<1> QED BY <1>2, <1>3, <1>4

LEMMA LastOfSong ==
  ASSUME NEW song \in Songs,
         todo' = <<Set("title", song.title), Set("artist", song.artist),
                   Set("duration", Duration(song))>> \o SetAlbumArt(song.art)
  PROVE  todo'[Len(todo')].prop = "albumArt" /\ Len(todo') \in 1..Len(todo')
<1> DEFINE first == <<Set("title", song.title), Set("artist", song.artist),
                      Set("duration", Duration(song))>>
           last == SetAlbumArt(song.art)
<1>1. first \in Seq(Assignments) /\ Len(first) = 3
  BY SongParts
<1>2. last \in Seq(Assignments)
  BY SongParts
<1>3. last[Len(last)].prop = "albumArt"
  BY DEF SetAlbumArt, Set
<1>4. Len(last) > 0
  BY DEF SetAlbumArt
<1> HIDE DEF first, last
<1>5. /\ Len(first \o last) \in 1..Len(first \o last)
      /\ (first \o last)[Len(first \o last)] = last[Len(last)]
  BY <1>1, <1>2, <1>4, LastOfConcat
<1>6. todo' = first \o last
  BY DEF first, last
<1> QED BY <1>3, <1>5, <1>6

LEMMA CoverBroadcast == ASSUME TypeInv, CoverInv, Broadcast PROVE CoverInv'
<1>0. /\ todo = <<>> /\ ~written /\ ~written'
      /\ UNCHANGED <<val, runningApps, overrun, shown, gui, cover, image>>
  BY BroadcastFrame DEF screenVars, TypeInv
<1>1. CASE \A i \in 1..Len(todo') : todo'[i].prop # "image"
  <2>1. ~ToCome("albumArt")
    BY <1>0 DEF ToCome
  <2> QED BY <1>0, <1>1, <2>1 DEF CoverInv
<1>2. CASE \E song \in Songs : OnSong(song)
  <2>1. todo'[Len(todo')].prop = "albumArt" /\ Len(todo') \in 1..Len(todo')
    BY <1>2, LastOfSong DEF OnSong
  <2>2. ToCome("albumArt")'
    BY <1>0, <2>1 DEF ToCome
  <2> QED BY <2>1, <2>2 DEF CoverInv
<1>3. CASE OnPlayStatus
  BY <1>0, <1>1, <1>3 DEF OnPlayStatus
<1>4. CASE \E value \in Progresses : OnProgress(value)
  <2>1. PICK value : todo' = <<Set("position", value)>>
    BY <1>4 DEF OnProgress
  <2>2. \A i \in 1..Len(todo') : todo'[i].prop # "image"
    BY <2>1 DEF Set
  <2> QED BY <1>1, <2>2
<1>5. CASE \E tbt \in Tbts : OnTbt(tbt)
  <2>1. PICK tbt \in Tbts : OnTbt(tbt)
    BY <1>5
  <2>2. \A i \in 1..Len(todo') : todo'[i].prop # "image"
    BY <2>1 DEF OnTbt, Set
  <2> QED BY <1>1, <2>2
<1>6. CASE OnControlPage
  <2>1. \A i \in 1..Len(todo') : todo'[i].prop # "image"
    BY <1>6 DEF OnControlPage, SetMockPage, Set
  <2> QED BY <1>1, <2>1
<1> QED BY <1>2, <1>3, <1>4, <1>5, <1>6 DEF Broadcast, OnBroadcast

-----------------------------------------------------------------------------
\* A decoded picture always changes the URL: what setAlbumArt() will use next is
\* never what the member holds, or is about to hold.
NextUrl == IF flag THEN "+0" ELSE "+1"

UrlInv ==
  /\ ~ToCome("albumArt") => val.albumArt # NextUrl
  /\ \A i \in 1..Len(todo) : todo[i].prop = "albumArt" =>
       /\ i = Len(todo)
       /\ todo[i].value # NextUrl
       /\ (i = 1 /\ written) \/ todo[i].value = "default" \/ todo[i].value # val.albumArt

LEMMA ConcatElements ==
  ASSUME NEW S, NEW s \in Seq(S), NEW t \in Seq(S), NEW i \in 1..Len(s \o t)
  PROVE  /\ Len(s \o t) = Len(s) + Len(t)
         /\ \/ i \in 1..Len(s) /\ (s \o t)[i] = s[i]
            \/ i - Len(s) \in 1..Len(t) /\ (s \o t)[i] = t[i - Len(s)]
<1>1. Len(s) \in Nat /\ Len(t) \in Nat
  OBVIOUS
<1>2. Len(s \o t) = Len(s) + Len(t)
  OBVIOUS
<1>3. CASE i \in 1..Len(s)
  BY <1>2, <1>3
<1>4. CASE i \notin 1..Len(s)
  <2>1. i \in Len(s) + 1 .. Len(s) + Len(t)
    BY <1>1, <1>2, <1>4
  <2> QED BY <1>1, <1>2, <2>1
<1> QED BY <1>3, <1>4

LEMMA UrlOfArt ==
  ASSUME NEW art, NEW j \in 1..Len(SetAlbumArt(art)), SetAlbumArt(art)[j].prop = "albumArt"
  PROVE  /\ j = Len(SetAlbumArt(art))
         /\ SetAlbumArt(art)[j].value = IF art = NoArt THEN "default" ELSE NextUrl
<1>1. CASE art = NoArt
  BY <1>1 DEF SetAlbumArt, Set
<1>2. CASE art # NoArt
  BY <1>2 DEF SetAlbumArt, Set, NextUrl
<1> QED BY <1>1, <1>2

LEMMA UrlOfSong ==
  ASSUME NEW song \in Songs, OnSong(song),
         NEW i \in 1..Len(todo'), todo'[i].prop = "albumArt"
  PROVE  /\ i = Len(todo')
         /\ todo'[i].value = IF song.art = NoArt THEN "default" ELSE NextUrl
<1> DEFINE first == <<Set("title", song.title), Set("artist", song.artist),
                      Set("duration", Duration(song))>>
           last == SetAlbumArt(song.art)
<1>1. first \in Seq(Assignments) /\ Len(first) = 3
  BY SongParts
<1>2. last \in Seq(Assignments)
  BY SongParts
<1>3. \A k \in 1..3 : first[k].prop # "albumArt"
  BY DEF Set
<1>4. \A j \in 1..Len(last) : last[j].prop = "albumArt" =>
        j = Len(last) /\ last[j].value = IF song.art = NoArt THEN "default" ELSE NextUrl
  BY UrlOfArt
<1>5. todo' = first \o last
  BY DEF OnSong
<1> HIDE DEF first, last
<1>6. /\ Len(todo') = 3 + Len(last)
      /\ \/ i \in 1..3 /\ todo'[i] = first[i]
         \/ i - 3 \in 1..Len(last) /\ todo'[i] = last[i - 3]
  BY <1>1, <1>2, <1>5, ConcatElements
<1>7. i - 3 \in 1..Len(last) /\ todo'[i] = last[i - 3]
  BY <1>3, <1>6
<1>8. i - 3 = Len(last)
  BY <1>4, <1>7
<1>9. Len(last) \in Nat
  BY <1>2
<1> QED BY <1>4, <1>6, <1>7, <1>8, <1>9

LEMMA UrlBroadcast == ASSUME TypeInv, UrlInv, Broadcast PROVE UrlInv'
<1>0. /\ todo = <<>> /\ ~written /\ UNCHANGED val
      /\ val.albumArt # NextUrl
  <2>1. todo = <<>> /\ ~written /\ UNCHANGED val
    BY BroadcastFrame DEF TypeInv
  <2>2. ~ToCome("albumArt")
    BY <2>1 DEF ToCome
  <2> QED BY <2>1, <2>2 DEF UrlInv
<1>1. CASE UNCHANGED flag /\ \A i \in 1..Len(todo') : todo'[i].prop # "albumArt"
  BY <1>0, <1>1 DEF UrlInv, NextUrl
<1>2. CASE \E song \in Songs : OnSong(song)
  <2>1. PICK song \in Songs : OnSong(song)
    BY <1>2
  <2>2. song.art # NoArt => NextUrl' # NextUrl
    BY <2>1 DEF OnSong, ToggleFlag, NextUrl
  <2>3. song.art = NoArt => NextUrl' = NextUrl
    BY <2>1 DEF OnSong, ToggleFlag, NextUrl
  <2>4. ASSUME NEW i \in 1..Len(todo'), todo'[i].prop = "albumArt"
        PROVE  /\ i = Len(todo')
               /\ todo'[i].value # NextUrl'
               /\ todo'[i].value = "default" \/ todo'[i].value # val'.albumArt
    <3>1. i = Len(todo') /\ todo'[i].value = IF song.art = NoArt THEN "default" ELSE NextUrl
      BY <2>1, <2>4, UrlOfSong
    <3>2. NextUrl' # "default"
      BY DEF NextUrl
    <3> QED BY <1>0, <2>2, <2>3, <3>1, <3>2
  <2>5. ToCome("albumArt")'
    <3>1. todo'[Len(todo')].prop = "albumArt" /\ Len(todo') \in 1..Len(todo')
      BY <2>1, LastOfSong DEF OnSong
    <3>2. ~written'
      BY <1>0, BroadcastFrame
    <3> QED BY <3>1, <3>2 DEF ToCome
  <2> QED BY <2>4, <2>5 DEF UrlInv
<1>3. CASE OnPlayStatus
  BY <1>0, <1>1, <1>3 DEF OnPlayStatus
<1>4. CASE \E value \in Progresses : OnProgress(value)
  <2>1. PICK value : todo' = <<Set("position", value)>>
    BY <1>4 DEF OnProgress
  <2>2. \A i \in 1..Len(todo') : todo'[i].prop # "albumArt"
    BY <2>1 DEF Set
  <2> QED BY <1>1, <1>4, <2>2 DEF OnProgress
<1>5. CASE \E tbt \in Tbts : OnTbt(tbt)
  <2>1. PICK tbt \in Tbts : OnTbt(tbt)
    BY <1>5
  <2>2. \A i \in 1..Len(todo') : todo'[i].prop # "albumArt"
    BY <2>1 DEF OnTbt, Set
  <2>3. UNCHANGED flag
    BY <2>1 DEF OnTbt
  <2> QED BY <1>1, <2>2, <2>3
<1>6. CASE OnControlPage
  <2>1. \A i \in 1..Len(todo') : todo'[i].prop # "albumArt"
    BY <1>6 DEF OnControlPage, SetMockPage, Set
  <2> QED BY <1>1, <1>6, <2>1 DEF OnControlPage
<1> QED BY <1>2, <1>3, <1>4, <1>5, <1>6 DEF Broadcast, OnBroadcast

LEMMA UrlHandler == ASSUME TypeInv, UrlInv, Handler PROVE UrlInv'
<1>0. /\ todo \in Seq(Assignments) /\ DOMAIN val = Props /\ "albumArt" \in Props
      /\ written => todo # <<>> /\ Assignment.prop # "image"
  BY PropNames DEF TypeInv
<1>1. UNCHANGED flag
  BY DEF Handler, WriteProperty, WriteMember, SetImage, WriteImage, Notify, EmitChanged
<1>2. NextUrl' = NextUrl
  BY <1>1 DEF NextUrl
<1>3. CASE WriteProperty
  <2>1. /\ todo # <<>> /\ ~written /\ written' = TRUE /\ UNCHANGED todo
        /\ val' = [val EXCEPT ![Assignment.prop] = Assignment.value]
    BY <1>3 DEF WriteProperty, WriteMember
  <2>2. Assignment = todo[1] /\ 1 \in 1..Len(todo)
    BY <1>0, <2>1 DEF Assignment
  <2>3. CASE Assignment.prop = "albumArt"
    <3>1. val'.albumArt = Assignment.value
      BY <1>0, <2>1, <2>3
    <3>2. val'.albumArt # NextUrl
      BY <2>2, <2>3, <3>1 DEF UrlInv
    <3>3. ASSUME NEW i \in 1..Len(todo), todo[i].prop = "albumArt"
          PROVE  i = 1 /\ i = Len(todo) /\ todo[i].value # NextUrl
      BY <2>2, <2>3, <3>3 DEF UrlInv
    <3> QED BY <1>2, <2>1, <3>2, <3>3 DEF UrlInv
  <2>4. CASE Assignment.prop # "albumArt"
    <3>1. val'["albumArt"] = val["albumArt"]
      BY <1>0, <2>1, <2>4
    <3>2. ToCome("albumArt") => ToCome("albumArt")'
      BY <2>1, <2>2, <2>4 DEF ToCome
    <3>3. ~ToCome("albumArt")' => val'.albumArt # NextUrl
      BY <3>1, <3>2 DEF UrlInv
    <3> QED BY <1>2, <2>1, <3>1, <3>3 DEF UrlInv
  <2> QED BY <2>3, <2>4
<1>4. CASE SetImage \/ Notify
  <2>1. /\ todo # <<>> /\ todo' = Tail(todo) /\ ~written' /\ UNCHANGED val
        /\ Assignment.prop = "image" \/ written
    BY <1>0, <1>4 DEF SetImage, WriteImage, Notify, EmitChanged, screenVars
  <2>2. /\ Len(todo') = Len(todo) - 1 /\ Len(todo) \in Nat /\ Len(todo) # 0
        /\ \A i \in 1..Len(todo') : todo'[i] = todo[i + 1]
        /\ Assignment = todo[1]
    BY <1>0, <2>1, HeadTailProperties DEF Assignment
  <2>3. ASSUME ToCome("albumArt") PROVE ToCome("albumArt")'
    <3>1. PICK i \in 1..Len(todo) : todo[i].prop = "albumArt" /\ i # 1
      BY <2>1, <2>2, <2>3 DEF ToCome
    <3>2. i - 1 \in 1..Len(todo') /\ todo'[i - 1].prop = "albumArt"
      BY <2>2, <3>1
    <3> QED BY <2>1, <3>2 DEF ToCome
  <2>4. ASSUME NEW i \in 1..Len(todo'), todo'[i].prop = "albumArt"
        PROVE  /\ i = Len(todo')
               /\ todo'[i].value # NextUrl
               /\ todo'[i].value = "default" \/ todo'[i].value # val.albumArt
    <3>1. i + 1 \in 1..Len(todo) /\ todo'[i] = todo[i + 1] /\ i + 1 # 1
      BY <2>2
    <3>2. i + 1 = Len(todo)
      BY <2>4, <3>1 DEF UrlInv
    <3>3. todo[i + 1].value # NextUrl
      BY <2>4, <3>1 DEF UrlInv
    <3>4. todo[i + 1].value = "default" \/ todo[i + 1].value # val.albumArt
      BY <2>4, <3>1 DEF UrlInv
    <3>5. i = Len(todo')
      BY <2>2, <3>2
    <3> QED BY <3>1, <3>3, <3>4, <3>5
  <2>5. ~ToCome("albumArt")' => val.albumArt # NextUrl
    BY <2>3 DEF UrlInv
  <2> QED BY <1>2, <2>1, <2>4, <2>5 DEF UrlInv
<1> QED BY <1>3, <1>4 DEF Handler

LEMMA UrlStep == ASSUME TypeInv, UrlInv, [Next]_vars PROVE UrlInv'
<1>1. CASE Broadcast
  BY <1>1, UrlBroadcast
<1>2. CASE Handler
  BY <1>2, UrlHandler
<1>3. CASE Service \/ Connect \/ Gui \/ Click \/ UNCHANGED vars
  <2>1. UNCHANGED <<todo, val, written, flag>>
    BY <1>3 DEF Service, ServiceComesOrGoes, Connect, Subscribe, Gui, DeliverChange,
       DeliverPage, TakeSignal, FinishHandler, Click, vars, ipcVars
  <2> QED BY <2>1 DEF UrlInv, ToCome, NextUrl
<1> QED BY <1>1, <1>2, <1>3 DEF Next

-----------------------------------------------------------------------------
LEMMA CoverHandler == ASSUME TypeInv, UrlInv, CoverInv, Handler PROVE CoverInv'
<1>0. /\ todo \in Seq(Assignments) /\ DOMAIN val = Props /\ "albumArt" \in Props
      /\ written => todo # <<>> /\ Assignment.prop # "image"
  BY PropNames DEF TypeInv
<1>1. CASE WriteProperty
  <2>1. /\ todo # <<>> /\ ~written /\ written' = TRUE
        /\ val' = [val EXCEPT ![Assignment.prop] = Assignment.value]
        /\ UNCHANGED <<todo, runningApps, shown, gui, cover, image>>
        /\ overrun' = (\/ overrun
                       \/ /\ Assignment.prop = "albumArt"
                          /\ \/ val.albumArt = "default" /\ Assignment.value = "default"
                             \/ shown.albumArt # val.albumArt)
    BY <1>1 DEF WriteProperty, WriteMember
  <2>2. CASE Assignment.prop = "albumArt"
    <3>0. Assignment.value = "default" \/ Assignment.value # val.albumArt
      <4>1. Assignment = todo[1] /\ 1 \in 1..Len(todo)
        BY <1>0, <2>1 DEF Assignment
      <4> QED BY <2>1, <2>2, <4>1 DEF UrlInv
    <3>1. val'.albumArt = Assignment.value
      BY <1>0, <2>1, <2>2
    <3>2. overrun' \/ shown'.albumArt # val'.albumArt
      BY <2>1, <2>2, <3>0, <3>1
    <3> QED BY <2>1, <3>2 DEF CoverInv
  <2>3. CASE Assignment.prop # "albumArt"
    <3>1. val'["albumArt"] = val["albumArt"]
      BY <1>0, <2>1, <2>3
    <3>2. overrun' <=> overrun
      BY <2>1, <2>3
    <3>3. ToCome("albumArt") => ToCome("albumArt")'
      BY <1>0, <2>1, <2>3 DEF ToCome, Assignment
    <3> QED BY <2>1, <3>1, <3>2, <3>3 DEF CoverInv
  <2> QED BY <2>2, <2>3
<1>2. CASE SetImage \/ Notify
  <2>1. /\ todo # <<>> /\ todo' = Tail(todo) /\ ~written'
        /\ UNCHANGED <<val, runningApps, overrun, shown, gui, cover>>
        /\ Assignment.prop = "image" \/ (written /\ image' = image)
    BY <1>0, <1>2 DEF SetImage, WriteImage, Notify, EmitChanged, screenVars
  <2>2. /\ Len(todo') = Len(todo) - 1 /\ Len(todo) \in Nat /\ Len(todo) # 0
        /\ \A i \in 1..Len(todo') : todo'[i] = todo[i + 1]
        /\ Assignment = todo[1]
    BY <1>0, <2>1, HeadTailProperties DEF Assignment
  <2>3. ASSUME NEW i \in 1..Len(todo'), todo'[i].prop = "image"
        PROVE  todo'[Len(todo')].prop = "albumArt"
    <3>1. i + 1 \in 1..Len(todo) /\ todo[i + 1].prop = "image"
      BY <2>2, <2>3
    <3>2. todo[Len(todo)].prop = "albumArt"
      BY <3>1 DEF CoverInv
    <3>3. Len(todo') \in 1..Len(todo') /\ Len(todo') + 1 = Len(todo)
      BY <2>2, <2>3
    <3> QED BY <2>2, <3>2, <3>3
  <2>4. CASE Assignment.prop = "image"
    <3>0. 1 \in 1..Len(todo) /\ todo[1].prop = "image"
      BY <2>2, <2>4
    <3>1. todo[Len(todo)].prop = "albumArt" /\ Len(todo) # 1
      BY <3>0 DEF CoverInv
    <3>2. Len(todo') \in 1..Len(todo') /\ todo'[Len(todo')].prop = "albumArt"
      BY <2>2, <3>1
    <3>3. ToCome("albumArt")'
      BY <2>1, <3>2 DEF ToCome
    <3> QED BY <2>3, <3>3 DEF CoverInv
  <2>5. CASE written /\ image' = image
    <3>1. ASSUME ToCome("albumArt") PROVE ToCome("albumArt")'
      <4>1. PICK i \in 1..Len(todo) : todo[i].prop = "albumArt" /\ i # 1
        BY <2>5, <3>1 DEF ToCome
      <4>2. i - 1 \in 1..Len(todo') /\ todo'[i - 1].prop = "albumArt"
        BY <2>2, <4>1
      <4> QED BY <2>1, <4>2 DEF ToCome
    <3> QED BY <2>1, <2>3, <2>5, <3>1 DEF CoverInv
  <2> QED BY <2>1, <2>4, <2>5
<1> QED BY <1>1, <1>2 DEF Handler

\* Loading an app: the music app loads its cover next.
LEMMA CoverRunApp ==
  ASSUME TypeInv, CoverInv, NEW app \in Apps, RunApp(app), gui # "loadCover",
         UNCHANGED <<val, image, todo, written, cover, overrun>>
  PROVE  CoverInv'
<1>1. ToCome("albumArt")' <=> ToCome("albumArt")
  BY DEF ToCome
<1>2. "albumArt" \in DisplayProps
  BY PropNames
<1>3. CASE app \in runningApps
  BY <1>1, <1>3 DEF RunApp, CoverInv
<1>4. CASE app \notin runningApps /\ app = "music"
  BY <1>1, <1>4 DEF RunApp, CoverInv
<1>5. CASE app \notin runningApps /\ app # "music"
  <2>1. "albumArt" \notin PropsOf(app)
    BY <1>5 DEF PropsOf, MapProps
  <2>2. shown'["albumArt"] = shown["albumArt"]
    BY <1>2, <1>5, <2>1 DEF RunApp
  <2>3. "music" \in runningApps' => "music" \in runningApps
    BY <1>5 DEF RunApp
  <2> QED BY <1>1, <2>2, <2>3 DEF CoverInv
<1> QED BY <1>3, <1>4, <1>5

LEMMA CoverStep == ASSUME TypeInv, UrlInv, CoverInv, [Next]_vars PROVE CoverInv'
<1>0. DOMAIN shown = DisplayProps /\ "albumArt" \in DisplayProps
  BY PropNames DEF TypeInv
<1>1. CASE Broadcast
  BY <1>1, CoverBroadcast
<1>2. CASE Handler
  BY <1>2, CoverHandler
<1>3. CASE Service \/ Connect \/ DeliverPage \/ UNCHANGED vars
  <2>1. /\ UNCHANGED <<todo, val, written, image, shown, cover, runningApps, overrun>>
        /\ gui = "loadCover" => gui' = "loadCover"
    BY <1>3 DEF Service, ServiceComesOrGoes, Connect, Subscribe, DeliverPage, TakeSignal,
       SetNavigationMode, vars, ipcVars, screenVars
  <2> QED BY <2>1 DEF CoverInv, ToCome
<1>4. CASE DeliverChange
  <2>1. PICK prop \in DisplayProps : TakeSignal(prop) /\ Reevaluate(prop)
    BY <1>4 DEF DeliverChange
  <2>2. /\ shown' = [shown EXCEPT ![prop] = val[prop]] /\ gui = "loop"
        /\ gui' = IF prop = "albumArt" /\ shown[prop] # val[prop] THEN "loadCover" ELSE "loop"
        /\ UNCHANGED <<todo, val, written, image, cover, runningApps, overrun>>
    BY <2>1 DEF TakeSignal, Reevaluate, ipcVars
  <2>3. ToCome("albumArt")' <=> ToCome("albumArt")
    BY <2>2 DEF ToCome
  <2>4. gui' = "loadCover" \/ shown'["albumArt"] = shown["albumArt"]
    BY <1>0, <2>2
  <2> QED BY <2>2, <2>3, <2>4 DEF CoverInv
<1>5. CASE LoadCover /\ UNCHANGED <<ipcVars, posted>>
  BY <1>5 DEF LoadCover, ipcVars, CoverInv
<1>6. CASE RunMockPage /\ UNCHANGED <<ipcVars, posted>>
  <2>1. val.mockPage \in Apps
    BY <1>6 DEF RunMockPage, TypeInv
  <2> QED BY <1>6, <2>1, CoverRunApp DEF RunMockPage, ipcVars
<1>7. CASE Click
  BY <1>7, CoverRunApp DEF Click, AppClicked, ipcVars
<1> QED BY <1>1, <1>2, <1>3, <1>4, <1>5, <1>6, <1>7 DEF Next, Gui, FinishHandler

LEMMA NothingPending ==
  ASSUME todo = <<>>, posted = <<>>, ~written, NEW p
  PROVE  ~Pending(p) /\ ~ToCome(p)
<1>0. Len(posted) = 0 /\ Len(todo) = 0
  OBVIOUS
<1>1. ASSUME NEW i \in 1..0 PROVE FALSE
  OBVIOUS
<1>2. ~Queued(p)
  BY <1>0, <1>1 DEF Queued
<1>3. ~ToCome(p)
  BY <1>0, <1>1 DEF ToCome
<1> QED BY <1>2, <1>3 DEF Pending, Emitting

\* The cover is the last song's picture once everything is delivered, if QML saw
\* every URL change.
THEOREM Cover == Spec => []CoverOfSong
<1>1. Init => CoverInv
  <2> SUFFICES ASSUME Init PROVE CoverInv
    OBVIOUS
  <2>1. todo = <<>> /\ runningApps = {"map"}
    BY DEF Init, BridgeInit, ScreenInit
  <2> QED BY <2>1 DEF CoverInv
<1>2. TypeInv /\ CoverInv /\ ShownOrPending => CoverOfSong
  <2> SUFFICES ASSUME TypeInv, CoverInv, ShownOrPending, Settled,
                      "music" \in runningApps, val.albumArt # "", ~overrun
               PROVE  cover = image
    BY DEF CoverOfSong
  <2>0. todo = <<>> /\ posted = <<>> /\ gui = "loop" /\ ~written
    BY DEF Settled, TypeInv
  <2>1. ~Pending("albumArt") /\ ~ToCome("albumArt")
    BY <2>0, NothingPending
  <2>2. "albumArt" \in DisplayProps \cap Bound
    <3>1. "albumArt" \in PropsOf("music")
      BY DEF PropsOf, MusicProps
    <3> QED BY <3>1, PropNames DEF Bound
  <2> QED BY <2>1, <2>2 DEF CoverInv, ShownOrPending, Settled
<1>3. TypeInv /\ UrlInv /\ CoverInv /\ [Next]_vars => CoverInv'
  BY CoverStep
<1>4. Init => UrlInv
  <2> SUFFICES ASSUME Init PROVE UrlInv
    OBVIOUS
  <2>1. Len(todo) = 0 /\ val.albumArt = ""
    BY DEF Init, BridgeInit
  <2>2. val.albumArt # NextUrl
    BY <2>1 DEF NextUrl
  <2>3. ASSUME NEW i \in 1..0 PROVE FALSE
    OBVIOUS
  <2> QED BY <2>1, <2>2, <2>3 DEF UrlInv
<1>5. TypeInv /\ UrlInv /\ [Next]_vars => UrlInv'
  BY UrlStep
<1> QED BY <1>1, <1>2, <1>3, <1>4, <1>5, NothingStale, TypeInit, TypeStep, PTL DEF Spec
==============================================================================
