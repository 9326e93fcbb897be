--------------------------- MODULE ClusterSettings ---------------------------
(***************************************************************************)
(* ClusterData's start-up: init() parses settings.xml within the           *)
(* constructor and takes what it wants from the parser's members; 10 s     *)
(* later SDApplication::init() calls start(), which starts the timers of   *)
(* the animation.                                                          *)
(***************************************************************************)
EXTENDS SettingsParser

VARIABLES
  mileageKm, maxSpeed, maxRotationSpeed, temperatureChangeCycle,
  speedList,  \* the text its entries are split from, Unset for an empty list
  running     \* the timers are started

clusterVars ==
  <<mileageKm, maxSpeed, maxRotationSpeed, temperatureChangeCycle, speedList, running>>

VARIABLE phase  \* of the start-up: "parsing", "loaded" or "running"

ClusterInit ==
  /\ mileageKm = 100
  /\ maxSpeed = 260
  /\ maxRotationSpeed = 8000
  /\ temperatureChangeCycle = 5
  /\ speedList = Unset
  /\ running = FALSE
  /\ phase = "parsing"

\* A member the file's names do not reach keeps its 0.
Value(n) == IF n \in Names THEN values[n] ELSE 0

Within(x, lo, hi, default) == IF lo <= x /\ x <= hi THEN x ELSE default

MaxMileage == 99999
Mileage(x) == Within(x, 0, MaxMileage, 16888)
TopSpeed(x) == Within(x, 240, 320, 260)
TopRotation(x) == Within(x, 4000, 9999, 8000)
Cycle(x) == IF x <= 0 THEN 5 ELSE x

\* Mutant: the top speed of the file is forgotten.
LoadKeepsSpeed ==
  /\ pc = "done" /\ phase = "parsing"
  /\ phase' = "loaded"
  /\ IF result
       THEN /\ mileageKm' = Mileage(Value("odoNumber"))
            /\ maxRotationSpeed' = TopRotation(Value("maxRotationSpeed"))
            /\ speedList' = Value("carSpeed")
            /\ temperatureChangeCycle' = Cycle(Value("temperatureChangeCycle"))
            /\ UNCHANGED maxSpeed
       ELSE UNCHANGED <<mileageKm, maxSpeed, maxRotationSpeed, speedList, temperatureChangeCycle>>
  /\ UNCHANGED <<vars, running>>

Load ==
  /\ pc = "done" /\ phase = "parsing"
  /\ phase' = "loaded"
  /\ IF result
       THEN /\ mileageKm' = Mileage(Value("odoNumber"))
            /\ maxSpeed' = TopSpeed(Value("maxCarSpeed"))
            /\ maxRotationSpeed' = TopRotation(Value("maxRotationSpeed"))
            /\ speedList' = Value("carSpeed")
            /\ temperatureChangeCycle' = Cycle(Value("temperatureChangeCycle"))
       ELSE UNCHANGED <<mileageKm, maxSpeed, maxRotationSpeed, speedList, temperatureChangeCycle>>
  /\ UNCHANGED <<vars, running>>

Start ==
  /\ phase = "loaded"
  /\ phase' = "running"
  /\ running' = TRUE
  /\ UNCHANGED <<vars, mileageKm, maxSpeed, maxRotationSpeed, temperatureChangeCycle, speedList>>

Parse == Next /\ UNCHANGED <<clusterVars, phase>>

StartUpNext == Parse \/ Load \/ Start

StartUpInit == Init /\ ClusterInit

StartUp == StartUpInit /\ [][StartUpNext]_<<vars, clusterVars, phase>>
             /\ WF_<<vars, clusterVars, phase>>(StartUpNext)

--------------------------------------------------------------------------------
Says(n) == IF n \in Names THEN Meant(n) ELSE 0

BuiltIn ==
  /\ mileageKm = 100 /\ maxSpeed = 260 /\ maxRotationSpeed = 8000
  /\ temperatureChangeCycle = 5
  /\ speedList = Unset

Mileages == 0..MaxMileage
TopSpeeds == 240..320
TopRotations == 4000..9999
InRange ==
  /\ mileageKm \in Mileages /\ maxSpeed \in TopSpeeds /\ maxRotationSpeed \in TopRotations
  /\ temperatureChangeCycle > 0

\* Each member is what the document says, and where that is out of its range,
\* what init() puts in its place.
Taken(member, n, range, default) == member = IF Says(n) \in range THEN Says(n) ELSE default
FromFile ==
  /\ Taken(mileageKm, "odoNumber", Mileages, 16888)
  /\ Taken(maxSpeed, "maxCarSpeed", TopSpeeds, 260)
  /\ Taken(maxRotationSpeed, "maxRotationSpeed", TopRotations, 8000)
  /\ Taken(temperatureChangeCycle, "temperatureChangeCycle", {x \in Int : x > 0}, 5)
  /\ speedList = Says("carSpeed")

\* What init() leaves in the cluster is the file's own mileage, top speeds, speed
\* list and cycle where they are in range and the built-in ones where they are
\* not; a refused file leaves no trace of the entries read before it was refused
\* (clusterdata.cpp 33-70).
ClusterTakesFile ==
  phase # "parsing" =>
    IF ~result THEN BuiltIn
    ELSE InRange /\ (fault \in {"none", "error"} => FromFile)

\* settings.xml line 4: playCustomAni is 1 to play the custom animation and 0 not
\* to.  start() does not ask.
AnimationIsOptional ==
  fault = "none" /\ result /\ "playCustomAni" \in Names /\ ref["playCustomAni"] = 0 => ~running
=============================================================================
