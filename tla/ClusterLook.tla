----------------------------- MODULE ClusterLook -----------------------------
(***************************************************************************)
(* ClusterData's temperature timer, which turns the theme as well, and the *)
(* handler in main.qml that hands the theme to the root's Style.           *)
(***************************************************************************)
EXTENDS StyleTree

VARIABLES
  clusterTheme,  \* ClusterData's theme
  turned,        \* the timer has fired
  temperature,   \* outsideTemperatureCelsius
  rising         \* bFlag

demoVars == <<clusterTheme, turned, temperature, rising>>
vars == <<treeVars, demoVars>>

Init == TreeInit /\ clusterTheme = Light /\ turned = FALSE /\ temperature = 30 /\ rising = TRUE

\* The bounds are computed once, from the value the cluster starts with.
Coldest == 30 - 2
Hottest == 30 + 2

\* Mutants: the lower turn does not give back what it is too far; it does, and
\* forgets to turn.
TemperatureOvershoots ==
  IF rising
    THEN IF temperature + 1 > Hottest
           THEN rising' = FALSE /\ temperature' = temperature + 1 - 2
           ELSE rising' = TRUE /\ temperature' = temperature + 1
    ELSE rising' = (temperature - 1 < Coldest) /\ temperature' = temperature - 1

TemperatureStaysDown ==
  IF rising
    THEN IF temperature + 1 > Hottest
           THEN rising' = FALSE /\ temperature' = temperature + 1 - 2
           ELSE rising' = TRUE /\ temperature' = temperature + 1
    ELSE /\ rising' = FALSE
         /\ temperature' = IF temperature - 1 < Coldest THEN temperature - 1 + 2 ELSE temperature - 1

Temperature ==
  IF rising
    THEN IF temperature + 1 > Hottest
           THEN rising' = FALSE /\ temperature' = temperature + 1 - 2
           ELSE rising' = TRUE /\ temperature' = temperature + 1
    ELSE IF temperature - 1 < Coldest
           THEN rising' = TRUE /\ temperature' = temperature - 1 + 2
           ELSE rising' = FALSE /\ temperature' = temperature - 1

TemperatureValueUpdate ==
  /\ calls = {}
  /\ Temperature
  /\ clusterTheme' = 1 - clusterTheme
  /\ turned' = TRUE
  /\ SetTheme(Root, clusterTheme', {})

Next ==
  \/ TemperatureValueUpdate
  \/ (Propagate \/ Scene) /\ UNCHANGED demoVars

\* The calls are synchronous: the event loop comes back after the last.  The timer
\* is repeating.
Fairness ==
  /\ WF_vars(Propagate /\ UNCHANGED demoVars)
  /\ SF_vars(TemperatureValueUpdate)

Spec == Init /\ [][Next]_vars
FairSpec == Spec /\ Fairness

--------------------------------------------------------------------------------
\* The type of the state.
TypeOK ==
  /\ TreeTypeOK
  /\ clusterTheme \in Themes /\ turned \in BOOLEAN
  /\ temperature \in Int /\ rising \in BOOLEAN

\* Once the theme has turned, and style.conf has two, every part below the root
\* shows ClusterData's theme, in its colour where the file has one
\* (main.qml 61, Style.cpp 105-120).
WearsClusterTheme ==
  calls = {} /\ turned /\ SupportsMultipleThemes =>
    \A o \in Parts : Under(o, Root) =>
      /\ theme[o] = clusterTheme
      /\ AccentColor(clusterTheme) # Invalid => accent[o] = AccentColor(clusterTheme)

\* The temperature turns round at its bounds: it moves by one degree and never
\* leaves them (clusterdata.cpp 431-449).
TemperatureSteps ==
  [][temperature' # temperature =>
       /\ temperature' \in Coldest..Hottest
       /\ temperature' - temperature \in {-1, 1}]_vars

\* The temperature keeps going from one bound to the other.
TemperatureSweeps == []<>(temperature = Coldest) /\ []<>(temperature = Hottest)
=============================================================================
