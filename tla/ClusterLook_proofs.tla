-------------------------- MODULE ClusterLook_proofs --------------------------
(***************************************************************************)
(* The look of the cluster, for every tree of parts and every style.conf.  *)
(***************************************************************************)
EXTENDS ClusterLook, AttachedTree_proofs

Called(op, o) == <<op, o>> \in calls

\* A part that differs from the one above is about to be called.
Lag ==
  \A o \in Parts : parent[o] \in Parts =>
    /\ theme[o] # theme[parent[o]] => Called("theme", o) \/ Called("inherit", o)
    /\ accent[o] # accent[parent[o]] => Called("accent", o) \/ Called("inherit", o)

Shade == AccentColor(theme[Root])

\* The calls that go down from a change of the root carry the root's values, and
\* the calls of a part that moved are made while there are no others.
Wave ==
  /\ \A o \in Parts : Called("theme", o) =>
       /\ SupportsMultipleThemes /\ theme[parent[o]] = theme[Root]
       /\ Shade # Invalid => accent[parent[o]] = Shade
  /\ \A o \in Parts : Called("accent", o) =>
       Shade # Invalid /\ accent[parent[o]] = Shade
  /\ \A o, q \in Parts : Called("inherit", o) => ~Called("theme", q) /\ ~Called("accent", q)

\* The root's colour is its theme's, and its theme the cluster's.
RootLook ==
  /\ Shade # Invalid => accent[Root] = Shade
  /\ turned /\ SupportsMultipleThemes => theme[Root] = clusterTheme

Warmth == temperature \in Coldest..Hottest

LookInv == TypeOK /\ Forest /\ Lag /\ Wave /\ RootLook /\ Warmth

LEMMA CalledType ==
  ASSUME TypeOK, NEW o \in Parts, NEW op, Called(op, o) PROVE parent[o] \in Parts /\ o # Root
  BY PartsAssumption DEF TypeOK, TreeTypeOK, Called

LEMMA CalledFrom ==
  ASSUME NEW made, NEW o \in Parts, NEW ops,
         calls' = (calls \ {<<made, o>>}) \union (ops \X Children(o))
  PROVE  \A op : \A c \in Parts :
           Called(op, c)' <=> (Called(op, c) /\ ~(op = made /\ c = o)) \/ (op \in ops /\ parent[c] = o)
  BY DEF Called, Children

LEMMA InitLook == Init => LookInv
<1> SUFFICES ASSUME Init PROVE LookInv
  OBVIOUS
<1>1. TypeOK
  <2>1. TreeTypeOK
    BY PartsAssumption DEF Init, TreeInit, RootAlone, StyleDefaults, TreeTypeOK, Themes, Garbage, Invalid,
       AccentColor
  <2>2. turned \in BOOLEAN /\ rising \in BOOLEAN
    BY Zenon DEF Init
  <2> QED BY <2>1, <2>2 DEF Init, TypeOK, Themes, Light
<1>2. \A o \in Parts : parent[o] \notin Parts
  BY PartsAssumption DEF Init, TreeInit, RootAlone
<1>3. \A op, o : ~Called(op, o)
  BY DEF Init, TreeInit, RootAlone, Called
<1>4. RootLook
  BY PartsAssumption DEF Init, TreeInit, RootAlone, RootLook, AccentColor, Shade
<1> QED BY <1>1, <1>2, <1>3, <1>4, ForestInit
       DEF Init, TreeInit, LookInv, Lag, Wave, Warmth, Coldest, Hottest

--------------------------------------------------------------------------------
(* The calls.                                                              *)

\* Every call of a setter, the root's first and the loops' later ones.
LEMMA SetThemeTree ==
  ASSUME LookInv, NEW o \in Parts, NEW v \in Themes \union {Garbage}, NEW D,
         SetTheme(o, v, D), D = {<<"theme", o>>} \/ (D = {} /\ calls = {})
  PROVE  TreeTypeOK' /\ Forest'
<1>1. CASE UNCHANGED <<theme, accent>> /\ calls' = calls \ D
  BY <1>1, ForestStays DEF SetTheme, LookInv, TypeOK, TreeTypeOK
<1>2. CASE /\ theme' = [theme EXCEPT ![o] = v]
           /\ accent' = accent \/ (AccentColor(v) # Invalid /\ accent' = [accent EXCEPT ![o] = AccentColor(v)])
           /\ \/ calls' = (calls \ D) \union ({"theme"} \X Children(o))
              \/ calls' = (calls \ D) \union ({"theme", "accent"} \X Children(o))
  <2>1. UNCHANGED <<groups, colors, default, parent>>
    BY DEF SetTheme
  <2>2. AccentColor(v) \in Colors \union {Invalid}
    BY DEF AccentColor, LookInv, TypeOK, TreeTypeOK
  <2>3. accent' \in [Parts -> Colors \union {Invalid}] /\ theme' \in [Parts -> Themes \union {Garbage}]
    BY <1>2, <2>2 DEF LookInv, TypeOK, TreeTypeOK
  <2>4. calls' \subseteq {"theme", "accent", "inherit"} \X {p \in Parts : parent[p] \in Parts}
    BY <1>2 DEF Children, LookInv, TypeOK, TreeTypeOK
  <2> QED BY <2>1, <2>3, <2>4, ForestStays DEF LookInv, TypeOK, TreeTypeOK
<1> QED BY <1>1, <1>2 DEF SetTheme

LEMMA ThemeStep ==
  ASSUME LookInv, NEW o \in Parts, PropagateTheme(o), UNCHANGED demoVars PROVE LookInv'
<1> DEFINE p == parent[o]
<1>1. p \in Parts /\ o # Root /\ Called("theme", o)
  BY CalledType DEF LookInv, PropagateTheme, Called
<1>2. /\ SupportsMultipleThemes /\ theme[p] = theme[Root]
      /\ Shade # Invalid => accent[p] = Shade
  BY <1>1 DEF LookInv, Wave
<1>3. SetTheme(o, theme[p], {<<"theme", o>>})
  BY DEF PropagateTheme
<1>4. UNCHANGED <<groups, colors, default, parent, clusterTheme, turned, temperature, rising>>
  BY <1>3 DEF SetTheme, demoVars
<1>5. theme[p] \in Themes \union {Garbage} /\ Root \in Parts
  BY <1>1, PartsAssumption DEF LookInv, TypeOK, TreeTypeOK
<1>6. TypeOK' /\ Forest' /\ Warmth'
  BY <1>3, <1>4, <1>5, SetThemeTree DEF LookInv, TypeOK, Warmth
<1>7. /\ \A c \in Parts : theme'[c] = IF c = o THEN theme[Root] ELSE theme[c]
      /\ \A c \in Parts : c # o => accent'[c] = accent[c]
      /\ \/ accent'[o] = accent[o]
         \/ Shade # Invalid /\ accent'[o] = Shade
      /\ theme[o] # theme[Root] /\ Shade # Invalid => accent'[o] = Shade
  <2>1. CASE theme[p] = theme[o] \/ ~SupportsMultipleThemes
    BY <1>2, <1>3, <2>1 DEF SetTheme
  <2>2. CASE theme[p] # theme[o] /\ AccentColor(theme[p]) \in {accent[o], Invalid}
    <3>1. /\ theme' = [theme EXCEPT ![o] = theme[Root]]
          /\ accent' = accent
      BY <1>2, <1>3, <2>2 DEF SetTheme
    <3>2. Shade # Invalid => accent[o] = Shade
      BY <1>2, <2>2 DEF Shade
    <3> QED BY <3>1, <3>2 DEF LookInv, TypeOK, TreeTypeOK
  <2>3. CASE theme[p] # theme[o] /\ AccentColor(theme[p]) \notin {accent[o], Invalid}
    <3>1. /\ theme' = [theme EXCEPT ![o] = theme[Root]]
          /\ accent' = [accent EXCEPT ![o] = AccentColor(theme[Root])]
      BY <1>2, <1>3, <2>3 DEF SetTheme
    <3>2. Shade # Invalid /\ AccentColor(theme[Root]) = Shade
      BY <1>2, <2>3 DEF Shade
    <3> QED BY <3>1, <3>2 DEF LookInv, TypeOK, TreeTypeOK
  <2> QED BY <2>1, <2>2, <2>3
<1>8. /\ \A c \in Parts : Called("inherit", c)' <=> Called("inherit", c)
      /\ \A c \in Parts : Called("theme", c) /\ c # o => Called("theme", c)'
      /\ \A c \in Parts : Called("theme", c)' =>
           Called("theme", c) \/ (parent[c] = o /\ theme[o] # theme[Root])
      /\ \A c \in Parts : theme[o] # theme[Root] /\ parent[c] = o => Called("theme", c)'
      /\ \A c \in Parts : Called("accent", c) => Called("accent", c)'
      /\ \A c \in Parts : Called("accent", c)' =>
           \/ Called("accent", c)
           \/ parent[c] = o /\ Shade # Invalid /\ accent'[o] = Shade
      /\ \A c \in Parts : accent'[o] # accent[o] /\ parent[c] = o => Called("accent", c)'
  <2>1. CASE theme[p] = theme[o] \/ ~SupportsMultipleThemes
    BY <1>2, <1>3, <2>1 DEF SetTheme, Called
  <2>2. CASE theme[p] # theme[o] /\ AccentColor(theme[p]) \in {accent[o], Invalid}
    <3>1. /\ calls' = (calls \ {<<"theme", o>>}) \union ({"theme"} \X Children(o))
          /\ accent' = accent
      BY <1>2, <1>3, <2>2 DEF SetTheme
    <3>2. \A op : \A c \in Parts :
            Called(op, c)' <=> (Called(op, c) /\ ~(op = "theme" /\ c = o)) \/ (op \in {"theme"} /\ parent[c] = o)
      BY <3>1, CalledFrom
    <3> QED BY <1>2, <2>2, <3>1, <3>2
  <2>3. CASE theme[p] # theme[o] /\ AccentColor(theme[p]) \notin {accent[o], Invalid}
    <3>1. calls' = (calls \ {<<"theme", o>>}) \union ({"theme", "accent"} \X Children(o))
      BY <1>2, <1>3, <2>3 DEF SetTheme
    <3>2. Shade # Invalid /\ accent'[o] = Shade
      BY <1>2, <1>7, <2>3 DEF Shade
    <3>3. \A op : \A c \in Parts :
            Called(op, c)' <=> \/ Called(op, c) /\ ~(op = "theme" /\ c = o)
                               \/ op \in {"theme", "accent"} /\ parent[c] = o
      BY <3>1, CalledFrom
    <3> QED BY <1>2, <2>3, <3>2, <3>3
  <2> QED BY <2>1, <2>2, <2>3
<1>9. SupportsMultipleThemes' = SupportsMultipleThemes
  BY <1>4 DEF SupportsMultipleThemes, Loaded
<1>10. Lag'
  <2> SUFFICES ASSUME NEW c \in Parts, parent[c] \in Parts
               PROVE  /\ theme'[c] # theme'[parent[c]] => Called("theme", c)' \/ Called("inherit", c)'
                      /\ accent'[c] # accent'[parent[c]] => Called("accent", c)' \/ Called("inherit", c)'
    BY <1>4 DEF Lag
  <2>1. CASE c = o
    BY <1>1, <1>2, <1>7, <1>8, <2>1 DEF LookInv, Lag
  <2>2. CASE c # o
    BY <1>7, <1>8, <2>2 DEF LookInv, Lag
  <2> QED BY <2>1, <2>2
<1>11. Wave'
  <2>1. \A c \in Parts : Called("theme", c)' => parent[c] \in Parts
    BY <1>1, <1>8, CalledType DEF LookInv
  <2>2. \A c \in Parts : Called("accent", c)' => parent[c] \in Parts
    BY <1>1, <1>8, CalledType DEF LookInv
  <2>3. theme'[Root] = theme[Root]
    BY <1>1, <1>5, <1>7
  <2>4. \A c \in Parts : Called("theme", c)' =>
          theme'[parent[c]] = theme[Root] /\ (Shade # Invalid => accent'[parent[c]] = Shade)
    BY <1>7, <1>8, <2>1 DEF LookInv, Wave
  <2>5. \A c \in Parts : Called("accent", c)' =>
          Shade # Invalid /\ accent'[parent[c]] = Shade
    BY <1>7, <1>8, <2>2 DEF LookInv, Wave
  <2>6. \A c, q \in Parts : Called("inherit", c)' => ~Called("theme", q)' /\ ~Called("accent", q)'
    <3>1. \A c \in Parts : ~Called("inherit", c)'
      BY <1>1, <1>8 DEF LookInv, Wave
    <3> QED BY <3>1
  <2> QED BY <1>2, <1>4, <1>9, <2>3, <2>4, <2>5, <2>6 DEF Wave, Shade, AccentColor
<1>12. RootLook'
  BY <1>1, <1>4, <1>5, <1>7, <1>9 DEF LookInv, RootLook, Shade, AccentColor
<1> QED BY <1>6, <1>10, <1>11, <1>12 DEF LookInv

LEMMA AccentStep ==
  ASSUME LookInv, NEW o \in Parts, PropagateAccentColor(o), UNCHANGED demoVars PROVE LookInv'
<1> DEFINE p == parent[o]
<1>1. p \in Parts /\ o # Root /\ Called("accent", o) /\ Root \in Parts
  BY CalledType, PartsAssumption DEF LookInv, PropagateAccentColor, Called
<1>2. Shade # Invalid /\ accent[p] = Shade
  BY <1>1 DEF LookInv, Wave
<1>3. SetAccentColor(o, accent[p], {<<"accent", o>>})
  BY DEF PropagateAccentColor
<1>4. UNCHANGED <<groups, colors, default, parent, theme, clusterTheme, turned, temperature, rising>>
  BY <1>3 DEF SetAccentColor, demoVars
<1>5. \A c \in Parts : accent'[c] = IF c = o THEN Shade ELSE accent[c]
  BY <1>2, <1>3 DEF SetAccentColor, LookInv, TypeOK, TreeTypeOK
<1>6. TypeOK' /\ Forest' /\ Warmth'
  <2>1. accent' \in [Parts -> Colors \union {Invalid}]
    BY <1>1, <1>3 DEF SetAccentColor, LookInv, TypeOK, TreeTypeOK
  <2>2. calls' \subseteq {"theme", "accent", "inherit"} \X {c \in Parts : parent[c] \in Parts}
    BY <1>1, <1>3 DEF SetAccentColor, Children, LookInv, TypeOK, TreeTypeOK
  <2> QED BY <1>4, <2>1, <2>2, ForestStays DEF LookInv, TypeOK, TreeTypeOK, Warmth
<1>7. /\ \A c \in Parts : Called("inherit", c)' <=> Called("inherit", c)
      /\ \A c \in Parts : Called("theme", c)' <=> Called("theme", c)
      /\ \A c \in Parts : Called("accent", c) /\ c # o => Called("accent", c)'
      /\ \A c \in Parts : Called("accent", c)' => Called("accent", c) \/ parent[c] = o
      /\ \A c \in Parts : accent'[o] # accent[o] /\ parent[c] = o => Called("accent", c)'
  <2>1. CASE accent[p] \in {accent[o], Invalid}
    BY <1>3, <2>1 DEF SetAccentColor, Called
  <2>2. CASE accent[p] \notin {accent[o], Invalid}
    <3>1. calls' = (calls \ {<<"accent", o>>}) \union ({"accent"} \X Children(o))
      BY <1>3, <2>2 DEF SetAccentColor
    <3>2. \A op : \A c \in Parts :
            Called(op, c)' <=> (Called(op, c) /\ ~(op = "accent" /\ c = o)) \/ (op \in {"accent"} /\ parent[c] = o)
      BY <3>1, CalledFrom
    <3> QED BY <3>2
  <2> QED BY <2>1, <2>2
<1>8. SupportsMultipleThemes' = SupportsMultipleThemes
  BY <1>4 DEF SupportsMultipleThemes, Loaded
<1>9. Lag'
  <2> SUFFICES ASSUME NEW c \in Parts, parent[c] \in Parts
               PROVE  /\ theme[c] # theme[parent[c]] => Called("theme", c)' \/ Called("inherit", c)'
                      /\ accent'[c] # accent'[parent[c]] => Called("accent", c)' \/ Called("inherit", c)'
    BY <1>4 DEF Lag
  <2>1. CASE c = o
    BY <1>1, <1>2, <1>5, <1>7, <2>1 DEF LookInv, Lag
  <2>2. CASE c # o
    BY <1>5, <1>7, <2>2 DEF LookInv, Lag
  <2> QED BY <2>1, <2>2
<1>10. Wave'
  <2>1. \A c \in Parts : (Called("theme", c)' \/ Called("accent", c)') => parent[c] \in Parts
    BY <1>1, <1>7, CalledType DEF LookInv
  <2>2. \A c \in Parts : Called("theme", c)' =>
          theme[parent[c]] = theme[Root] /\ accent'[parent[c]] = Shade
    BY <1>2, <1>5, <1>7, <2>1 DEF LookInv, Wave
  <2>3. \A c \in Parts : Called("accent", c)' => accent'[parent[c]] = Shade
    BY <1>5, <1>7, <2>1 DEF LookInv, Wave
  <2>4. \A c \in Parts : ~Called("inherit", c)'
    BY <1>1, <1>7 DEF LookInv, Wave
  <2>5. \A c \in Parts : Called("theme", c)' => SupportsMultipleThemes
    BY <1>7 DEF LookInv, Wave
  <2> QED BY <1>2, <1>4, <1>8, <2>2, <2>3, <2>4, <2>5 DEF Wave, Shade, AccentColor
<1>11. RootLook'
  BY <1>1, <1>4, <1>5, <1>8 DEF LookInv, RootLook, Shade, AccentColor
<1> QED BY <1>6, <1>9, <1>10, <1>11 DEF LookInv

LEMMA InheritStep ==
  ASSUME LookInv, NEW o \in Parts, InheritStyle(o), UNCHANGED demoVars PROVE LookInv'
<1> DEFINE p == parent[o]
<1>1. p \in Parts /\ o # Root /\ Called("inherit", o) /\ Root \in Parts
  BY CalledType, PartsAssumption DEF LookInv, InheritStyle, Called
<1>2. /\ theme' = [theme EXCEPT ![o] = theme[p]]
      /\ accent' = [accent EXCEPT ![o] = accent[p]]
      /\ calls' = (calls \ {<<"inherit", o>>}) \union ({"inherit"} \X Children(o))
      /\ UNCHANGED <<groups, colors, default, parent, clusterTheme, turned, temperature, rising>>
  BY DEF InheritStyle, demoVars
<1>3. TypeOK' /\ Forest' /\ Warmth'
  <2>1. /\ theme' \in [Parts -> Themes \union {Garbage}]
        /\ accent' \in [Parts -> Colors \union {Invalid}]
    BY <1>1, <1>2 DEF LookInv, TypeOK, TreeTypeOK
  <2>2. calls' \subseteq {"theme", "accent", "inherit"} \X {c \in Parts : parent[c] \in Parts}
    BY <1>1, <1>2 DEF Children, LookInv, TypeOK, TreeTypeOK
  <2> QED BY <1>2, <2>1, <2>2, ForestStays DEF LookInv, TypeOK, TreeTypeOK, Warmth
<1>4. /\ \A c \in Parts : Called("inherit", c) /\ c # o => Called("inherit", c)'
      /\ \A c \in Parts : parent[c] = o => Called("inherit", c)'
      /\ \A c \in Parts : ~Called("theme", c)' /\ ~Called("accent", c)'
  <2>1. \A op : \A c \in Parts :
          Called(op, c)' <=> (Called(op, c) /\ ~(op = "inherit" /\ c = o)) \/ (op \in {"inherit"} /\ parent[c] = o)
    BY <1>2, CalledFrom
  <2>2. \A c \in Parts : ~Called("theme", c) /\ ~Called("accent", c)
    BY <1>1 DEF LookInv, Wave
  <2> QED BY <2>1, <2>2
<1>5. /\ \A c \in Parts : theme'[c] = IF c = o THEN theme[p] ELSE theme[c]
      /\ \A c \in Parts : accent'[c] = IF c = o THEN accent[p] ELSE accent[c]
  BY <1>2 DEF LookInv, TypeOK, TreeTypeOK
<1>6. Lag'
  <2> SUFFICES ASSUME NEW c \in Parts, parent[c] \in Parts
               PROVE  /\ theme'[c] # theme'[parent[c]] => Called("theme", c)' \/ Called("inherit", c)'
                      /\ accent'[c] # accent'[parent[c]] => Called("accent", c)' \/ Called("inherit", c)'
    BY <1>2 DEF Lag
  <2>1. CASE c = o \/ parent[c] = o
    BY <1>1, <1>4, <1>5, <2>1
  <2>2. CASE c # o /\ parent[c] # o
    <3>1. ~Called("theme", c) /\ ~Called("accent", c)
      BY <1>1 DEF LookInv, Wave
    <3> QED BY <1>4, <1>5, <2>2, <3>1 DEF LookInv, Lag
  <2> QED BY <2>1, <2>2
<1>7. Wave'
  BY <1>4 DEF Wave
<1>8. RootLook'
  BY <1>1, <1>2, <1>5 DEF LookInv, RootLook, SupportsMultipleThemes, Loaded, Shade, AccentColor
<1> QED BY <1>3, <1>6, <1>7, <1>8 DEF LookInv

--------------------------------------------------------------------------------
(* The timer.                                                              *)

LEMMA AtRest == ASSUME calls = {}, NEW op, NEW o PROVE ~Called(op, o)
  BY DEF Called

LEMMA Turn ==
  ASSUME Warmth, Temperature
  PROVE  temperature' \in Coldest..Hottest /\ temperature' - temperature \in {-1, 1}
<1>1. temperature \in 28..32
  BY DEF Warmth, Coldest, Hottest
<1>2. CASE rising
  <2>1. CASE temperature + 1 > 32
    <3>1. temperature' = temperature + 1 - 2
      BY <1>2, <2>1 DEF Temperature, Hottest
    <3> QED BY <1>1, <2>1, <3>1 DEF Coldest, Hottest
  <2>2. CASE ~(temperature + 1 > 32)
    <3>1. temperature' = temperature + 1
      BY <1>2, <2>2 DEF Temperature, Hottest
    <3> QED BY <1>1, <2>2, <3>1 DEF Coldest, Hottest
  <2> QED BY <2>1, <2>2
<1>3. CASE ~rising
  <2>1. CASE temperature - 1 < 28
    <3>1. temperature' = temperature - 1 + 2
      BY <1>3, <2>1 DEF Temperature, Coldest
    <3> QED BY <1>1, <2>1, <3>1 DEF Coldest, Hottest
  <2>2. CASE ~(temperature - 1 < 28)
    <3>1. temperature' = temperature - 1
      BY <1>3, <2>2 DEF Temperature, Coldest
    <3> QED BY <1>1, <2>2, <3>1 DEF Coldest, Hottest
  <2> QED BY <2>1, <2>2
<1> QED BY <1>2, <1>3

LEMMA TimerStep == ASSUME LookInv, TemperatureValueUpdate PROVE LookInv'
<1>1. /\ calls = {} /\ Temperature /\ turned' = TRUE
      /\ clusterTheme' = 1 - clusterTheme /\ SetTheme(Root, clusterTheme', {})
  BY DEF TemperatureValueUpdate
<1> DEFINE v == clusterTheme'
<1>2. v \in Themes /\ Root \in Parts /\ parent[Root] = Nobody
  BY <1>1, PartsAssumption DEF LookInv, TypeOK, TreeTypeOK, Themes, Light, Dark
<1>3. UNCHANGED <<groups, colors, default, parent>>
  BY <1>1 DEF SetTheme
<1>4. TreeTypeOK' /\ Forest'
  BY <1>1, <1>2, SetThemeTree
<1>5. temperature' \in Coldest..Hottest /\ rising' \in BOOLEAN
  <2>1. temperature' \in Coldest..Hottest
    BY <1>1, Turn DEF LookInv
  <2>2. rising' \in BOOLEAN
    BY <1>1, Zenon DEF Temperature
  <2> QED BY <2>1, <2>2
<1>6. TypeOK' /\ Warmth'
  <2>1. turned' \in BOOLEAN
    BY <1>1, Zenon
  <2> QED BY <1>2, <1>4, <1>5, <2>1 DEF TypeOK, Warmth, Coldest, Hottest
<1>7. SupportsMultipleThemes' = SupportsMultipleThemes
  BY <1>3 DEF SupportsMultipleThemes, Loaded
<1>8. CASE v = theme[Root] \/ ~SupportsMultipleThemes
  <2>1. UNCHANGED <<theme, accent, calls>>
    BY <1>1, <1>8 DEF SetTheme
  <2>2. \A op, o : ~Called(op, o)'
    BY <1>1, <2>1, AtRest DEF Called
  <2>3. Lag'
    BY <1>1, <1>3, <2>1, AtRest DEF LookInv, Lag
  <2>4. RootLook'
    BY <1>3, <1>7, <1>8, <2>1 DEF LookInv, RootLook, Shade, AccentColor
  <2> QED BY <1>4, <1>6, <2>2, <2>3, <2>4 DEF LookInv, Wave
<1>9. CASE v # theme[Root] /\ SupportsMultipleThemes
  <2>1. theme' = [theme EXCEPT ![Root] = v]
    BY <1>1, <1>9 DEF SetTheme
  <2>2. \/ accent' = accent /\ AccentColor(v) \in {accent[Root], Invalid}
           /\ calls' = {"theme"} \X Children(Root)
        \/ accent' = [accent EXCEPT ![Root] = AccentColor(v)] /\ AccentColor(v) # Invalid
           /\ calls' = {"theme", "accent"} \X Children(Root)
    BY <1>1, <1>9 DEF SetTheme
  <2>3. /\ theme'[Root] = v
        /\ AccentColor(v) # Invalid => accent'[Root] = AccentColor(v)
    BY <1>2, <2>1, <2>2 DEF LookInv, TypeOK, TreeTypeOK
  <2>4. \A c \in Parts : c # Root => theme'[c] = theme[c] /\ accent'[c] = accent[c]
    BY <2>1, <2>2 DEF LookInv, TypeOK, TreeTypeOK
  <2>5. /\ \A c \in Parts : Called("theme", c)' <=> parent[c] = Root
        /\ \A c \in Parts : ~Called("inherit", c)'
        /\ \A c \in Parts : Called("accent", c)' => parent[c] = Root /\ AccentColor(v) # Invalid
        /\ accent'[Root] # accent[Root] => \A c \in Parts : parent[c] = Root => Called("accent", c)'
    <3>1. CASE accent' = accent /\ calls' = {"theme"} \X Children(Root)
      BY <3>1 DEF Called, Children
    <3>2. CASE AccentColor(v) # Invalid /\ calls' = {"theme", "accent"} \X Children(Root)
      BY <3>2 DEF Called, Children
    <3> QED BY <2>2, <3>1, <3>2
  <2>6. \A c \in Parts : parent[c] \in Parts => theme[c] = theme[parent[c]] /\ accent[c] = accent[parent[c]]
    BY <1>1, AtRest DEF LookInv, Lag
  <2>7. Lag'
    <3> SUFFICES ASSUME NEW c \in Parts, parent[c] \in Parts
                 PROVE  /\ theme'[c] # theme'[parent[c]] => Called("theme", c)'
                        /\ accent'[c] # accent'[parent[c]] => Called("accent", c)'
      BY <1>3 DEF Lag
    <3>1. c # Root
      BY <1>2, PartsAssumption
    <3> QED BY <2>4, <2>5, <2>6, <3>1
  <2>8. Wave'
    BY <1>3, <1>7, <1>9, <2>3, <2>5 DEF Wave, Shade, AccentColor
  <2>9. RootLook'
    BY <1>3, <2>3 DEF RootLook, Shade, AccentColor
  <2> QED BY <1>4, <1>6, <2>7, <2>8, <2>9 DEF LookInv
<1> QED BY <1>8, <1>9

--------------------------------------------------------------------------------
(* The scene.                                                              *)

LEMMA CreateStep ==
  ASSUME LookInv, NEW o \in Parts, NEW p \in Parts \union {Nobody}, Create(o, p), UNCHANGED demoVars
  PROVE  LookInv'
<1>1. /\ parent[o] = Absent /\ p \in Live \union {Nobody}
      /\ parent' = [parent EXCEPT ![o] = p]
      /\ UNCHANGED <<groups, colors, default, calls, clusterTheme, turned, temperature, rising>>
  BY DEF Create, Attach, demoVars
<1>2. /\ o # Root /\ p # o
      /\ \A c \in Parts : parent[c] # o
  BY <1>1, PartsAssumption DEF Live, LookInv, TypeOK, TreeTypeOK, Forest, Alive
<1>3. /\ \A c \in Parts : parent'[c] = IF c = o THEN p ELSE parent[c]
      /\ \A c \in Parts : c # o => theme'[c] = theme[c] /\ accent'[c] = accent[c]
      /\ p \in Parts => theme'[o] = theme[p] /\ accent'[o] = accent[p]
  <2>1. /\ theme' = [theme EXCEPT ![o] = IF p = Nobody THEN default ELSE theme[p]]
        /\ accent' = [accent EXCEPT ![o] = IF p = Nobody THEN AccentColor(default) ELSE accent[p]]
    BY DEF Create
  <2>2. \A c \in Parts : parent'[c] = IF c = o THEN p ELSE parent[c]
    BY <1>1 DEF LookInv, TypeOK, TreeTypeOK
  <2>3. theme'[o] = (IF p = Nobody THEN default ELSE theme[p])
        /\ \A c \in Parts : c # o => theme'[c] = theme[c]
    BY <2>1 DEF LookInv, TypeOK, TreeTypeOK
  <2>4. accent'[o] = (IF p = Nobody THEN AccentColor(default) ELSE accent[p])
        /\ \A c \in Parts : c # o => accent'[c] = accent[c]
    BY <2>1 DEF LookInv, TypeOK, TreeTypeOK
  <2> QED BY <2>2, <2>3, <2>4, PartsAssumption
<1>4. TypeOK' /\ Warmth'
  <2>1. AccentColor(default) \in Colors \union {Invalid}
    BY DEF AccentColor, LookInv, TypeOK, TreeTypeOK
  <2>2. theme' \in [Parts -> Themes \union {Garbage}] /\ accent' \in [Parts -> Colors \union {Invalid}]
    BY <2>1 DEF Create, LookInv, TypeOK, TreeTypeOK, Live
  <2>3. parent' \in [Parts -> Parts \union {Nobody, Absent}] /\ parent'[Root] = Nobody
    BY <1>1, <1>2, PartsAssumption DEF LookInv, TypeOK, TreeTypeOK
  <2>4. \A c \in Parts : parent[c] \in Parts => parent'[c] \in Parts
    BY <1>1, <1>3, PartsAssumption
  <2>5. calls' \subseteq {"theme", "accent", "inherit"} \X {c \in Parts : parent'[c] \in Parts}
    BY <1>1, <2>4 DEF LookInv, TypeOK, TreeTypeOK
  <2> QED BY <1>1, <2>2, <2>3, <2>5 DEF LookInv, TypeOK, TreeTypeOK, Warmth
<1>5. Forest'
  BY ForestAttach DEF Create, LookInv, TypeOK, TreeTypeOK, ParentType
<1>6. \A op, c : Called(op, c)' <=> Called(op, c)
  BY <1>1 DEF Called
<1>7. ~Called("theme", o) /\ ~Called("accent", o) /\ ~Called("inherit", o)
  BY <1>1, CalledType, PartsAssumption DEF LookInv
<1>8. Lag'
  BY <1>2, <1>3, <1>6 DEF LookInv, Lag
<1>9. Wave'
  <2>1. theme'[Root] = theme[Root] /\ SupportsMultipleThemes' = SupportsMultipleThemes
    BY <1>1, <1>2, <1>3, PartsAssumption DEF SupportsMultipleThemes, Loaded
  <2>2. \A c \in Parts : (Called("theme", c) \/ Called("accent", c)) =>
          parent[c] \in Parts /\ parent'[c] = parent[c] /\ parent[c] # o /\ c # o
    BY <1>2, <1>3, <1>7, CalledType DEF LookInv
  <2>3. \A c \in Parts : Called("theme", c)' =>
          SupportsMultipleThemes' /\ theme'[parent'[c]] = theme'[Root]
          /\ (Shade' # Invalid => accent'[parent'[c]] = Shade')
    BY <1>1, <1>3, <1>6, <2>1, <2>2 DEF LookInv, Wave, Shade, AccentColor
  <2>4. \A c \in Parts : Called("accent", c)' =>
          Shade' # Invalid /\ accent'[parent'[c]] = Shade'
    BY <1>1, <1>3, <1>6, <2>1, <2>2 DEF LookInv, Wave, Shade, AccentColor
  <2> QED BY <1>6, <2>3, <2>4 DEF LookInv, Wave
<1>10. RootLook'
  BY <1>1, <1>2, <1>3, PartsAssumption DEF LookInv, RootLook, SupportsMultipleThemes, Loaded, Shade, AccentColor
<1> QED BY <1>4, <1>5, <1>8, <1>9, <1>10 DEF LookInv

LEMMA MoveStep ==
  ASSUME LookInv, NEW o \in Parts, UNCHANGED demoVars,
         Moves(o), UNCHANGED <<groups, colors, default, theme, accent>>
  PROVE  LookInv'
<1>1. /\ calls = {} /\ UNCHANGED <<groups, colors, default, theme, accent, clusterTheme, turned, temperature, rising>>
      /\ o # Root
  BY PartsAssumption DEF Moves, Reattach, Detach, Destroy, demoVars, LookInv, TypeOK, TreeTypeOK
<1> DEFINE Moved(q) ==
             /\ parent' = [parent EXCEPT ![o] = q]
             /\ \/ q = Nobody /\ calls' = {}
                \/ q = Absent /\ calls' = {} /\ Children(o) = {}
                \/ q \in Live /\ calls' = {<<"inherit", o>>} /\ parent[o] = Nobody
<1>2. PICK q \in Parts \union {Nobody, Absent} : Moved(q)
  <2>1. ASSUME NEW p \in Parts, Reattach(o, p)
        PROVE  Moved(p)
    BY <2>1 DEF Reattach
  <2>2. CASE Detach(o)
    <3>1. Moved(Nobody)
      BY <1>1, <2>2 DEF Detach
    <3> QED BY <3>1
  <2>3. CASE Destroy(o)
    <3>1. Moved(Absent)
      BY <1>1, <2>3 DEF Destroy
    <3> QED BY <3>1
  <2> HIDE DEF Moved
  <2> QED BY <2>1, <2>2, <2>3 DEF Moves
<1>3. \A c \in Parts : parent'[c] = IF c = o THEN q ELSE parent[c]
  BY <1>2 DEF LookInv, TypeOK, TreeTypeOK
<1>4. /\ \A c \in Parts : ~Called("theme", c)' /\ ~Called("accent", c)'
      /\ q \in Parts => Called("inherit", o)'
  BY <1>2, PartsAssumption DEF Called
<1>5. TypeOK' /\ Warmth'
  <2>1. parent' \in [Parts -> Parts \union {Nobody, Absent}] /\ parent'[Root] = Nobody
    BY <1>1, <1>2, PartsAssumption DEF LookInv, TypeOK, TreeTypeOK
  <2>2. calls' \subseteq {"theme", "accent", "inherit"} \X {c \in Parts : parent'[c] \in Parts}
    BY <1>2, <1>3 DEF Live
  <2> QED BY <1>1, <2>1, <2>2 DEF LookInv, TypeOK, TreeTypeOK, Warmth
<1>6. Forest'
  BY ForestMoves DEF LookInv, TypeOK, TreeTypeOK, ParentType
<1>7. Lag'
  <2>1. \A c \in Parts : parent[c] \in Parts => theme[c] = theme[parent[c]] /\ accent[c] = accent[parent[c]]
    BY <1>1, AtRest DEF LookInv, Lag
  <2> QED BY <1>1, <1>3, <1>4, <2>1 DEF Lag
<1>8. Wave' /\ RootLook'
  BY <1>1, <1>4 DEF LookInv, Wave, RootLook, SupportsMultipleThemes, Loaded, Shade, AccentColor
<1> QED BY <1>5, <1>6, <1>7, <1>8 DEF LookInv

--------------------------------------------------------------------------------
LEMMA LookStep == LookInv /\ [Next]_vars => LookInv'
<1> SUFFICES ASSUME LookInv, [Next]_vars PROVE LookInv'
  OBVIOUS
<1>1. CASE Next
  BY <1>1, ThemeStep, AccentStep, InheritStep, TimerStep, CreateStep, MoveStep
  DEF Next, Propagate, Scene
<1>2. CASE UNCHANGED vars
  BY <1>2, ForestStays DEF vars, treeVars, demoVars, LookInv, TypeOK, TreeTypeOK, Lag, Wave, RootLook,
     Warmth, Called, SupportsMultipleThemes, Loaded, Shade, AccentColor
<1> QED BY <1>1, <1>2

LEMMA LookInvariant == Spec => []LookInv
  BY InitLook, LookStep, PTL DEF Spec

\* The state keeps its type; in particular no call is ever due to a part that is gone.
THEOREM LookTypeCorrect == Spec => []TypeOK
<1>1. LookInv => TypeOK
  BY DEF LookInv
<1> QED BY <1>1, LookInvariant, PTL

\* In a scene of any shape the parts look alike when the calls are done.
THEOREM AlwaysOneLook == Spec => []OneLook
<1>1. LookInv => OneLook
  BY AtRest DEF LookInv, Lag, OneLook
<1> QED BY <1>1, LookInvariant, PTL

\* All that hangs below the root wears the cluster's theme.
THEOREM AlwaysClusterTheme == Spec => []WearsClusterTheme
<1>1. LookInv => WearsClusterTheme
  <2> SUFFICES ASSUME LookInv, calls = {}, turned, SupportsMultipleThemes,
                      NEW o \in Parts, Under(o, Root)
               PROVE  /\ theme[o] = clusterTheme
                      /\ AccentColor(clusterTheme) # Invalid => accent[o] = AccentColor(clusterTheme)
    BY DEF WearsClusterTheme
  <2> DEFINE S == {x \in Parts : theme[x] = theme[Root] /\ accent[x] = accent[Root]}
  <2>1. Root \in S
    BY PartsAssumption
  <2>2. \A x \in Parts : parent[x] \in S => x \in S
    BY AtRest DEF LookInv, Lag
  <2>3. o \in S
    BY <2>1, <2>2, Downwards
  <2> QED BY <2>3 DEF LookInv, RootLook, Shade, AccentColor
<1> QED BY <1>1, LookInvariant, PTL

\* A window is of one look: at rest every part, of whatever age and with whatever past,
\* has the theme and the colour of all it is under, among them a part that is not
\* attached.
WindowOfOneLook ==
  calls = {} => \A o \in Live : \E top \in Parts :
    /\ parent[top] = Nobody /\ Under(o, top)
    /\ \A x \in Parts : Under(x, top) => theme[x] = theme[top] /\ accent[x] = accent[top]

\* The look of a whole window, from that of neighbours (Style.cpp 66-143), and not only
\* of the window the cluster's theme is handed to.
THEOREM AlwaysWindowOfOneLook == Spec => []WindowOfOneLook
<1>1. LookInv => WindowOfOneLook
  <2> SUFFICES ASSUME LookInv, calls = {}, NEW o \in Live
               PROVE  \E top \in Parts :
                        /\ parent[top] = Nobody /\ Under(o, top)
                        /\ \A x \in Parts : Under(x, top) =>
                             theme[x] = theme[top] /\ accent[x] = accent[top]
    BY DEF WindowOfOneLook
  <2>1. PICK top \in Parts : parent[top] = Nobody /\ Under(o, top)
    BY HasTop DEF LookInv, TypeOK, TreeTypeOK, ParentType
  <2>2. ASSUME NEW x \in Parts, Under(x, top)
        PROVE  theme[x] = theme[top] /\ accent[x] = accent[top]
    <3> DEFINE S == {c \in Parts : theme[c] = theme[top] /\ accent[c] = accent[top]}
    <3>1. \A c \in Parts : parent[c] \in S => c \in S
      BY AtRest DEF LookInv, Lag
    <3>2. x \in S
      BY <2>2, <3>1, Downwards
    <3> QED BY <3>2
  <2> QED BY <2>1, <2>2
<1> QED BY <1>1, LookInvariant, PTL

\* The temperature stays between its bounds and moves by one degree.
THEOREM AlwaysSteps == Spec => TemperatureSteps
<1>1. LookInv /\ [Next]_vars =>
        [temperature' # temperature =>
           temperature' \in Coldest..Hottest /\ temperature' - temperature \in {-1, 1}]_vars
  <2> SUFFICES ASSUME LookInv, TemperatureValueUpdate
               PROVE  temperature' \in Coldest..Hottest /\ temperature' - temperature \in {-1, 1}
    BY DEF Next, demoVars, vars
  <2> QED BY Turn DEF TemperatureValueUpdate, LookInv
<1> QED BY <1>1, LookInvariant, PTL DEF Spec, TemperatureSteps

-----------------------------------------------------------------------------
\* Turns of the timer until the temperature is at a bound: straight on, or round by
\* way of the other one.
ToHottest == IF rising THEN Hottest - temperature ELSE temperature - Coldest + 4
ToColdest == IF rising THEN Hottest - temperature + 4 ELSE temperature - Coldest

Counted ==
  /\ ToHottest \in 0..7 /\ (ToHottest = 0 <=> temperature = Hottest)
  /\ ToColdest \in 0..7 /\ (ToColdest = 0 <=> temperature = Coldest)

\* Each turn of the timer is one less to either bound, and nothing else counts.
SweepsOn ==
  /\ TemperatureValueUpdate =>
       /\ temperature # Hottest => ToHottest' = ToHottest - 1
       /\ temperature # Coldest => ToColdest' = ToColdest - 1
  /\ ~TemperatureValueUpdate => UNCHANGED <<temperature, rising>>

\* The temperature is at a bound only with the turn still to be made there.
Swing ==
  /\ temperature \in 28..32 /\ rising \in BOOLEAN
  /\ temperature = 32 => rising
  /\ temperature = 28 => ~rising

LEMMA SwingTurns ==
  ASSUME Swing, Temperature
  PROVE  /\ Swing'
         /\ temperature # Hottest => ToHottest' = ToHottest - 1
         /\ temperature # Coldest => ToColdest' = ToColdest - 1
<1> USE DEF Swing, Coldest, Hottest, ToHottest, ToColdest
<1>1. CASE rising
  <2>1. CASE temperature = 32
    <3>1. rising' = FALSE /\ temperature' = 31
      BY <1>1, <2>1 DEF Temperature
    <3>2. ~rising' /\ rising' \in BOOLEAN
      BY <3>1
    <3> QED BY <1>1, <2>1, <3>1, <3>2
  <2>2. CASE temperature \in 29..31
    <3>1. rising' = TRUE /\ temperature' = temperature + 1
      BY <1>1, <2>2 DEF Temperature
    <3> QED BY <1>1, <2>2, <3>1
  <2> QED BY <1>1, <2>1, <2>2
<1>2. CASE ~rising
  <2>1. CASE temperature = 28
    <3>1. rising' = TRUE /\ temperature' = 29
      BY <1>2, <2>1 DEF Temperature
    <3> QED BY <1>2, <2>1, <3>1
  <2>2. CASE temperature \in 29..31
    <3>1. rising' = FALSE /\ temperature' = temperature - 1
      BY <1>2, <2>2 DEF Temperature
    <3>2. ~rising' /\ rising' \in BOOLEAN
      BY <3>1
    <3> QED BY <1>2, <2>2, <3>1, <3>2
  <2> QED BY <1>2, <2>1, <2>2
<1> QED BY <1>1, <1>2

\* The sweep from one bound to the other takes four turns of the timer, and is as far
\* as the count says at each of them (clusterdata.cpp 431-449).
THEOREM SweepCounts == Spec => []Counted /\ [][SweepsOn]_vars
<1>1. Init => Swing
  BY DEF Init, Swing
<1>2. ASSUME Swing, [Next]_vars PROVE Swing' /\ [SweepsOn]_vars
  <2>1. CASE TemperatureValueUpdate
    BY <1>2, <2>1, SwingTurns DEF TemperatureValueUpdate, SweepsOn
  <2>2. CASE ~TemperatureValueUpdate
    <3>1. UNCHANGED <<temperature, rising>>
      BY <1>2, <2>2 DEF Next, demoVars, vars
    <3> QED BY <1>2, <2>2, <3>1 DEF Swing, SweepsOn
  <2> QED BY <2>1, <2>2
<1>3. Swing => Counted
  BY DEF Swing, Counted, ToHottest, ToColdest, Coldest, Hottest
<1>4. Swing /\ [Next]_vars => Swing' /\ [SweepsOn]_vars
  BY <1>2
<1> QED BY <1>1, <1>3, <1>4, PTL DEF Spec
=============================================================================
