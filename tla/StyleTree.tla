------------------------------ MODULE StyleTree ------------------------------
(***************************************************************************)
(* The Style attached objects: a theme and an accent colour for each part  *)
(* of the scene, copied down the tree.                                     *)
(***************************************************************************)
EXTENDS AttachedTree

Light == 0
Dark == 1
Themes == {Light, Dark}
Garbage == 2   \* what an uninitialised theme may be besides
Colors == {0, 1}
Invalid == -1  \* the colour of a theme without data

VARIABLES
  groups,   \* the themes style.conf has a group for
  colors,   \* [Themes -> the accent colour the group gives it]
  default,  \* StyleDefaults' theme
  theme, accent

treeVars == <<groups, colors, default, parent, theme, accent, calls>>

\* A style.conf without Theme is not read any further, and leaves the theme as it
\* was allocated.  A group without AccentColor, or with one that names no colour, is
\* that of a theme all the same; two may name the same colour.
StyleDefaults ==
  /\ \/ groups \in SUBSET Themes /\ default \in Themes
     \/ groups = {} /\ default \in Themes \union {Garbage}
  /\ colors \in [Themes -> Colors \union {Invalid}]
  /\ \A t \in Themes \ groups : colors[t] = Invalid

\* dataFromTheme() enters the theme it does not find.
Loaded == groups \union {default}
AccentColor(t) == IF t \in Themes THEN colors[t] ELSE Invalid
SupportsMultipleThemes == Cardinality(Loaded) > 1

TreeInit ==
  /\ StyleDefaults
  /\ RootAlone
  /\ theme = [o \in Parts |-> default]
  /\ accent = [o \in Parts |-> AccentColor(default)]

--------------------------------------------------------------------------------
SetAccentColor(o, c, done) ==
  /\ UNCHANGED <<groups, colors, default, parent, theme>>
  /\ IF c \in {accent[o], Invalid}
       THEN UNCHANGED accent /\ calls' = calls \ done
       ELSE /\ accent' = [accent EXCEPT ![o] = c]
            /\ calls' = (calls \ done) \union ({"accent"} \X Children(o))

\* Mutant: only the colour goes down the tree.
SetThemeColorOnly(o, v, done) ==
  /\ UNCHANGED <<groups, colors, default, parent>>
  /\ IF v = theme[o] \/ ~SupportsMultipleThemes
       THEN calls' = calls \ done /\ UNCHANGED <<theme, accent>>
       ELSE /\ theme' = [theme EXCEPT ![o] = v]
            /\ accent' = [accent EXCEPT ![o] = IF AccentColor(v) # Invalid THEN AccentColor(v) ELSE @]
            /\ calls' = (calls \ done) \union ({"accent"} \X Children(o))

\* The colour goes down the tree before the theme does.
SetTheme(o, v, done) ==
  \/ /\ v = theme[o] \/ ~SupportsMultipleThemes
     /\ calls' = calls \ done
     /\ UNCHANGED <<groups, colors, default, parent, theme, accent>>
  \/ /\ v # theme[o] /\ SupportsMultipleThemes
     /\ theme' = [theme EXCEPT ![o] = v]
     /\ \/ /\ AccentColor(v) \in {accent[o], Invalid}
           /\ UNCHANGED accent
           /\ calls' = (calls \ done) \union ({"theme"} \X Children(o))
        \/ /\ AccentColor(v) \notin {accent[o], Invalid}
           /\ accent' = [accent EXCEPT ![o] = AccentColor(v)]
           /\ calls' = (calls \ done) \union ({"theme", "accent"} \X Children(o))
     /\ UNCHANGED <<groups, colors, default, parent>>

\* The value comes from the part above, whose loop makes the call.
PropagateTheme(o) ==
  /\ <<"theme", o>> \in calls
  /\ SetTheme(o, theme[parent[o]], {<<"theme", o>>})

PropagateAccentColor(o) ==
  /\ <<"accent", o>> \in calls
  /\ SetAccentColor(o, accent[parent[o]], {<<"accent", o>>})

\* Mutant: a part that already has the values does not pass them on.
InheritOnce(o) ==
  /\ <<"inherit", o>> \in calls
  /\ theme' = [theme EXCEPT ![o] = theme[parent[o]]]
  /\ accent' = [accent EXCEPT ![o] = accent[parent[o]]]
  /\ calls' = calls \ {<<"inherit", o>>}
  /\ UNCHANGED <<groups, colors, default, parent>>

InheritStyle(o) ==
  /\ <<"inherit", o>> \in calls
  /\ theme' = [theme EXCEPT ![o] = theme[parent[o]]]
  /\ accent' = [accent EXCEPT ![o] = accent[parent[o]]]
  /\ calls' = (calls \ {<<"inherit", o>>}) \union ({"inherit"} \X Children(o))
  /\ UNCHANGED <<groups, colors, default, parent>>

--------------------------------------------------------------------------------
(* What QML does to the tree.                                              *)

\* The constructor takes the defaults, then the values of the part above.
Create(o, p) ==
  /\ Attach(o, p)
  /\ theme' = [theme EXCEPT ![o] = IF p = Nobody THEN default ELSE theme[p]]
  /\ accent' = [accent EXCEPT ![o] = IF p = Nobody THEN AccentColor(default) ELSE accent[p]]
  /\ UNCHANGED <<groups, colors, default>>

Propagate == \E o \in Parts : PropagateTheme(o) \/ PropagateAccentColor(o) \/ InheritStyle(o)

Scene ==
  \E o \in Parts :
    \/ \E p \in Parts \union {Nobody} : Create(o, p)
    \/ Moves(o) /\ UNCHANGED <<groups, colors, default, theme, accent>>

--------------------------------------------------------------------------------
\* The type of the tree.
TreeTypeOK ==
  /\ groups \subseteq Themes /\ default \in Themes \union {Garbage}
  /\ colors \in [Themes -> Colors \union {Invalid}]
  /\ parent \in [Parts -> Parts \union {Nobody, Absent}] /\ parent[Root] = Nobody
  /\ theme \in [Parts -> Themes \union {Garbage}]
  /\ accent \in [Parts -> Colors \union {Invalid}]
  /\ calls \subseteq {"theme", "accent", "inherit"} \X {o \in Parts : parent[o] \in Parts}

\* When the calls are done every part looks like the part it is attached below,
\* whatever came to life between them, and moved or left before (Style.cpp 66-143).
OneLook ==
  calls = {} =>
    \A o \in Parts : parent[o] \in Parts =>
      theme[o] = theme[parent[o]] /\ accent[o] = accent[parent[o]]
=============================================================================
