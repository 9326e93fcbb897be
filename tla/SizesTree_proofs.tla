-------------------------- MODULE SizesTree_proofs --------------------------
(***************************************************************************)
(* The scale of the scene, for every tree of parts and every set of        *)
(* scales.                                                                 *)
(***************************************************************************)
EXTENDS SizesTree, AttachedTree_proofs

Called(op, o) == <<op, o>> \in calls

\* A part that differs from the one above is about to be called, and one whose
\* function is of another scale is about to drop it.
Lag ==
  /\ \A o \in Parts : parent[o] \in Parts =>
       (scale[o] # scale[parent[o]] => Called("scale", o) \/ Called("inherit", o))
  /\ \A o \in Live : dp[o] \notin {scale[o], NoFunction} => Called("reset", o)

SizesInv == TypeOK /\ Forest /\ Lag

LEMMA AtRest == ASSUME calls = {}, NEW op, NEW o PROVE ~Called(op, o)
  BY DEF Called

LEMMA CallType ==
  TypeOK <=>
    /\ parent \in [Parts -> Parts \union {Nobody, Absent}] /\ parent[Root] = Nobody
    /\ scale \in [Parts -> Scales] /\ dp \in [Parts -> Scales \union {NoFunction}]
    /\ calls \subseteq {"scale", "inherit", "reset"} \X Parts
    /\ \A o \in Parts : (Called("scale", o) \/ Called("inherit", o)) => parent[o] \in Parts
    /\ \A o \in Parts : Called("reset", o) => o \in Live
<1> DEFINE P == {o \in Parts : parent[o] \in Parts}
           C == ({"scale", "inherit"} \X P) \union ({"reset"} \X Live)
           D == /\ calls \subseteq {"scale", "inherit", "reset"} \X Parts
                /\ \A o \in Parts : (Called("scale", o) \/ Called("inherit", o)) => parent[o] \in Parts
                /\ \A o \in Parts : Called("reset", o) => o \in Live
<1>1. calls \subseteq C => D
  BY DEF Called, Live
<1>2. ASSUME D, NEW c \in calls PROVE c \in C
  <2>1. PICK op \in {"scale", "inherit", "reset"}, o \in Parts : c = <<op, o>>
    BY <1>2
  <2>2. Called(op, o)
    BY <1>2, <2>1 DEF Called
  <2> QED BY <1>2, <2>1, <2>2
<1> QED BY <1>1, <1>2 DEF TypeOK

LEMMA CallType1 ==
  TypeOK' <=>
    /\ parent' \in [Parts -> Parts \union {Nobody, Absent}] /\ parent'[Root] = Nobody
    /\ scale' \in [Parts -> Scales] /\ dp' \in [Parts -> Scales \union {NoFunction}]
    /\ calls' \subseteq {"scale", "inherit", "reset"} \X Parts
    /\ \A o \in Parts : (Called("scale", o)' \/ Called("inherit", o)') => parent'[o] \in Parts
    /\ \A o \in Parts : Called("reset", o)' => o \in Live'
<1> DEFINE P == {o \in Parts : parent'[o] \in Parts}
           C == ({"scale", "inherit"} \X P) \union ({"reset"} \X Live')
           D == /\ calls' \subseteq {"scale", "inherit", "reset"} \X Parts
                /\ \A o \in Parts : (Called("scale", o)' \/ Called("inherit", o)') => parent'[o] \in Parts
                /\ \A o \in Parts : Called("reset", o)' => o \in Live'
<1>1. calls' \subseteq C => D
  BY DEF Called, Live
<1>2. ASSUME D, NEW c \in calls' PROVE c \in C
  <2>1. PICK op \in {"scale", "inherit", "reset"}, o \in Parts : c = <<op, o>>
    BY <1>2
  <2>2. Called(op, o)'
    BY <1>2, <2>1 DEF Called
  <2> QED BY <1>2, <2>1, <2>2
<1> QED BY <1>1, <1>2 DEF TypeOK

LEMMA InitSizes == Init => SizesInv
<1> SUFFICES ASSUME Init PROVE SizesInv
  OBVIOUS
<1>1. \A op, o : ~Called(op, o)
  BY DEF Init, RootAlone, Called
<1>2. TypeOK
  BY <1>1, CallType, PartsAssumption, ScalesAssumption DEF Init, RootAlone
<1>3. \A o \in Parts : parent[o] \notin Parts /\ dp[o] = NoFunction
  BY PartsAssumption DEF Init, RootAlone
<1>4. Lag
  BY <1>3 DEF Lag, Live
<1> QED BY <1>2, <1>4, ForestInit DEF Init, SizesInv

--------------------------------------------------------------------------------
\* A part takes a scale from above and calls those below it, when it has changed or
\* on a call of its own kind.
LEMMA TakesScale ==
  ASSUME SizesInv, NEW o \in Parts, NEW v \in Scales, NEW made \in {"scale", "inherit"},
         UNCHANGED <<parent, dp>>, scale' = [scale EXCEPT ![o] = v],
         parent[o] \in Parts => v = scale[parent[o]], parent[o] # Absent,
         \A op, c : Called(op, c)' => Called(op, c) \/ (op = made /\ parent[c] = o) \/ (op = "reset" /\ c = o),
         \A op, c : Called(op, c) /\ c # o => Called(op, c)', Called("reset", o) => Called("reset", o)',
         calls' \subseteq {"scale", "inherit", "reset"} \X Parts,
         v # scale[o] => Called("reset", o)' /\ \A c \in Parts : parent[c] = o => Called(made, c)'
  PROVE  SizesInv'
<1>1. \A c \in Parts : scale'[c] = IF c = o THEN v ELSE scale[c]
  BY CallType DEF SizesInv
<1>2. TypeOK'
  <2>1. scale' \in [Parts -> Scales]
    BY CallType DEF SizesInv
  <2>2. Live' = Live /\ o \in Live
    BY DEF Live
  <2>3. \A c \in Parts : (Called("scale", c)' \/ Called("inherit", c)') => parent[c] \in Parts
    BY CallType DEF SizesInv
  <2>4. \A c \in Parts : Called("reset", c)' => c \in Live
    BY <2>2, CallType DEF SizesInv
  <2> QED BY <2>1, <2>2, <2>3, <2>4, CallType, CallType1 DEF SizesInv
<1>3. \A c \in Parts : parent[c] \in Parts =>
        (scale'[c] # scale'[parent[c]] => Called("scale", c)' \/ Called("inherit", c)')
  <2> SUFFICES ASSUME NEW c \in Parts, parent[c] \in Parts, scale'[c] # scale'[parent[c]]
               PROVE  Called("scale", c)' \/ Called("inherit", c)'
    OBVIOUS
  <2>1. CASE c = o
    BY <1>1, <2>1
  <2>2. CASE c # o
    BY <1>1, <2>2 DEF SizesInv, Lag
  <2> QED BY <2>1, <2>2
<1>4. \A c \in Live : dp[c] \notin {scale'[c], NoFunction} => Called("reset", c)'
  BY <1>1 DEF SizesInv, Lag, Live
<1> QED BY <1>2, <1>3, <1>4, ForestStays DEF SizesInv, Lag, Live

LEMMA SetScaleStep ==
  ASSUME SizesInv, NEW o \in Parts, NEW v \in Scales, NEW D, SetScale(o, v, D),
         parent[o] # Absent,
         \/ o = Root /\ D = {}
         \/ D = {<<"scale", o>>} /\ v = scale[parent[o]]
  PROVE  SizesInv'
<1>1. /\ UNCHANGED <<parent, dp>> /\ scale' = [scale EXCEPT ![o] = v]
      /\ calls' = (calls \ D) \union (IF v = scale[o] THEN {} ELSE Loop(o))
  BY DEF SetScale
<1>2. \A op, c : Called(op, c)' =>
        Called(op, c) \/ (op = "scale" /\ parent[c] = o) \/ (op = "reset" /\ c = o)
  BY <1>1 DEF Called, Loop, Children
<1>3. /\ \A op, c : Called(op, c) /\ c # o => Called(op, c)'
      /\ Called("reset", o) => Called("reset", o)'
  BY <1>1 DEF Called
<1>4. v # scale[o] => Called("reset", o)' /\ \A c \in Parts : parent[c] = o => Called("scale", c)'
  BY <1>1 DEF Called, Loop, Children
<1>5. calls' \subseteq {"scale", "inherit", "reset"} \X Parts
  BY <1>1, CallType DEF SizesInv, Loop, Children
<1>6. parent[o] \in Parts => v = scale[parent[o]]
  BY CallType, PartsAssumption DEF SizesInv
<1> QED BY <1>1, <1>2, <1>3, <1>4, <1>5, <1>6, TakesScale

LEMMA InheritStep ==
  ASSUME SizesInv, NEW o \in Parts, InheritStyle(o) PROVE SizesInv'
<1>1. /\ Called("inherit", o)
      /\ scale' = [scale EXCEPT ![o] = scale[parent[o]]]
      /\ calls' = (calls \ {<<"inherit", o>>}) \union ({"inherit"} \X Children(o)) \union {<<"reset", o>>}
      /\ UNCHANGED <<parent, dp>>
  BY DEF InheritStyle, Called
<1>2. parent[o] \in Parts /\ parent[o] # Absent /\ scale[parent[o]] \in Scales
  BY <1>1, CallType, PartsAssumption DEF SizesInv
<1>3. \A op, c : Called(op, c)' =>
        Called(op, c) \/ (op = "inherit" /\ parent[c] = o) \/ (op = "reset" /\ c = o)
  BY <1>1 DEF Called, Children
<1>4. /\ \A op, c : Called(op, c) /\ c # o => Called(op, c)'
      /\ Called("reset", o)' /\ \A c \in Parts : parent[c] = o => Called("inherit", c)'
  BY <1>1 DEF Called, Children
<1>5. calls' \subseteq {"scale", "inherit", "reset"} \X Parts
  BY <1>1, CallType DEF SizesInv, Children
<1> QED BY <1>1, <1>2, <1>3, <1>4, <1>5, TakesScale

--------------------------------------------------------------------------------
LEMMA RootStep ==
  ASSUME SizesInv, NEW v \in Scales, RootScale(v) PROVE SizesInv'
<1>1. Root \in Parts /\ parent[Root] # Absent /\ SetScale(Root, v, {})
  BY CallType, PartsAssumption DEF SizesInv, RootScale
<1> QED BY <1>1, SetScaleStep

LEMMA PropagateStep ==
  ASSUME SizesInv, NEW o \in Parts, PropagateScale(o) PROVE SizesInv'
<1>1. Called("scale", o) /\ SetScale(o, scale[parent[o]], {<<"scale", o>>})
  BY DEF PropagateScale, Called
<1>2. parent[o] \in Parts
  BY <1>1, CallType DEF SizesInv
<1>3. parent[o] # Absent /\ scale[parent[o]] \in Scales
  BY <1>2, CallType, PartsAssumption DEF SizesInv
<1> QED BY <1>1, <1>3, SetScaleStep

LEMMA ResetStep ==
  ASSUME SizesInv, NEW o \in Parts, ResetDp(o) PROVE SizesInv'
<1>1. /\ dp' = [dp EXCEPT ![o] = NoFunction] /\ UNCHANGED <<parent, scale>>
      /\ calls' = calls \ {<<"reset", o>>} /\ Live' = Live
  BY DEF ResetDp, Live
<1>2. \A c \in Parts : /\ dp'[c] = IF c = o THEN NoFunction ELSE dp[c]
                       /\ c # o => (Called("reset", c)' <=> Called("reset", c))
                       /\ Called("reset", c)' => Called("reset", c)
                       /\ Called("scale", c)' <=> Called("scale", c)
                       /\ Called("inherit", c)' <=> Called("inherit", c)
  BY <1>1, CallType DEF SizesInv, Called
<1>3. dp' \in [Parts -> Scales \union {NoFunction}]
  BY <1>1, CallType DEF SizesInv
<1>4. calls' \subseteq {"scale", "inherit", "reset"} \X Parts
  BY <1>1, CallType DEF SizesInv
<1>5. TypeOK'
  BY <1>1, <1>2, <1>3, <1>4, CallType, CallType1 DEF SizesInv
<1> QED BY <1>1, <1>2, <1>5, ForestStays DEF SizesInv, Lag, Live

LEMMA DpStep ==
  ASSUME SizesInv, NEW o \in Parts, Dp(o) PROVE SizesInv'
<1>1. /\ dp' = [dp EXCEPT ![o] = scale[o]] /\ UNCHANGED <<parent, calls, scale>>
      /\ Live' = Live
  BY DEF Dp, Live
<1>2. \A op, c : Called(op, c)' <=> Called(op, c)
  BY <1>1 DEF Called
<1>3. dp' \in [Parts -> Scales \union {NoFunction}]
      /\ \A c \in Parts : dp'[c] = IF c = o THEN scale[o] ELSE dp[c]
  BY <1>1, CallType DEF SizesInv
<1>4. TypeOK'
  BY <1>1, <1>2, <1>3, CallType, CallType1 DEF SizesInv
<1> QED BY <1>1, <1>2, <1>3, <1>4, ForestStays DEF SizesInv, Lag, Live

LEMMA CreateStep ==
  ASSUME SizesInv, NEW o \in Parts, NEW p \in Parts \union {Nobody}, Create(o, p) PROVE SizesInv'
<1> DEFINE v == IF p = Nobody THEN 1 ELSE scale[p]
<1>1. /\ parent[o] = Absent /\ p \in Live \union {Nobody} /\ p # o
      /\ parent' = [parent EXCEPT ![o] = p] /\ calls' = calls
      /\ scale' = [scale EXCEPT ![o] = v] /\ dp' = [dp EXCEPT ![o] = NoFunction]
  BY PartsAssumption DEF Create, Attach, Live
<1>2. \A op, c : Called(op, c)' <=> Called(op, c)
  BY <1>1 DEF Called
<1>3. v \in Scales
  BY ScalesAssumption, CallType DEF SizesInv
<1>4. \A c \in Parts : /\ parent'[c] = IF c = o THEN p ELSE parent[c]
                       /\ scale'[c] = IF c = o THEN v ELSE scale[c]
                       /\ dp'[c] = IF c = o THEN NoFunction ELSE dp[c]
  BY <1>1, CallType DEF SizesInv
<1>5. \A c \in Parts : parent[c] # o
  BY <1>1, PartsAssumption DEF SizesInv, Forest, Alive
<1>7. TypeOK'
  <2>1. /\ scale' \in [Parts -> Scales] /\ dp' \in [Parts -> Scales \union {NoFunction}]
        /\ parent' \in [Parts -> Parts \union {Nobody, Absent}]
    BY <1>1, <1>3, CallType DEF SizesInv
  <2>2. parent'[Root] = Nobody
    BY <1>1, <1>4, PartsAssumption, CallType DEF SizesInv
  <2>3. calls' \subseteq {"scale", "inherit", "reset"} \X Parts
    BY <1>1, CallType DEF SizesInv
  <2>4. \A c \in Parts : (Called("scale", c)' \/ Called("inherit", c)') => parent'[c] \in Parts
    BY <1>1, <1>2, <1>4, PartsAssumption, CallType DEF SizesInv
  <2>5. \A c \in Parts : Called("reset", c)' => c \in Live'
    BY <1>1, <1>2, <1>4, PartsAssumption, CallType DEF SizesInv, Live
  <2> QED BY <2>1, <2>2, <2>3, <2>4, <2>5, CallType1
<1>8. Forest'
  BY CallType, ForestAttach DEF Create, SizesInv, ParentType
<1>9. Lag'
  <2>1. \A c \in Parts : parent'[c] \in Parts =>
          (scale'[c] # scale'[parent'[c]] => Called("scale", c)' \/ Called("inherit", c)')
    BY <1>1, <1>2, <1>4, <1>5, PartsAssumption DEF SizesInv, Lag
  <2>2. \A c \in Live' : dp'[c] \notin {scale'[c], NoFunction} => Called("reset", c)'
    BY <1>1, <1>2, <1>4 DEF SizesInv, Lag, Live
  <2> QED BY <2>1, <2>2 DEF Lag
<1> QED BY <1>7, <1>8, <1>9 DEF SizesInv

LEMMA MoveStep ==
  ASSUME SizesInv, NEW o \in Parts, Moves(o), UNCHANGED <<scale, dp>> PROVE SizesInv'
<1>0. Forest'
  BY CallType, ForestMoves DEF SizesInv, ParentType
<1>1. calls = {} /\ \A op, c : ~Called(op, c)
  BY DEF Moves, Reattach, Detach, Destroy, Called
<1>2. /\ \A c \in Parts : parent[c] \in Parts => scale[c] = scale[parent[c]]
      /\ \A c \in Live : dp[c] \in {scale[c], NoFunction}
  BY <1>1 DEF SizesInv, Lag
<1>3. CASE \E p \in Parts : Reattach(o, p)
  <2>1. PICK p \in Parts : Reattach(o, p)
    BY <1>3
  <2>2. /\ o # Root /\ parent[o] = Nobody /\ p \in Live
        /\ parent' = [parent EXCEPT ![o] = p] /\ calls' = {<<"inherit", o>>}
    BY <2>1 DEF Reattach
  <2>3. /\ Called("inherit", o)'
        /\ \A op, c : Called(op, c)' => op = "inherit" /\ c = o
        /\ \A c \in Parts : parent'[c] = IF c = o THEN p ELSE parent[c]
    BY <2>2, CallType DEF SizesInv, Called
  <2>4. TypeOK'
    BY <2>2, <2>3, PartsAssumption, CallType, CallType1 DEF SizesInv
  <2>5. Lag'
    BY <1>2, <2>2, <2>3, PartsAssumption DEF SizesInv, Lag, Live
  <2> QED BY <1>0, <2>4, <2>5 DEF SizesInv
<1>4. CASE Detach(o) \/ Destroy(o)
  <2>1. PICK q \in {Nobody, Absent} :
          /\ parent' = [parent EXCEPT ![o] = q] /\ calls' = calls
          /\ parent[o] # Absent /\ o # Root
          /\ q = Absent => Children(o) = {}
    BY <1>4, PartsAssumption, CallType DEF SizesInv, Detach, Destroy, Live
  <2>2. /\ \A op, c : ~Called(op, c)' /\ calls' = {}
        /\ \A c \in Parts : parent'[c] = IF c = o THEN q ELSE parent[c]
    BY <1>1, <2>1, CallType DEF SizesInv, Called
  <2>3. TypeOK'
    BY <2>1, <2>2, PartsAssumption, CallType, CallType1 DEF SizesInv
  <2>4. Lag'
    BY <1>2, <2>1, <2>2, PartsAssumption DEF SizesInv, Lag, Live
  <2> QED BY <1>0, <2>3, <2>4 DEF SizesInv
<1> QED BY <1>3, <1>4 DEF Moves

LEMMA SizesStep == SizesInv /\ [Next]_vars => SizesInv'
<1> SUFFICES ASSUME SizesInv, [Next]_vars PROVE SizesInv'
  OBVIOUS
<1>1. CASE Propagate
  BY <1>1, PropagateStep, InheritStep, ResetStep DEF Propagate
<1>2. CASE \E v \in Scales : RootScale(v)
  BY <1>2, RootStep
<1>3. CASE \E o \in Parts : Dp(o)
  BY <1>3, DpStep
<1>4. CASE \E o \in Parts : \E p \in Parts \union {Nobody} : Create(o, p)
  BY <1>4, CreateStep
<1>5. CASE \E o \in Parts : Moves(o) /\ UNCHANGED <<scale, dp>>
  BY <1>5, MoveStep
<1>6. CASE UNCHANGED vars
  <2>1. \A op, c : Called(op, c)' <=> Called(op, c)
    BY <1>6 DEF vars, Called
  <2>2. TypeOK' /\ Live' = Live
    BY <1>6 DEF vars, SizesInv, TypeOK, Live
  <2> QED BY <1>6, <2>1, <2>2, ForestStays DEF vars, SizesInv, Lag
<1> QED BY <1>1, <1>2, <1>3, <1>4, <1>5, <1>6 DEF Next

LEMMA SizesInvariant == Spec => []SizesInv
  BY InitSizes, SizesStep, PTL DEF Spec

\* The type of the state (Sizes.cpp 156-189): no call reaches a part that has gone.
THEOREM SizesTypeCorrect == Spec => []TypeOK
<1>1. SizesInv => TypeOK
  BY DEF SizesInv
<1> QED BY <1>1, SizesInvariant, PTL

\* At rest every part has the scale of the part above it (Sizes.cpp 139-189).
THEOREM AlwaysOneScale == Spec => []OneScale
<1>1. SizesInv => OneScale
  BY AtRest DEF SizesInv, Lag, OneScale
<1> QED BY <1>1, SizesInvariant, PTL

\* At rest no function of an older scale is kept (Sizes.cpp 148-154, 171-201).
THEOREM AlwaysDpFresh == Spec => []DpFresh
<1>1. SizesInv => DpFresh
  BY AtRest DEF SizesInv, Lag, DpFresh
<1> QED BY <1>1, SizesInvariant, PTL

\* A window is of one scale: at rest every part has that of all it is under, among
\* them a part that is not attached, and a function it keeps is of that scale too.
WindowOfOneScale ==
  calls = {} => \A o \in Live : \E top \in Parts :
    /\ parent[top] = Nobody /\ Under(o, top)
    /\ \A x \in Parts : Under(x, top) => scale[x] = scale[top]
    /\ dp[o] \in {scale[top], NoFunction}

\* Scale and functions of a whole window, from those of neighbours (Sizes.cpp 139-201).
THEOREM AlwaysWindowOfOneScale == Spec => []WindowOfOneScale
<1>1. SizesInv => WindowOfOneScale
  <2> SUFFICES ASSUME SizesInv, calls = {}, NEW o \in Live
               PROVE  \E top \in Parts :
                        /\ parent[top] = Nobody /\ Under(o, top)
                        /\ \A x \in Parts : Under(x, top) => scale[x] = scale[top]
                        /\ dp[o] \in {scale[top], NoFunction}
    BY DEF WindowOfOneScale
  <2>1. PICK top \in Parts : parent[top] = Nobody /\ Under(o, top)
    BY CallType, HasTop DEF SizesInv, ParentType
  <2>2. ASSUME NEW x \in Parts, Under(x, top) PROVE scale[x] = scale[top]
    <3> DEFINE S == {c \in Parts : scale[c] = scale[top]}
    <3>1. \A c \in Parts : parent[c] \in S => c \in S
      BY AtRest DEF SizesInv, Lag
    <3>2. x \in S
      BY <2>2, <3>1, Downwards
    <3> QED BY <3>2
  <2>3. dp[o] \in {scale[o], NoFunction}
    BY AtRest DEF SizesInv, Lag
  <2> QED BY <2>1, <2>2, <2>3 DEF Live
<1> QED BY <1>1, SizesInvariant, PTL
=============================================================================
