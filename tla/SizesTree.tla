------------------------------ MODULE SizesTree ------------------------------
(***************************************************************************)
(* The Sizes attached objects: the scale of each part of the scene, and    *)
(* the JavaScript function dp() that a part builds at its first use, with  *)
(* the scale of that moment in its text.  A change of the scale goes down  *)
(* the tree and drops each part's function when its own subtree is done.   *)
(***************************************************************************)
EXTENDS AttachedTree

CONSTANT Scales, NoFunction
ASSUME ScalesAssumption == 1 \in Scales /\ NoFunction \notin Scales

VARIABLES scale, dp

vars == <<parent, calls, scale, dp>>

Init ==
  /\ RootAlone
  /\ scale = [o \in Parts |-> 1]
  /\ dp = [o \in Parts |-> NoFunction]

\* m_dp = QJSValue(), once the loop over the children has ended.
Loop(o) == ({"scale"} \X Children(o)) \union {<<"reset", o>>}

\* Mutants: a change of the scale, and an inherited one, keep the function.
SetScaleKeepsDp(o, v, done) ==
  /\ UNCHANGED <<parent, dp>>
  /\ scale' = [scale EXCEPT ![o] = v]
  /\ calls' = (calls \ done) \union (IF v = scale[o] THEN {} ELSE {"scale"} \X Children(o))

SetScale(o, v, done) ==
  /\ UNCHANGED <<parent, dp>>
  /\ scale' = [scale EXCEPT ![o] = v]
  /\ calls' = (calls \ done) \union (IF v = scale[o] THEN {} ELSE Loop(o))

\* mockedWindows' width changed.
RootScale(v) == calls = {} /\ SetScale(Root, v, {})

PropagateScale(o) == <<"scale", o>> \in calls /\ SetScale(o, scale[parent[o]], {<<"scale", o>>})

\* Mutant: the parts below are left alone.
InheritAlone(o) ==
  /\ <<"inherit", o>> \in calls
  /\ scale' = [scale EXCEPT ![o] = scale[parent[o]]]
  /\ calls' = (calls \ {<<"inherit", o>>}) \union {<<"reset", o>>}
  /\ UNCHANGED <<parent, dp>>

InheritStyle(o) ==
  /\ <<"inherit", o>> \in calls
  /\ scale' = [scale EXCEPT ![o] = scale[parent[o]]]
  /\ calls' = (calls \ {<<"inherit", o>>}) \union ({"inherit"} \X Children(o)) \union {<<"reset", o>>}
  /\ UNCHANGED <<parent, dp>>

ResetDp(o) ==
  /\ <<"reset", o>> \in calls
  /\ dp' = [dp EXCEPT ![o] = NoFunction]
  /\ calls' = calls \ {<<"reset", o>>}
  /\ UNCHANGED <<parent, scale>>

\* A binding asks for the function, also from a handler between two calls.
Dp(o) ==
  /\ o \in Live /\ dp[o] = NoFunction
  /\ dp' = [dp EXCEPT ![o] = scale[o]]
  /\ UNCHANGED <<parent, calls, scale>>

Create(o, p) ==
  /\ Attach(o, p)
  /\ scale' = [scale EXCEPT ![o] = IF p = Nobody THEN 1 ELSE scale[p]]
  /\ dp' = [dp EXCEPT ![o] = NoFunction]

Propagate == \E o \in Parts : PropagateScale(o) \/ InheritStyle(o) \/ ResetDp(o)

Next ==
  \/ Propagate
  \/ \E v \in Scales : RootScale(v)
  \/ \E o \in Parts :
       \/ Dp(o)
       \/ \E p \in Parts \union {Nobody} : Create(o, p)
       \/ Moves(o) /\ UNCHANGED <<scale, dp>>

Spec == Init /\ [][Next]_vars

--------------------------------------------------------------------------------
\* The type of the state.
TypeOK ==
  /\ parent \in [Parts -> Parts \union {Nobody, Absent}] /\ parent[Root] = Nobody
  /\ scale \in [Parts -> Scales] /\ dp \in [Parts -> Scales \union {NoFunction}]
  /\ calls \subseteq ({"scale", "inherit"} \X {o \in Parts : parent[o] \in Parts})
                      \union ({"reset"} \X Live)

\* When the calls are done every part has the scale of the part it is attached below
\* (Sizes.cpp 139-189).
OneScale == calls = {} => \A o \in Parts : parent[o] \in Parts => scale[o] = scale[parent[o]]

\* When the calls are done no part that lives keeps a function of an older scale
\* (Sizes.cpp 148-154, 171-201).
DpFresh == calls = {} => \A o \in Live : dp[o] \in {scale[o], NoFunction}
=============================================================================
