---------------------------- MODULE AttachedTree ----------------------------
(***************************************************************************)
(* QQuickAttachedObject, beneath Style and Sizes: every part of the scene  *)
(* that names the attached type has an object, attached below that of the  *)
(* nearest part above.  A change goes down the tree in synchronous calls.  *)
(* Handlers of the change signals run between two of them and may bring    *)
(* new parts to life; parts move while no call is under way.  calls holds  *)
(* the calls the loops over attachedChildren() have yet to make, in any    *)
(* order: a call reads the value of the part above when it is made.        *)
(***************************************************************************)
EXTENDS Integers, FiniteSets

CONSTANTS Parts, Root, Nobody, Absent
ASSUME PartsAssumption == Root \in Parts /\ Nobody \notin Parts /\ Absent \notin Parts
                          /\ Nobody # Absent

VARIABLES
  parent,  \* [Parts -> the part it is attached below, Nobody, or Absent]
  calls    \* of <<the call, part>>

RootAlone == parent = [o \in Parts |-> IF o = Root THEN Nobody ELSE Absent] /\ calls = {}

Children(o) == {c \in Parts : parent[c] = o}
Live == {o \in Parts : parent[o] # Absent}

\* o is p or below it.
Under(o, p) ==
  \A S \in SUBSET Parts :
    p \in S /\ (\A x \in Parts : parent[x] \in S => x \in S) => o \in S

Attach(o, p) ==
  /\ parent[o] = Absent /\ p \in Live \union {Nobody}
  /\ parent' = [parent EXCEPT ![o] = p]
  /\ UNCHANGED calls

\* attachedParentChange() of the part that moved is the first call.
Reattach(o, p) ==
  /\ calls = {}
  /\ o # Root /\ parent[o] = Nobody /\ p \in Live /\ ~Under(p, o)
  /\ parent' = [parent EXCEPT ![o] = p]
  /\ calls' = {<<"inherit", o>>}

\* Losing the part above changes no value.
Detach(o) ==
  /\ calls = {}
  /\ parent[o] \in Parts
  /\ parent' = [parent EXCEPT ![o] = Nobody]
  /\ UNCHANGED calls

\* Mutant: a part may go while a loop is about to call it.
DestroyAnyTime(o) ==
  /\ o # Root /\ o \in Live /\ Children(o) = {}
  /\ parent' = [parent EXCEPT ![o] = Absent]
  /\ UNCHANGED calls

\* deleteLater() waits for the event loop.
Destroy(o) ==
  /\ calls = {}
  /\ o # Root /\ o \in Live /\ Children(o) = {}
  /\ parent' = [parent EXCEPT ![o] = Absent]
  /\ UNCHANGED calls

Moves(o) == (\E p \in Parts : Reattach(o, p)) \/ Detach(o) \/ Destroy(o)
=============================================================================
