------------------------ MODULE AttachedTree_proofs ------------------------
(***************************************************************************)
(* The shape of the attached objects, for any number of parts: however     *)
(* they come, move and go, they hang below one another without a circle,   *)
(* so that the calls that go down from a part never come back to it, and   *)
(* every part hangs below one that is not attached.                        *)
(***************************************************************************)
EXTENDS AttachedTree, TLAPS

ParentType == parent \in [Parts -> Parts \union {Nobody, Absent}]

\* Only live parts have others below them.
Alive == \A o \in Parts : parent[o] \in Parts => parent[parent[o]] # Absent

\* No parts hang below each other in a circle, nor in a chain without an upper end.
Rooted == \A S \in SUBSET Parts : S # {} => \E o \in S : parent[o] \notin S

Forest == Alive /\ Rooted

LEMMA ForestInit == RootAlone => Forest
  BY PartsAssumption DEF RootAlone, Forest, Alive, Rooted

LEMMA ForestStays == UNCHANGED parent /\ Forest => Forest'
  BY DEF Forest, Alive, Rooted

\* A part that comes has nothing below it.
LEMMA ForestAttach ==
  ASSUME ParentType, Forest, NEW o \in Parts, NEW p \in Parts \union {Nobody}, Attach(o, p)
  PROVE  Forest'
<1>1. parent[o] = Absent /\ p \in Live \union {Nobody} /\ p # o
  BY PartsAssumption DEF Attach, Live
<1>2. \A c \in Parts : parent'[c] = IF c = o THEN p ELSE parent[c]
  BY DEF Attach, ParentType
<1>3. \A c \in Parts : parent[c] # o
  BY <1>1, PartsAssumption DEF Forest, Alive
<1>4. Alive'
  BY <1>1, <1>2, <1>3, PartsAssumption DEF Forest, Alive, Live
<1>5. ASSUME NEW S \in SUBSET Parts, S # {} PROVE \E c \in S : parent'[c] \notin S
  <2>1. CASE p \in S
    <3>1. S \ {o} # {} /\ S \ {o} \in SUBSET Parts
      BY <1>1, <2>1
    <3>2. PICK c \in S \ {o} : parent[c] \notin S \ {o}
      BY <3>1 DEF Forest, Rooted
    <3> QED BY <1>2, <1>3, <3>2
  <2>2. CASE p \notin S
    <3>1. PICK c \in S : parent[c] \notin S
      BY <1>5 DEF Forest, Rooted
    <3> QED BY <1>2, <2>2, <3>1
  <2> QED BY <2>1, <2>2
<1> QED BY <1>4, <1>5 DEF Forest, Rooted

\* A part moves below one that is not below it, and loses the part above it without
\* more ado.
LEMMA ForestMoves ==
  ASSUME ParentType, Forest, NEW o \in Parts, Moves(o) PROVE Forest'
<1>1. ASSUME NEW p \in Parts, Reattach(o, p) PROVE Forest'
  <2>1. /\ parent[o] = Nobody /\ p \in Live /\ ~Under(p, o)
        /\ \A c \in Parts : parent'[c] = IF c = o THEN p ELSE parent[c]
    BY <1>1 DEF Reattach, ParentType
  <2>2. Alive'
    BY <2>1, PartsAssumption DEF Forest, Alive, Live
  <2>3. PICK T \in SUBSET Parts :
          o \in T /\ p \notin T /\ \A x \in Parts : parent[x] \in T => x \in T
    BY <2>1 DEF Under
  <2>4. ASSUME NEW S \in SUBSET Parts, S # {} PROVE \E c \in S : parent'[c] \notin S
    <3>1. CASE p \in S
      <4>1. S \ T # {} /\ S \ T \in SUBSET Parts
        BY <2>3, <3>1
      <4>2. PICK c \in S \ T : parent[c] \notin S \ T
        BY <4>1 DEF Forest, Rooted
      <4>3. parent[c] \notin S /\ c # o
        BY <2>3, <4>2
      <4> QED BY <2>1, <4>2, <4>3
    <3>2. CASE p \notin S
      <4>1. PICK c \in S : parent[c] \notin S
        BY <2>4 DEF Forest, Rooted
      <4> QED BY <2>1, <3>2, <4>1
    <3> QED BY <3>1, <3>2
  <2> QED BY <2>2, <2>4 DEF Forest, Rooted
<1>2. CASE Detach(o) \/ Destroy(o)
  <2>1. PICK q \in {Nobody, Absent} :
          /\ q = Absent => Children(o) = {}
          /\ \A c \in Parts : parent'[c] = IF c = o THEN q ELSE parent[c]
    <3>1. CASE Detach(o)
      <4>1. \A c \in Parts : parent'[c] = IF c = o THEN Nobody ELSE parent[c]
        BY <3>1 DEF Detach, ParentType
      <4> QED BY <4>1, PartsAssumption
    <3>2. CASE Destroy(o)
      <4>1. /\ Children(o) = {}
            /\ \A c \in Parts : parent'[c] = IF c = o THEN Absent ELSE parent[c]
        BY <3>2 DEF Destroy, ParentType
      <4> QED BY <4>1
    <3> QED BY <1>2, <3>1, <3>2
  <2>2. Alive'
    BY <2>1, PartsAssumption DEF Forest, Alive, Children
  <2>3. Rooted'
    BY <2>1, PartsAssumption DEF Forest, Rooted
  <2> QED BY <2>2, <2>3 DEF Forest
<1> QED BY <1>1, <1>2 DEF Moves

-----------------------------------------------------------------------------
\* What goes from a part to those attached below it reaches all that is under it.
LEMMA Downwards ==
  ASSUME NEW S \in SUBSET Parts, NEW p \in S, NEW o, Under(o, p),
         \A x \in Parts : parent[x] \in S => x \in S
  PROVE  o \in S
  BY DEF Under

\* A part is under the one that the part above it is under.
LEMMA UnderAbove ==
  ASSUME NEW o \in Parts, NEW t \in Parts, Under(o, t), parent[t] \in Parts
  PROVE  Under(o, parent[t])
  BY DEF Under

\* Every part that lives is under one that is not attached.
LEMMA HasTop ==
  ASSUME ParentType, Forest, NEW o \in Live
  PROVE  \E t \in Parts : parent[t] = Nobody /\ Under(o, t)
<1> DEFINE Above == {x \in Parts : Under(o, x)}
<1>1. o \in Parts /\ parent[o] # Absent /\ o \in Above
  BY DEF Live, Under
<1>2. PICK t \in Above : parent[t] \notin Above
  BY <1>1 DEF Forest, Rooted
<1>3. parent[t] \notin Parts
  BY <1>1, <1>2, UnderAbove
<1>4. parent[t] # Absent
  <2> SUFFICES ASSUME parent[t] = Absent PROVE FALSE
    OBVIOUS
  <2>1. \A x \in Parts : parent[x] \notin {t}
    BY <1>2 DEF Forest, Alive
  <2>2. o \in {t}
    BY <1>2, <2>1, Downwards
  <2> QED BY <1>1, <2>2
<1> QED BY <1>2, <1>3, <1>4 DEF ParentType
=============================================================================
