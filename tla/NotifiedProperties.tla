------------------------- MODULE NotifiedProperties -------------------------
(***************************************************************************)
(* What the cluster promises about the properties that one thread writes   *)
(* and another shows: no queue, no handlers, no signals by name.  A write  *)
(* is never silent, a binding only ever shows what the member holds at the *)
(* moment it looks, and it is due another look as long as the member may   *)
(* have changed since.                                                     *)
(***************************************************************************)
CONSTANT Props

VARIABLES
  member,  \* [Props -> the value behind the property]
  shown,   \* [Props -> the value on the screen]
  live,    \* the properties something on the screen is bound to
  due      \* those that are to be looked at again

propertyVars == <<member, shown, live, due>>

Init == member = [p \in Props |-> member[p]] /\ shown = member /\ live \subseteq Props /\ due = {}

\* A written property is due a look.
Write ==
  /\ \E p \in Props \intersect due' :
       /\ due' = due \union {p}
       /\ member' = [member EXCEPT ![p] = member'[p]]
  /\ UNCHANGED <<shown, live>>

\* A look takes the value of the moment, and may leave another one due.
Refresh ==
  /\ \E p \in live \intersect due :
       /\ shown' = [shown EXCEPT ![p] = member[p]]
       /\ due' \in {due, due \ {p}}
  /\ UNCHANGED <<member, live>>

\* Nobody looks at what is not on the screen.
Miss ==
  /\ \E p \in due \ live : due' = due \ {p}
  /\ UNCHANGED <<member, shown, live>>

\* An application comes on the screen with the values of that moment.
Load ==
  /\ live \subseteq live' /\ live' \subseteq Props
  /\ shown' = [p \in Props |-> IF p \in live' \ live THEN member[p] ELSE shown[p]]
  /\ UNCHANGED <<member, due>>

Next == Write \/ Refresh \/ Miss \/ Load

Spec == Init /\ [][Next]_propertyVars

\* The screen is right, or about to be looked at again.
Fresh == \A p \in live : shown[p] # member[p] => p \in due
=============================================================================
