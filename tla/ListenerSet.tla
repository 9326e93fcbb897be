----------------------------- MODULE ListenerSet -----------------------------
(***************************************************************************)
(* What an event promises to those who listen to it, without maps, pending *)
(* sets or locks.  There is one set of listeners, and who subscribes or    *)
(* leaves does so at once.  A notification takes its turn with the         *)
(* listeners of that moment, comes to each of them once, in the order in   *)
(* which they subscribed, and then gives the turn back.                    *)
(***************************************************************************)
EXTENDS Integers

CONSTANTS Notifiers, Nobody

VARIABLES
  given,      \* subscriptions given out: 0..given - 1
  listening,  \* those of them that are subscribed
  turn,       \* the notification under way, or Nobody
  due         \* whom it has yet to come to

listenerVars == <<given, listening, turn, due>>

Init == given = 0 /\ listening = {} /\ turn = Nobody /\ due = {}

Subscribe ==
  /\ listening' = listening \union {given}
  /\ given' = given + 1
  /\ UNCHANGED <<turn, due>>

Unsubscribe ==
  /\ \E k \in listening : listening' = listening \ {k}
  /\ UNCHANGED <<given, turn, due>>

Begin ==
  /\ turn = Nobody
  /\ turn' \in Notifiers
  /\ due' = listening
  /\ UNCHANGED <<given, listening>>

Visit ==
  /\ turn # Nobody
  /\ \E k \in due : (\A j \in due : k <= j) /\ due' = due \ {k}
  /\ UNCHANGED <<given, listening, turn>>

End ==
  /\ turn # Nobody /\ due = {}
  /\ turn' = Nobody
  /\ UNCHANGED <<given, listening, due>>

Next == Subscribe \/ Unsubscribe \/ Begin \/ Visit \/ End

Spec == Init /\ [][Next]_listenerVars
=============================================================================
