---------------------------- MODULE MirrorSession ----------------------------
(***************************************************************************)
(* What the mirror promises to the screen, without threads, queue or       *)
(* flags.  The peer's pictures come in sessions, numbered in order; within *)
(* one a descriptor names one buffer, between two its number is reused.    *)
(* The view remembers the session it was last told of and never holds a    *)
(* picture from before it: it may learn of a later session only when the   *)
(* pictures of the earlier ones are gone, and a picture, once built, is    *)
(* replaced by nothing but a clear screen.                                 *)
(***************************************************************************)
EXTENDS Integers

CONSTANTS
  Fds,   \* descriptors
  NoFd   \* none of them

VARIABLES
  pictures,  \* the session each descriptor's picture was built in, or None
  current,   \* the descriptor being shown
  told       \* the session the view was last told of

sessionVars == <<pictures, current, told>>

None == -1

Init ==
  /\ pictures = [fd \in Fds |-> None]
  /\ current = NoFd
  /\ told = 0

\* The view is told to show a picture of the session it knows, or of a later
\* one of which, and after which, everything it holds must be.
Tell ==
  /\ told' >= told
  /\ \A fd \in Fds : pictures[fd] = None \/ pictures[fd] >= told'
  /\ current' \in Fds \cup {NoFd}
  /\ UNCHANGED pictures

Withdraw ==
  /\ current' = NoFd
  /\ UNCHANGED <<pictures, told>>

Clear ==
  /\ pictures' = [fd \in Fds |-> None]
  /\ current' = NoFd
  /\ UNCHANGED told

\* A picture is built only for the descriptor being shown, when it has none.
Build ==
  /\ current # NoFd /\ pictures[current] = None
  /\ pictures' = [pictures EXCEPT ![current] = pictures'[current]]
  /\ pictures'[current] >= told
  /\ UNCHANGED <<current, told>>

Next == Tell \/ Withdraw \/ Clear \/ Build

Spec == Init /\ [][Next]_sessionVars

\* No picture is older than the session the view was last told of.
NothingOlder == \A fd \in Fds : pictures[fd] = None \/ pictures[fd] >= told
=============================================================================
