--------------------------- MODULE MCEventListeners ---------------------------
(***************************************************************************)
(* The listeners of one event for TLC: the notifiers are alike.            *)
(***************************************************************************)
EXTENDS EventListeners, TLC

Symmetry == Permutations(Notifiers)
=============================================================================
