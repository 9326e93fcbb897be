-------------------------- MODULE MCMirrorPipeline --------------------------
(* MirrorPipeline for TLC: descriptors are interchangeable model values. *)
EXTENDS MirrorPipeline, TLC

Symmetry == Permutations(Fds)
=============================================================================
