---------------------------- MODULE MCLifecycle ----------------------------
(***************************************************************************)
(* Lifecycle for TLC.  Threads, tracers and handles are interchangeable.   *)
(***************************************************************************)
EXTENDS Lifecycle, TLC

Symmetry == Permutations(Threads) \cup Permutations(Tracers) \cup Permutations(Handles)
=============================================================================
