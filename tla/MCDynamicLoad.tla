--------------------------- MODULE MCDynamicLoad ---------------------------
(***************************************************************************)
(* DynamicLoad for TLC.  Its threads are interchangeable; its handles and  *)
(* libraries are not (one is not zeroed, one is not trusted).              *)
(***************************************************************************)
EXTENDS DynamicLoad, TLC

ThreadSymmetry == Permutations(Threads)
=============================================================================
