-------------------------- MODULE MCNativeObject --------------------------
(***************************************************************************)
(* Instances of NativeObject for TLC.                                      *)
(***************************************************************************)
EXTENDS NativeObject, TLC

Symmetry == Permutations(Threads) \cup Permutations(Objects) \cup Permutations(Handles)
===========================================================================
