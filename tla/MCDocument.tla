---------------------------- MODULE MCDocument ----------------------------
(***************************************************************************)
(* Instances of Document for TLC.                                          *)
(***************************************************************************)
EXTENDS Document, TLC

Symmetry == Permutations(Threads) \cup Permutations(Objects) \cup Permutations(Addrs)
===========================================================================
