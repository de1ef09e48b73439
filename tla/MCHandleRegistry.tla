------------------------- MODULE MCHandleRegistry -------------------------
(***************************************************************************)
(* Instances of HandleRegistry for TLC.                                    *)
(***************************************************************************)
EXTENDS HandleRegistry, TLC

CONSTANTS X, Y   \* two pointee types

BoxX == [target |-> X, smart |-> "Box"]
ArcX == [target |-> X, smart |-> "Arc"]
BoxY == [target |-> Y, smart |-> "Box"]
ArcY == [target |-> Y, smart |-> "Arc"]

\* One smart pointer per pointee type, as a crate that hands each of its types
\* to Java in one way.
OnePointerPerType == {BoxX, ArcY}

Symmetry == Permutations(Frames) \cup Permutations(Addrs)
===========================================================================
