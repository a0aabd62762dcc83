----------------------------- MODULE MCThrottle -----------------------------
(***************************************************************************)
(* Two keys and max 2: a window is capped through a key that a resolved    *)
(* alert cleared, or through a flush that overtook the worker and forgot   *)
(* it.  Five messages over two windows.                                    *)
(***************************************************************************)
EXTENDS Throttle, TLC

CONSTANTS k1, k2
MCKeys == {k1, k2}
MCSymmetry == Permutations(MCKeys)
=============================================================================
