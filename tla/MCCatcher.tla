----------------------------- MODULE MCCatcher -----------------------------
(***************************************************************************)
(* Two pods and three entries, the second malformed.  The first and the    *)
(* third go to chat, whose throttle has max 1: the third comes above max,  *)
(* or, after the window, is admitted.  hook takes the first as well, and   *)
(* may fail to park.  With a buffer of two, the other pod reads the third. *)
(* A dispatch takes up to half the visibility timeout, as 35s of 60s do.   *)
(* In the run of what settles in the end there are two entries and no max, *)
(* and the second repeats the key of the first.                            *)
(***************************************************************************)
EXTENDS Catcher

CONSTANTS chat, hook, blue, green

MCPods      == {blue, green}
MCOnePod    == {blue}
MCSymmetry  == Permutations(MCPods)
MCOutputs   == {chat, hook}
MCThrottled == {chat}
MCHook      == {hook}
MCMaxOne    == [o \in MCThrottled |-> 1]
MCNoMax     == [o \in MCThrottled |-> 0]
MCNone      == {}
MCMalformed == {2}
MCMessages  == 1..3
MCRoutes    == <<{chat, hook}, {hook}, {chat}>>
MCKeyOf     == <<"disk", "disk", "cpu">>

MCTwo       == 1..2
MCTwoRoutes == <<{chat, hook}, {chat}>>
MCTwoKeys   == <<"disk", "disk">>

\* One entry for one output.
MCSingle    == 1..1
MCSingleKey == <<"disk">>
MCOneChat   == <<{chat}>>
=============================================================================
