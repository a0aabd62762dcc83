--------------------------- MODULE MCAssertCard ---------------------------
(* Time for a few polls; a poll may take twice the pause between two. *)
EXTENDS AssertCard
=============================================================================
