------------------------------ MODULE MCFlush ------------------------------
(***************************************************************************)
(* Two outputs, two windows each, over three intervals; a unit is 5s, so   *)
(* the interval is 3 and an HTTP request takes 2 at most.                  *)
(***************************************************************************)
EXTENDS Flush
=============================================================================
