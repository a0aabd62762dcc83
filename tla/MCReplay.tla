------------------------------ MODULE MCReplay ------------------------------
(* A stream of two entries, a third that trims it, and two operators. *)
EXTENDS Replay
=============================================================================
