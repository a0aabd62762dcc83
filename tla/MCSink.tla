------------------------------ MODULE MCSink ------------------------------
(* Two channels and the inbox; a unit is the window.  One delay ends with   *)
(* the budget, one after it.                                                *)
EXTENDS Sink

MCFaults == {[status |-> FALSE, delay |-> 1, count |-> 1], [status |-> FALSE, delay |-> 2, count |-> 1],
             [status |-> TRUE, delay |-> 0, count |-> 1]}
=============================================================================
