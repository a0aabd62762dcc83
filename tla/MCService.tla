----------------------------- MODULE MCService ------------------------------
(* Two outputs, a ring of two slots, one of them used again. *)
EXTENDS Service

R(r, n) == [result |-> r, attempts |-> n, deadLettered |-> FALSE]
MCResults == [result : {"sent", "failed"}, attempts : 1..3, deadLettered : {FALSE}]
             \cup {R(r, 0) : r \in {"filtered", "throttled", "dry-run"}}
             \cup {[R("failed", n) EXCEPT !.deadLettered = TRUE] : n \in 1..3}
MCDispatches == {[teams |-> t, inbox |-> i] : <<t, i>> \in
  {<<R("sent", 3), R("failed", 2)>>, <<R("throttled", 0), R("sent", 1)>>,
   <<R("filtered", 0), R("filtered", 0)>>}}
MCQueries == [result : {"", "unrouted", "sent", "failed"}, limit : {0, 1}]
=============================================================================
