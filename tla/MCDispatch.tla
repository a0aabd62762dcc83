----------------------------- MODULE MCDispatch -----------------------------
(***************************************************************************)
(* Two outputs of different policies; a unit of time is 5s, so 30s, 10s    *)
(* and 5s of the code are 6, 2 and 1.  ops retries within the budget and   *)
(* may be asked to wait longer than the budget has left; pager is a        *)
(* fallback with another backoff.                                          *)
(***************************************************************************)
EXTENDS Dispatch, TLC

CONSTANTS ops, pager

MCOutputs   == {ops, pager}
MCFallbacks == {pager}
MCAttempts  == (ops :> 4) @@ (pager :> 2)
MCBackoff   == (ops :> 1) @@ (pager :> 2)
=============================================================================
