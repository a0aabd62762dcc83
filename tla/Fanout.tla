------------------------------- MODULE Fanout -------------------------------
(***************************************************************************)
(* What one call of Dispatcher.Dispatch promises its caller, without time, *)
(* attempts or backoff: every output of the config gets exactly one        *)
(* outcome, the call returns when no output is pending any more, and the   *)
(* error the catcher sees (notify.Undelivered) is nil exactly when no      *)
(* failed send is also missing from the dead letter.  Dispatch.tla refines *)
(* this module; Catcher.tla uses its outcomes.                             *)
(***************************************************************************)

CONSTANTS Outputs,      \* the outputs of the config
          DeadLetterOn  \* Dispatcher.DeadLetter is set

VARIABLES calling,  \* a Dispatch call is in progress
          outcome,  \* DispatchResult per output, "pending" until it is known
          acked     \* whether the last call that returned had a nil error

vars == <<calling, outcome, acked>>

\* DispatchResult.Result of an output that is not sent to, and the fates of
\* one that is: a failed send is in the dead letter ("parked"), in no dead
\* letter because none is set ("failed"), or ParkErr is set ("unparked").
Unsent == {"filtered", "covered", "throttled", "dryRun"}
Fates  == {"sent"} \cup IF DeadLetterOn THEN {"parked", "unparked"} ELSE {"failed"}

TypeOK == /\ calling \in BOOLEAN
          /\ outcome \in [Outputs -> {"none", "pending"} \cup Unsent \cup Fates]
          /\ acked \in BOOLEAN

Init == /\ calling = FALSE
        /\ outcome = [o \in Outputs |-> "none"]
        /\ acked = TRUE

\* The routing decision is taken for all outputs before the first send.
Call == /\ ~calling
        /\ calling' = TRUE
        /\ outcome' \in [Outputs -> {"pending"} \cup Unsent]
        /\ UNCHANGED acked

Settle(o) == /\ calling
             /\ outcome[o] = "pending"
             /\ \E f \in Fates : outcome' = [outcome EXCEPT ![o] = f]
             /\ UNCHANGED <<calling, acked>>

Undelivered(out) == \E o \in Outputs : out[o] = "unparked"

Return == /\ calling
          /\ \A o \in Outputs : outcome[o] # "pending"
          /\ calling' = FALSE
          /\ acked' = ~Undelivered(outcome)
          /\ UNCHANGED outcome

Next == Call \/ Return \/ \E o \in Outputs : Settle(o)

Spec == Init /\ [][Next]_vars
=============================================================================
