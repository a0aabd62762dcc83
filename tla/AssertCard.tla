----------------------------- MODULE AssertCard -----------------------------
(***************************************************************************)
(* AssertPosts (internal/sink/assert.go), run by the assert-card           *)
(* subcommand: poll the sink until enough posts match, or say what came    *)
(* closest.                                                                *)
(*                                                                         *)
(* The sink (Sink.tla) is reduced to how many of its posts match and to    *)
(* whether it answers.  An answer holds the posts of one moment between    *)
(* the request and its arrival: List runs under the store's mutex.         *)
(*                                                                         *)
(* What Sink.tla has a name for is called Assert here (and now is clock),  *)
(* so that SinkProofs can extend both.                                     *)
(***************************************************************************)
EXTENDS Integers

CONSTANTS Want,         \* posts that must match: max(Count, 1)
          Timeout,      \* --timeout, the context's deadline
          Interval,     \* between two polls
          HttpTimeout,  \* the client's timeout for one poll
          Latency,      \* what a sink that is up takes to answer
          Rejects,      \* whether the sink may answer 400, 401 or 404
          Changes       \* bound: posts, clears and outages

ASSUME AssertAssumption ==
  /\ Want \in Nat \ {0} /\ Timeout \in Nat \ {0} /\ Interval \in Nat \ {0}
  /\ HttpTimeout \in Nat \ {0} /\ Latency \in 1..(HttpTimeout - 1)
  /\ Rejects \in BOOLEAN /\ Changes \in Nat

VARIABLES clock,
          matching,   \* posts in the sink that match
          up,         \* it answers with a list
          phase,      \* "asking", "listed", "pausing", "passed", "failed", "rejected"
          since,      \* when it got there; for "listed", when it asked
          listing,    \* what the answer on its way holds
          polls,      \* AssertPosts' own: successful polls,
          lastErr,    \*   the error to report: "none", "sink" or "deadline",
          found,      \*   and the posts that matched in the last of them
          goodSince,  \* history: since when the sink is up with enough posts, -1 for not
          had,        \* history: the sink had enough posts at some moment
          blamed,     \* history: polls failed since the last that succeeded
          changes

assertion == <<phase, since, listing, polls, lastErr, found, blamed>>
assertVars == <<clock, matching, up, assertion, goodSince, had, changes>>

Enough(n) == n >= Want

AssertInit ==
  /\ clock = 0
  /\ matching = 0 /\ up \in BOOLEAN
  /\ phase = "asking" /\ since = 0 /\ listing = 0
  /\ polls = 0 /\ lastErr = "none" /\ found = 0
  /\ goodSince = -1 /\ had = FALSE /\ blamed = FALSE
  /\ changes = 0

Final   == phase \in {"passed", "failed", "rejected"}
CtxOver == clock >= Timeout
-----------------------------------------------------------------------------
(* The sink: posts come, fall out of the ring or are cleared; it restarts. *)

SinkChanges(m, u) ==
  /\ ~Final /\ changes < Changes /\ changes' = changes + 1
  /\ matching' = m /\ up' = u
  /\ goodSince' = IF ~(u /\ Enough(m)) THEN -1 ELSE IF goodSince = -1 THEN clock ELSE goodSince
  /\ had' = (had \/ Enough(m))
  /\ UNCHANGED <<clock, assertion>>

Change ==
  \/ SinkChanges(matching + 1, up)
  \/ matching > 0 /\ SinkChanges(matching - 1, up)
  \/ up /\ SinkChanges(0, FALSE)      \* the pod is gone, and its memory
  \/ SinkChanges(matching, ~up)        \* only the network, or a 5xx
-----------------------------------------------------------------------------
(* One poll: list *)

Lists ==
  /\ phase = "asking" /\ up /\ ~CtxOver
  /\ phase' = "listed" /\ listing' = matching
  /\ UNCHANGED <<clock, matching, up, since, polls, lastErr, found, blamed, goodSince, had, changes>>

SumOfPolls == found + listing   \* bug: matched is declared outside the loop
Matched == listing

Receive ==
  /\ phase = "listed"
  /\ polls' = polls + 1 /\ lastErr' = "none" /\ blamed' = FALSE
  /\ found' = listing
  /\ phase' = IF Enough(Matched) THEN "passed" ELSE "pausing"
  /\ since' = clock
  /\ UNCHANGED <<clock, matching, up, listing, goodSince, had, changes>>

\* An error that says nothing but that the time is up.
LastError(e) == e                                                     \* bug
ErrorToReport(e) == IF e = "deadline" /\ lastErr # "none" THEN lastErr ELSE e

PollFailed(e) ==
  /\ phase' = "pausing" /\ since' = clock
  /\ lastErr' = ErrorToReport(e) /\ blamed' = (blamed \/ e = "sink")

\* Refused, 5xx, 429, no JSON, or the client's timeout.
Fails ==
  /\ \/ phase = "asking" /\ ~up
     \/ phase \in {"asking", "listed"} /\ clock >= since + HttpTimeout
  /\ ~CtxOver
  /\ PollFailed("sink")
  /\ UNCHANGED <<clock, matching, up, listing, polls, found, goodSince, had, changes>>

CutOff ==
  /\ phase \in {"asking", "listed"} /\ CtxOver
  /\ PollFailed("deadline")
  /\ UNCHANGED <<clock, matching, up, listing, polls, found, goodSince, had, changes>>

Reject ==
  /\ phase = "asking" /\ up /\ Rejects
  /\ phase' = "rejected" /\ since' = clock
  /\ UNCHANGED <<clock, matching, up, listing, polls, lastErr, found, blamed, goodSince, had, changes>>
-----------------------------------------------------------------------------
(* The select between two polls *)

AskAtOnce ==   \* bug: no pause
  /\ phase = "pausing"
  /\ phase' = "asking" /\ since' = clock
  /\ UNCHANGED <<clock, matching, up, listing, polls, lastErr, found, blamed, goodSince, had, changes>>
AskAgain ==
  /\ phase = "pausing" /\ clock >= since + Interval
  /\ phase' = "asking" /\ since' = clock
  /\ UNCHANGED <<clock, matching, up, listing, polls, lastErr, found, blamed, goodSince, had, changes>>

TimeOut ==
  /\ phase = "pausing" /\ CtxOver
  /\ phase' = "failed" /\ since' = clock
  /\ UNCHANGED <<clock, matching, up, listing, polls, lastErr, found, blamed, goodSince, had, changes>>

PauseOver == clock >= since + Interval                       \* bug: only the timer ends it
PauseEnds == clock >= since + Interval \/ CtxOver

PassTime ==
  /\ \/ phase \in {"asking", "listed"} /\ ~CtxOver /\ clock < since + (IF up THEN Latency ELSE HttpTimeout)
     \/ phase = "pausing" /\ ~PauseEnds
  /\ clock' = clock + 1
  /\ UNCHANGED <<matching, up, assertion, goodSince, had, changes>>

Step == Lists \/ Receive \/ Fails \/ CutOff \/ Reject \/ AskAgain \/ TimeOut
AssertNext == Change \/ Step \/ PassTime

AssertSpec == AssertInit /\ [][AssertNext]_assertVars
-----------------------------------------------------------------------------
(* Properties *)

\* Every variable has its type, and the polls keep their distance.
AssertTypeOK ==
  /\ clock \in Nat /\ matching \in Nat /\ up \in BOOLEAN
  /\ phase \in {"asking", "listed", "pausing", "passed", "failed", "rejected"}
  /\ since \in 0..clock /\ listing \in Nat /\ polls \in 0..(1 + clock \div Interval) /\ found \in Nat
  /\ lastErr \in {"none", "sink", "deadline"}
  /\ goodSince \in -1..clock /\ had \in BOOLEAN /\ blamed \in BOOLEAN
  /\ changes \in 0..Changes

\* It passes only if the sink had that many posts at the same moment: posts of
\* several polls do not add up, and a restart of the sink takes them away.
PassIsReal == phase = "passed" => had

\* Whatever the sink does, it is over when its time is up; until then no error
\* ends it, and posts that were there in time are found: a poll that hangs, the
\* pause behind it and one answer are all that may come in between.  It reports
\* the sink's own error if there was one since the last list, and not the poll
\* the deadline cut short; without any list it reports an error.
FailsInTime ==
  /\ ~Final => clock <= Timeout
  /\ phase = "failed" =>
       /\ clock >= Timeout
       /\ goodSince >= 0 => clock - goodSince <= HttpTimeout + Interval + Latency
       /\ lastErr = "sink" <=> blamed
       /\ polls = 0 => lastErr # "none"
=============================================================================
