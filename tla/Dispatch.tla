------------------------------ MODULE Dispatch ------------------------------
(***************************************************************************)
(* Dispatcher.Dispatch, deliver, send, park and Stop of internal/notify    *)
(* (dispatcher.go, retry.go): one message fans out to the matching outputs *)
(* in parallel, each output retries with backoff inside the budget of the  *)
(* call, and a send that still fails is parked in the dead letter.         *)
(*                                                                         *)
(* Time is an integer: elapsed counts from the start of the current call.  *)
(* Tick advances it and is disabled while some goroutine has to act, so a  *)
(* timeout ends its operation at the instant it expires and a select takes *)
(* one of its ready branches.                                              *)
(***************************************************************************)
EXTENDS Integers

CONSTANTS Outputs,          \* the outputs of the config
          Fallbacks,        \* those with fallback: true
          Attempts,         \* RetryPolicy.Attempts per output
          Backoff,          \* RetryPolicy.Backoff per output
          MaxRetryBackoff,  \* cap of the doubled wait
          HttpTimeout,      \* http.Client.Timeout of both notifiers
          DispatchTimeout,  \* budget of one Dispatch call (main.go)
          ParkTimeout,      \* bound of one dead-letter write
          DeadLetterOn,     \* Dispatcher.DeadLetter # nil
          DryRun,           \* Dispatcher.DryRun
          Codes,            \* the non-2xx statuses an endpoint may answer
          RetryAfters       \* the Retry-After delays it may ask for

ASSUME DispatchAssumption ==
  /\ Fallbacks \subseteq Outputs
  /\ Attempts \in [Outputs -> Nat \ {0}]
  /\ Backoff \in [Outputs -> Nat]
  /\ MaxRetryBackoff \in Nat
  /\ \A o \in Outputs : Backoff[o] <= MaxRetryBackoff
  /\ HttpTimeout \in Nat
  /\ DispatchTimeout \in Nat \ {0}
  /\ ParkTimeout \in Nat
  /\ DeadLetterOn \in BOOLEAN /\ DryRun \in BOOLEAN
  /\ Codes \subseteq Nat /\ RetryAfters \subseteq Nat

VARIABLES calling,   \* a Dispatch call is in progress
          elapsed,   \* time since it began
          stopped,   \* Dispatcher.stop is closed
          stopAt,    \* elapsed when it was closed, 0 if before this call
          pc,        \* where the goroutine of an output is
          since,     \* elapsed when it got there
          attempt,   \* send's attempt
          wait,      \* send's wait
          timer,     \* when the backoff timer of send fires
          asked,     \* RetryAfter of the last error
          result,    \* the DispatchResult of an output
          accepted,  \* outputs whose endpoint took the message
          stored,    \* outputs whose entry is in the dead-letter stream
          acked      \* the last call that returned had a nil error

control == <<pc, since, attempt, wait, timer, asked, result>>
outside == <<accepted, stored>>
vars    == <<calling, elapsed, stopped, stopAt, control, outside, acked>>

PCs     == {"idle", "sending", "waiting", "parking", "done"}
Busy    == {"sending", "waiting", "parking"}
Results == {"none", "filtered", "covered", "throttled", "dryRun",
            "sent", "failed", "parked", "unparked"}

Bigger(a, b)  == IF a >= b THEN a ELSE b
Smaller(a, b) == IF a <= b THEN a ELSE b
-----------------------------------------------------------------------------
(* Errors of Notifier.Send.  A connection error stands for a timeout too.  *)
(* Nothing cancels the context of a Dispatch before it returns, so         *)
(* context.Canceled does not occur here.                                   *)

Errors == [kind : {"permanent", "connection"}, code : {0}, retryAfter : {0}]
            \cup [kind : {"status"}, code : Codes, retryAfter : RetryAfters]

Retryable(err) ==
  \/ err.kind = "connection"
  \/ err.kind = "status" /\ (err.code \in {408, 425, 429} \/ err.code >= 500)

-----------------------------------------------------------------------------
Init == /\ calling = FALSE /\ elapsed = 0
        /\ stopped = FALSE /\ stopAt = 0
        /\ pc = [o \in Outputs |-> "idle"]
        /\ since = [o \in Outputs |-> 0]
        /\ attempt = [o \in Outputs |-> 0]
        /\ wait = [o \in Outputs |-> 0]
        /\ timer = [o \in Outputs |-> 0]
        /\ asked = [o \in Outputs |-> 0]
        /\ result = [o \in Outputs |-> "none"]
        /\ accepted = {} /\ stored = {}
        /\ acked = TRUE

\* The first loop of Dispatch: a non-fallback output matched.
Routed(matched) == \E o \in matched : o \notin Fallbacks

\* What Dispatch decides for o before it starts a goroutine for it ("none").
Route(o, matched, held) ==
  IF o \notin matched THEN "filtered"
  ELSE IF o \in Fallbacks /\ Routed(matched) THEN "covered"
  ELSE IF o \in held THEN "throttled"
  ELSE IF DryRun THEN "dryRun" ELSE "none"

\* matched: the outputs whose filters match; held: those whose throttle does
\* not admit the message (Throttle.tla).
Begin(matched, held) ==
  /\ ~calling
  /\ calling' = TRUE /\ elapsed' = 0 /\ stopAt' = 0
  /\ result'  = [o \in Outputs |-> Route(o, matched, held)]
  /\ pc'      = [o \in Outputs |-> IF result'[o] = "none" THEN "sending" ELSE "done"]
  /\ since'   = [o \in Outputs |-> 0]
  /\ attempt' = [o \in Outputs |-> IF result'[o] = "none" THEN 1 ELSE 0]
  /\ wait'    = Backoff
  /\ timer'   = [o \in Outputs |-> 0]
  /\ asked'   = [o \in Outputs |-> 0]
  /\ accepted' = {} /\ stored' = {}
  /\ UNCHANGED <<stopped, acked>>

CtxDone == elapsed >= DispatchTimeout

SendDueWithoutCtx(o) == since[o] + HttpTimeout   \* bug: a request without ctx

\* A send whose context is over fails; one in flight ends with its HTTP
\* timeout or the deadline of the call, whichever is first.
SendDue(o) == Smaller(since[o] + HttpTimeout, DispatchTimeout)

SendOK(o) ==
  /\ pc[o] = "sending" /\ since[o] < DispatchTimeout
  /\ pc' = [pc EXCEPT ![o] = "done"]
  /\ result' = [result EXCEPT ![o] = "sent"]
  /\ accepted' = accepted \cup {o}
  /\ UNCHANGED <<calling, elapsed, stopped, stopAt, since, attempt, wait, timer,
                 asked, stored, acked>>

\* Bug: no park once the dispatcher stops.
FailUnparkedOnStop(o) ==
  LET park == DeadLetterOn /\ ~stopped IN
  /\ pc' = [pc EXCEPT ![o] = IF park THEN "parking" ELSE "done"]
  /\ since' = [since EXCEPT ![o] = elapsed]
  /\ result' = IF park THEN result ELSE [result EXCEPT ![o] = "failed"]

\* deliver after a failed send: park it, unless no dead letter is set.
Fail(o) ==
  /\ pc' = [pc EXCEPT ![o] = IF DeadLetterOn THEN "parking" ELSE "done"]
  /\ since' = [since EXCEPT ![o] = elapsed]
  /\ result' = IF DeadLetterOn THEN result ELSE [result EXCEPT ![o] = "failed"]

GiveUp(o, err) == attempt[o] >= Attempts[o] \/ ~Retryable(err) \/ CtxDone
PauseWaitOnly(o, err) == wait[o]                 \* bug: Retry-After ignored
Pause(o, err)  == Bigger(wait[o], err.retryAfter)
Fits(pause)    == DispatchTimeout - elapsed >= pause
DoubledUncapped(w) == 2 * w                      \* bug: no cap
Doubled(w)     == Smaller(2 * w, MaxRetryBackoff)

\* Send returned err.  An endpoint may have taken the message all the same
\* when the answer was lost (took).
SendFails(o, err, took) ==
  /\ pc[o] = "sending"
  /\ took => err.kind = "connection" /\ since[o] < DispatchTimeout
  /\ accepted' = IF took THEN accepted \cup {o} ELSE accepted
  /\ asked' = [asked EXCEPT ![o] = err.retryAfter]
  /\ IF GiveUp(o, err) \/ ~Fits(Pause(o, err))
       THEN Fail(o) /\ UNCHANGED timer
       ELSE /\ pc' = [pc EXCEPT ![o] = "waiting"]
            /\ since' = [since EXCEPT ![o] = elapsed]
            /\ timer' = [timer EXCEPT ![o] = elapsed + Pause(o, err)]
            /\ UNCHANGED result
  /\ UNCHANGED <<calling, elapsed, stopped, stopAt, attempt, wait, stored, acked>>

\* The select of send: <-t.C, then the next attempt ...
Retry(o) ==
  /\ pc[o] = "waiting" /\ elapsed >= timer[o]
  /\ wait' = [wait EXCEPT ![o] = Doubled(@)]
  /\ attempt' = [attempt EXCEPT ![o] = @ + 1]
  /\ pc' = [pc EXCEPT ![o] = "sending"]
  /\ since' = [since EXCEPT ![o] = elapsed]
  /\ UNCHANGED <<calling, elapsed, stopped, stopAt, timer, asked, result, outside, acked>>

InterruptedByCtx == CtxDone                      \* bug: no <-d.stop branch
Interrupted == CtxDone \/ stopped

\* ... or <-ctx.Done() or <-d.stop.
Interrupt(o) ==
  /\ pc[o] = "waiting" /\ Interrupted
  /\ Fail(o)
  /\ UNCHANGED <<calling, elapsed, stopped, stopAt, attempt, wait, timer, asked,
                 outside, acked>>

\* park under its own timeout.  A write that timed out may be in the stream.
ParkOK(o) ==
  /\ pc[o] = "parking"
  /\ pc' = [pc EXCEPT ![o] = "done"]
  /\ result' = [result EXCEPT ![o] = "parked"]
  /\ stored' = stored \cup {o}
  /\ UNCHANGED <<calling, elapsed, stopped, stopAt, since, attempt, wait, timer,
                 asked, accepted, acked>>

ParkFails(o, took) ==
  /\ pc[o] = "parking"
  /\ pc' = [pc EXCEPT ![o] = "done"]
  /\ result' = [result EXCEPT ![o] = "unparked"]
  /\ stored' = IF took THEN stored \cup {o} ELSE stored
  /\ UNCHANGED <<calling, elapsed, stopped, stopAt, since, attempt, wait, timer,
                 asked, accepted, acked>>

UndeliveredEverywhere == \A o \in Outputs : result[o] = "unparked"  \* bug
Undelivered == \E o \in Outputs : result[o] = "unparked"

\* wg.Wait is over; the handler returns Undelivered(results).
Return ==
  /\ calling /\ \A o \in Outputs : pc[o] \notin Busy
  /\ calling' = FALSE
  /\ acked' = ~Undelivered
  /\ UNCHANGED <<elapsed, stopped, stopAt, control, outside>>

\* Stop, called once by the shutdown goroutine of runServer.
Stop ==
  /\ ~stopped
  /\ stopped' = TRUE
  /\ stopAt' = IF calling THEN elapsed ELSE 0
  /\ UNCHANGED <<calling, elapsed, control, outside, acked>>

\* No goroutine has to act before time passes.
Quiet(o) ==
  CASE pc[o] = "sending" -> elapsed < SendDue(o)
    [] pc[o] = "waiting" -> elapsed < timer[o] /\ ~Interrupted
    [] pc[o] = "parking" -> elapsed < since[o] + ParkTimeout
    [] OTHER             -> TRUE

Tick ==
  /\ calling /\ \E o \in Outputs : pc[o] \in Busy
  /\ \A o \in Outputs : Quiet(o)
  /\ elapsed' = elapsed + 1
  /\ UNCHANGED <<calling, stopped, stopAt, control, outside, acked>>

OutputStep(o) ==
  \/ SendOK(o)
  \/ \E err \in Errors, took \in BOOLEAN : SendFails(o, err, took)
  \/ Retry(o)
  \/ Interrupt(o)
  \/ ParkOK(o)
  \/ \E took \in BOOLEAN : ParkFails(o, took)

Next ==
  \/ \E matched, held \in SUBSET Outputs : Begin(matched, held)
  \/ \E o \in Outputs : OutputStep(o)
  \/ Return
  \/ Stop
  \/ Tick

Spec == Init /\ [][Next]_vars
-----------------------------------------------------------------------------
(* Properties *)

\* Every variable has its type; the doubled wait stays under its cap.
TypeOK ==
  /\ calling \in BOOLEAN /\ stopped \in BOOLEAN /\ acked \in BOOLEAN
  /\ elapsed \in Nat /\ stopAt \in Nat
  /\ pc \in [Outputs -> PCs]
  /\ result \in [Outputs -> Results]
  /\ attempt \in [Outputs -> Nat] /\ wait \in [Outputs -> 0..MaxRetryBackoff]
  /\ since \in [Outputs -> Nat] /\ timer \in [Outputs -> Nat]
  /\ asked \in [Outputs -> Nat]
  /\ accepted \in SUBSET Outputs /\ stored \in SUBSET Outputs

\* However the outputs fail, retry and park, the call is over within its
\* budget and one dead-letter write (main.go relies on it to stay inside the
\* visibility timeout of 60s, with 30s + 5s).
Budget == calling => elapsed <= DispatchTimeout + ParkTimeout

\* A stopped dispatcher holds up the shutdown for one HTTP timeout and one
\* dead-letter write at most: no backoff wait is left (Stop, retry.go).
ShutdownBounded ==
  calling /\ stopped => elapsed <= stopAt + HttpTimeout + ParkTimeout

\* The wait before attempt n + 1 without any Retry-After: backoff doubled
\* n - 1 times, then capped (RetryConfig.Backoff).
NominalWait(o) ==
  LET w[n \in Nat] == IF n <= 1 THEN Backoff[o] ELSE Smaller(2 * w[n - 1], MaxRetryBackoff)
  IN  w[attempt[o]]

\* The next attempt comes after the policy's wait and not before the endpoint
\* asked for it, unless it does not come at all.
RetrySpacing ==
  [][\A o \in Outputs :
       attempt'[o] = attempt[o] + 1 /\ attempt[o] > 0 =>
         elapsed - since[o] >= Bigger(NominalWait(o), asked[o])]_vars

\* What the ack of a stream entry stands for (docs/configuration.md): each
\* output the message was for has it, or its dead-letter entry exists.
AckedIsKept ==
  ~calling /\ acked /\ DeadLetterOn =>
    \A o \in Outputs : result[o] \in {"sent", "failed", "parked", "unparked"} =>
                         o \in accepted \cup stored

\* Dispatch implements the untimed contract of Fanout.tla.
Contract == INSTANCE Fanout WITH
  outcome <- [o \in Outputs |-> IF pc[o] \in Busy THEN "pending" ELSE result[o]]

ContractSpec == Contract!Spec
=============================================================================
