------------------------------- MODULE Flush -------------------------------
(***************************************************************************)
(* The throttle flusher: RunThrottle and FlushThrottle (throttle.go), a    *)
(* goroutine of runServer next to the worker.  At every tick it goes       *)
(* through the throttled outputs in config order, takes the summaries of   *)
(* the windows that are over (due, Throttle.tla) and sends them one after  *)
(* the other under one context of one interval.                            *)
(*                                                                         *)
(* send is that of Dispatch.tla; how long it pauses between attempts is    *)
(* left open here.  There is no dead letter: a summary that fails is lost. *)
(* SIGTERM cancels the context; Dispatcher.Stop, which follows, ends the   *)
(* same waits.                                                             *)
(***************************************************************************)
EXTENDS Integers

CONSTANTS N,            \* number of throttled outputs, in config order
          Every,        \* throttleFlushEvery
          HttpTimeout,  \* http.Client.Timeout
          Attempts,     \* RetryPolicy.Attempts
          Pauses,       \* the waits between two attempts
          DryRun,       \* Dispatcher.DryRun
          Windows,      \* bound: windows that reach max, per output
          LastEnd       \* bound: no window ends later

ASSUME FlushAssumption ==
  /\ N \in Nat
  /\ Every \in Nat \ {0}
  /\ HttpTimeout \in Nat
  /\ Attempts \in Nat \ {0}
  /\ Pauses \subseteq Nat
  /\ DryRun \in BOOLEAN
  /\ Windows \in Nat /\ LastEnd \in Nat

Outputs   == 1..N
Summaries == Outputs \X (1..Windows)

VARIABLES now,
          tickAt,      \* when the ticker fires next
          ticked,      \* its channel holds a tick
          phase,       \* "select", "flushing", "exited"
          flushStart,  \* when this FlushThrottle began
          cur,         \* the output it is at, 0 before the first
          batch,       \* which of the summaries due returned for it are left
          pc,          \* send of the oldest of them: "idle", "sending", "waiting"
          since,       \* when it got there
          attempt,     \* send's attempt
          timer,       \* when its pause is over
          fate,        \* of every summary
          endedAt,     \* when its window ended, 0 once due has returned it
          term         \* SIGTERM came

sending == <<pc, since, attempt, timer>>
clocks  == <<now, tickAt, ticked>>
vars    == <<clocks, phase, flushStart, cur, batch, sending, fate, endedAt, term>>

Init == /\ now = 0 /\ tickAt = Every /\ ticked = FALSE
        /\ phase = "select" /\ flushStart = 0 /\ cur = 0 /\ batch = {}
        /\ pc = "idle" /\ since = 0 /\ attempt = 0 /\ timer = 0
        /\ fate = [s \in Summaries |-> "none"]
        /\ endedAt = [s \in Summaries |-> 0]
        /\ term = FALSE
-----------------------------------------------------------------------------
(* The windows, the ticker and the signal *)

\* The n-th capped window of o is over: its summary is there for due.
WindowEnds(o, n) ==
  /\ fate[<<o, n>>] = "none" /\ (n > 1 => fate[<<o, n - 1>>] # "none")
  /\ now <= LastEnd /\ phase # "exited"
  /\ fate' = [fate EXCEPT ![<<o, n>>] = "ended"]
  /\ endedAt' = [endedAt EXCEPT ![<<o, n>>] = now]
  /\ UNCHANGED <<clocks, phase, flushStart, cur, batch, sending, term>>

\* A tick that finds the channel full is dropped.
TickerFires ==
  /\ phase # "exited" /\ now >= tickAt
  /\ ticked' = TRUE /\ tickAt' = tickAt + Every
  /\ UNCHANGED <<now, phase, flushStart, cur, batch, sending, fate, endedAt, term>>

Signal ==
  /\ ~term /\ phase # "exited"
  /\ term' = TRUE
  /\ UNCHANGED <<clocks, phase, flushStart, cur, batch, sending, fate, endedAt>>

-----------------------------------------------------------------------------
(* RunThrottle *)

StartFlush ==
  /\ phase = "select" /\ ticked
  /\ ticked' = FALSE
  /\ phase' = "flushing" /\ flushStart' = now
  /\ cur' = 0 /\ batch' = {}
  /\ UNCHANGED <<now, tickAt, sending, fate, endedAt, term>>

\* <-ctx.Done(); or the consumer has returned and the process is over, in
\* the middle of a flush as well: nothing waits for this goroutine.
Exit ==
  /\ term /\ phase # "exited"
  /\ phase' = "exited"
  /\ UNCHANGED <<clocks, flushStart, cur, batch, sending, fate, endedAt, term>>

EndFlush ==
  /\ phase = "flushing" /\ cur = N /\ batch = {}
  /\ phase' = "select"
  /\ UNCHANGED <<clocks, flushStart, cur, batch, sending, fate, endedAt, term>>
-----------------------------------------------------------------------------
(* FlushThrottle *)

Ended(o) == {n \in 1..Windows : fate[<<o, n>>] = "ended"}
Oldest   == CHOOSE n \in batch : \A m \in batch : n <= m

\* The next output: due hands over its summaries, which are sent oldest first.
Collect ==
  /\ phase = "flushing" /\ cur < N /\ batch = {}
  /\ cur' = cur + 1
  /\ batch' = Ended(cur + 1)
  /\ fate' = [s \in Summaries |-> IF s[1] = cur + 1 /\ fate[s] = "ended" THEN "taken" ELSE fate[s]]
  /\ endedAt' = [s \in Summaries |-> IF s[1] = cur + 1 THEN 0 ELSE endedAt[s]]
  /\ UNCHANGED <<clocks, phase, flushStart, sending, term>>

\* Bug: the time a dispatch has, instead of one interval.
DeadlineOfDispatch == flushStart + 2 * Every
Deadline == flushStart + Every
CtxOver  == term \/ now >= Deadline

SendDueWithoutCtx == since + HttpTimeout    \* bug: a request without ctx
SendDue == IF since + HttpTimeout <= Deadline THEN since + HttpTimeout ELSE Deadline

\* The oldest summary of the batch is done with; send's variables are gone.
Resolve(f) ==
  /\ fate' = [fate EXCEPT ![<<cur, Oldest>>] = f]
  /\ batch' = batch \ {Oldest}
  /\ pc' = "idle" /\ since' = 0 /\ attempt' = 0 /\ timer' = 0

\* Bug: an error leaves the rest of the batch behind.
FailBreaks ==
  /\ fate' = [fate EXCEPT ![<<cur, Oldest>>] = "failed"]
  /\ batch' = {}
  /\ pc' = "idle" /\ since' = 0 /\ attempt' = 0 /\ timer' = 0
Fail == Resolve("failed")

\* A request does not start when its context is over: Send fails at once.
SendNext ==
  /\ phase = "flushing" /\ pc = "idle" /\ batch # {}
  /\ IF DryRun THEN Resolve("logged")
     ELSE IF CtxOver THEN Fail
     ELSE pc' = "sending" /\ since' = now /\ attempt' = 1 /\ UNCHANGED <<timer, batch, fate>>
  /\ UNCHANGED <<clocks, phase, flushStart, cur, endedAt, term>>

\* The endpoint took it; a request in flight may make it although the signal
\* came meanwhile.
SendOK ==
  /\ phase = "flushing" /\ pc = "sending"
  /\ Resolve("posted")
  /\ UNCHANGED <<clocks, phase, flushStart, cur, endedAt, term>>

GiveUpLate(retryable) == attempt > Attempts \/ ~retryable \/ CtxOver   \* bug: off by one
GiveUp(retryable) == attempt >= Attempts \/ ~retryable \/ CtxOver

SendFails(retryable, pause) ==
  /\ phase = "flushing" /\ pc = "sending"
  /\ IF GiveUp(retryable) \/ Deadline - now < pause
       THEN Fail
       ELSE pc' = "waiting" /\ since' = now /\ timer' = now + pause
            /\ UNCHANGED <<attempt, batch, fate>>
  /\ UNCHANGED <<clocks, phase, flushStart, cur, endedAt, term>>

\* The timer branch of the select.  Taken when the context is over as well,
\* it fails at once: as Interrupt.
Retry ==
  /\ phase = "flushing" /\ pc = "waiting" /\ now >= timer /\ ~CtxOver
  /\ pc' = "sending" /\ since' = now /\ attempt' = attempt + 1
  /\ UNCHANGED <<clocks, phase, flushStart, cur, batch, timer, fate, endedAt, term>>

Interrupt ==
  /\ phase = "flushing" /\ pc = "waiting" /\ CtxOver
  /\ Fail
  /\ UNCHANGED <<clocks, phase, flushStart, cur, endedAt, term>>
-----------------------------------------------------------------------------
\* Time passes while the flusher waits for its ticker, an answer or a pause.
Quiet ==
  \/ phase = "select" /\ ~ticked /\ ~term
  \/ phase = "flushing" /\ pc = "sending" /\ ~term /\ now < SendDue
  \/ phase = "flushing" /\ pc = "waiting" /\ ~CtxOver /\ now < timer

\* Bound: three intervals after the last window.
Tick ==
  /\ Quiet /\ now < tickAt /\ now < LastEnd + 3 * Every
  /\ now' = now + 1
  /\ UNCHANGED <<tickAt, ticked, phase, flushStart, cur, batch, sending, fate, endedAt, term>>

FlushStep ==
  \/ Collect \/ SendNext \/ SendOK \/ Retry \/ Interrupt \/ EndFlush
  \/ \E retryable \in BOOLEAN, pause \in Pauses : SendFails(retryable, pause)

Next ==
  \/ \E s \in Summaries : WindowEnds(s[1], s[2])
  \/ TickerFires \/ Signal \/ StartFlush \/ Exit \/ FlushStep \/ Tick

Spec == Init /\ [][Next]_vars

\* The runtime serves timers and goroutines; no signal and no window need come.
FairSpec == Spec /\ WF_vars(Tick) /\ WF_vars(TickerFires) /\ WF_vars(StartFlush) /\ WF_vars(FlushStep)
-----------------------------------------------------------------------------
(* Properties *)

\* Every variable has its type; no summary gets more attempts than its policy.
TypeOK ==
  /\ now \in Nat /\ tickAt \in Nat /\ ticked \in BOOLEAN
  /\ phase \in {"select", "flushing", "exited"}
  /\ flushStart \in Nat /\ cur \in 0..N
  /\ batch \subseteq 1..Windows
  /\ pc \in {"idle", "sending", "waiting"}
  /\ since \in Nat /\ attempt \in 0..Attempts /\ timer \in Nat
  /\ fate \in [Summaries -> {"none", "ended", "taken", "posted", "failed", "logged"}]
  /\ endedAt \in [Summaries -> Nat]
  /\ term \in BOOLEAN

\* Whatever the outputs do, a flush is over when its interval is, and the
\* ticker never finds its channel full: the flusher keeps its rhythm.
FlushFitsInterval ==
  /\ phase = "flushing" => now <= flushStart + Every
  /\ phase # "exited" /\ ticked => now < tickAt

\* A window that ended waits two intervals at most for due, behind the retries
\* of the outputs before it in the config.
CollectedInTime ==
  phase # "exited" =>
    \A s \in Summaries : fate[s] = "ended" => now - endedAt[s] <= 2 * Every

\* Every summary is settled while the process lives: an error of one does
\* not leave another behind.
EverySummarySettled ==
  \A s \in Summaries :
    fate[s] = "ended" ~> fate[s] \in {"posted", "failed", "logged"} \/ term
=============================================================================
