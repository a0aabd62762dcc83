----------------------------- MODULE FlushProofs -----------------------------
(***************************************************************************)
(* Proofs about Flush.tla, for any number of outputs, interval, timeouts   *)
(* and policies: the types, the rhythm of its ticker, and that no summary  *)
(* waits longer than two intervals to be collected.                        *)
(***************************************************************************)
EXTENDS Flush, TLAPS

USE FlushAssumption DEF FlushAssumption

ClockTypes ==
  /\ now \in Nat /\ tickAt \in Nat /\ flushStart \in Nat /\ since \in Nat
  /\ ticked \in BOOLEAN
  /\ phase \in {"select", "flushing", "exited"}

\* A tick is taken from the channel within its interval: a flush starts at the
\* time of a tick, and the next tick comes at its deadline.
Rhythm ==
  phase # "exited" =>
    /\ now <= tickAt /\ tickAt - Every <= now
    /\ ticked => now = tickAt - Every
    /\ phase = "flushing" =>
         /\ now <= flushStart + Every
         /\ tickAt = IF ticked THEN flushStart + 2 * Every ELSE flushStart + Every

ClockInv == ClockTypes /\ Rhythm

\* When the last flush began, or when it would have begun before the first.
LastStart ==
  IF phase = "flushing" THEN flushStart
  ELSE IF ticked THEN tickAt - 2 * Every ELSE tickAt - Every

\* What is still there for due ended after the last time its output was asked.
EndedSince(s) ==
  endedAt[s] >= LastStart - (IF phase = "flushing" /\ cur < s[1] THEN Every ELSE 0)

CollectInv ==
  /\ cur \in 0..N
  /\ fate \in [Summaries -> {"none", "ended", "taken", "posted", "failed", "logged"}]
  /\ endedAt \in [Summaries -> Nat]
  /\ phase # "exited" => \A s \in Summaries : fate[s] = "ended" => EndedSince(s)
-----------------------------------------------------------------------------
(* The rhythm *)

\* The ticker is set for one interval after the start.
LEMMA InitClock == Init => ClockInv
<1> SUFFICES ASSUME Init PROVE ClockInv
  OBVIOUS
<1>1. /\ now = 0 /\ tickAt = Every /\ ticked = FALSE
      /\ phase = "select" /\ flushStart = 0 /\ since = 0
  BY DEF Init
<1>2. ClockTypes
  BY <1>1 DEF ClockTypes
<1>3. ~ticked
  BY <1>1
<1>4. Rhythm
  BY <1>1, <1>3 DEF Rhythm
<1> QED
  BY <1>2, <1>4 DEF ClockInv

\* The steps of FlushThrottle and of the windows do not touch the clocks.
LEMMA ClockFrame ==
  ASSUME ClockInv, UNCHANGED <<clocks, flushStart>>, since' \in Nat,
         phase' \in {phase, "exited"} \/ (phase = "flushing" /\ phase' = "select")
  PROVE  ClockInv'
BY DEF ClockInv, ClockTypes, Rhythm, clocks

\* Every step of FlushThrottle leaves the clocks alone.
LEMMA FlushStepFrame ==
  ASSUME ClockInv, FlushStep
  PROVE  /\ UNCHANGED <<clocks, flushStart>> /\ since' \in Nat
         /\ phase' = phase \/ (phase = "flushing" /\ phase' = "select")
<1> now \in Nat /\ since \in Nat
  BY DEF ClockInv, ClockTypes
<1>1. CASE Collect
  BY <1>1 DEF Collect, sending
<1>2. CASE SendNext
  BY <1>2 DEF SendNext, Fail, Resolve
<1>3. CASE SendOK
  BY <1>3 DEF SendOK, Resolve
<1>4. CASE Retry
  BY <1>4 DEF Retry
<1>5. CASE Interrupt
  BY <1>5 DEF Interrupt, Fail, Resolve
<1>6. CASE EndFlush
  BY <1>6 DEF EndFlush, sending
<1>7. CASE \E retryable \in BOOLEAN, pause \in Pauses : SendFails(retryable, pause)
  BY <1>7 DEF SendFails, Fail, Resolve
<1> QED
  BY <1>1, <1>2, <1>3, <1>4, <1>5, <1>6, <1>7 DEF FlushStep

\* Time passes only while the flusher has nothing to do before the deadline.
LEMMA TickBeforeDeadline ==
  ASSUME ClockInv, Tick
  PROVE  /\ phase # "exited" /\ ~ticked /\ now < tickAt
         /\ phase = "flushing" => now < flushStart + Every
<1>1. now < tickAt /\ phase \in {"select", "flushing"}
  BY DEF Tick, Quiet
<1>2. phase = "flushing" => now < flushStart + Every
  <2>1. CASE pc = "sending"
    BY <2>1 DEF Tick, Quiet, SendDue, Deadline, ClockInv, ClockTypes
  <2>2. CASE pc = "waiting"
    BY <2>2 DEF Tick, Quiet, CtxOver, Deadline, ClockInv, ClockTypes
  <2> QED
    BY <2>1, <2>2 DEF Tick, Quiet
<1>3. ~ticked
  BY <1>1, <1>2 DEF Tick, Quiet, ClockInv, ClockTypes, Rhythm
<1> QED
  BY <1>1, <1>2, <1>3

\* Every step keeps the rhythm.
LEMMA NextClock == ClockInv /\ [Next]_vars => ClockInv'
<1> SUFFICES ASSUME ClockInv, [Next]_vars PROVE ClockInv'
  OBVIOUS
<1>1. CASE \E s \in Summaries : WindowEnds(s[1], s[2])
  BY <1>1, ClockFrame DEF WindowEnds, sending, ClockInv, ClockTypes
<1>2. CASE TickerFires
  BY <1>2 DEF TickerFires, sending, ClockInv, ClockTypes, Rhythm
<1>3. CASE Signal
  BY <1>3, ClockFrame DEF Signal, sending, ClockInv, ClockTypes
<1>4. CASE StartFlush
  <2>1. /\ ticked /\ phase = "select" /\ phase' = "flushing" /\ ticked' = FALSE
        /\ flushStart' = now /\ UNCHANGED <<now, tickAt, since>>
    BY <1>4 DEF StartFlush, sending
  <2>2. now \in Nat /\ tickAt \in Nat /\ since \in Nat /\ now = tickAt - Every
    BY <2>1 DEF ClockInv, ClockTypes, Rhythm
  <2>3. ~ticked'
    BY <2>1
  <2>4. ClockTypes'
    BY <2>1, <2>2 DEF ClockTypes
  <2>5. now' <= tickAt' /\ now' <= flushStart' + Every /\ tickAt' = flushStart' + Every
        /\ tickAt' - Every <= now'
    BY <2>1, <2>2
  <2>6. Rhythm'
    BY <2>3, <2>5 DEF Rhythm
  <2> QED
    BY <2>4, <2>6 DEF ClockInv
<1>5. CASE Exit
  BY <1>5, ClockFrame DEF Exit, sending, ClockInv, ClockTypes
<1>6. CASE FlushStep
  BY <1>6, ClockFrame, FlushStepFrame
<1>7. CASE Tick
  BY <1>7, TickBeforeDeadline DEF Tick, sending, ClockInv, ClockTypes, Rhythm
<1>8. CASE UNCHANGED vars
  BY <1>8, ClockFrame DEF vars, sending, ClockInv, ClockTypes
<1> QED
  BY <1>1, <1>2, <1>3, <1>4, <1>5, <1>6, <1>7, <1>8 DEF Next

\* A flush is over when its interval is, and no tick is ever dropped.
THEOREM RhythmHolds == Spec => []FlushFitsInterval
<1>1. ClockInv => FlushFitsInterval
  BY DEF ClockInv, ClockTypes, Rhythm, FlushFitsInterval
<1> QED
  BY InitClock, NextClock, <1>1, PTL DEF Spec
-----------------------------------------------------------------------------
(* Collection *)

\* Nothing has ended when the process starts.
LEMMA InitCollect == Init => CollectInv
<1> SUFFICES ASSUME Init PROVE CollectInv
  OBVIOUS
<1>1. cur = 0 /\ fate = [s \in Summaries |-> "none"] /\ endedAt = [s \in Summaries |-> 0]
  BY DEF Init
<1>2. cur \in 0..N
  BY <1>1
<1>3. \A s \in Summaries : fate[s] # "ended"
  BY <1>1
<1> QED
  BY <1>1, <1>2, <1>3 DEF CollectInv

\* A step that leaves the clocks, the place in the round and the end of every
\* window alone, and ends no window, keeps the invariant.
LEMMA CollectFrame ==
  ASSUME CollectInv,
         UNCHANGED <<clocks, flushStart, cur, endedAt>>, phase' \in {phase, "exited"},
         fate' \in [Summaries -> {"none", "ended", "taken", "posted", "failed", "logged"}],
         \A s \in Summaries : fate'[s] = "ended" => fate[s] = "ended"
  PROVE  CollectInv'
<1> SUFFICES ASSUME phase' # "exited", NEW s \in Summaries, fate'[s] = "ended"
             PROVE  EndedSince(s)'
  BY DEF CollectInv
<1>1. phase' = phase
  OBVIOUS
<1>2. EndedSince(s)
  BY <1>1 DEF CollectInv
<1> QED
  BY <1>1, <1>2 DEF EndedSince, LastStart, clocks

\* A settled summary is not one that waits.
LEMMA SettleFrame ==
  ASSUME CollectInv, NEW f \in {"posted", "failed", "logged"}, Resolve(f),
         UNCHANGED <<clocks, phase, flushStart, cur, endedAt>>
  PROVE  CollectInv'
<1>1. /\ fate' \in [Summaries -> {"none", "ended", "taken", "posted", "failed", "logged"}]
      /\ \A s \in Summaries : fate'[s] = "ended" => fate[s] = "ended"
  BY DEF CollectInv, Resolve
<1> QED
  BY <1>1, CollectFrame

\* A step of send keeps the invariant.
LEMMA SendCollect ==
  ASSUME CollectInv,
         SendNext \/ SendOK \/ Retry \/ Interrupt
           \/ \E retryable \in BOOLEAN, pause \in Pauses : SendFails(retryable, pause)
  PROVE  CollectInv'
<1>1. CASE UNCHANGED <<clocks, phase, flushStart, cur, endedAt, fate>>
  BY <1>1, CollectFrame DEF CollectInv
<1>2. ASSUME NEW f \in {"posted", "failed", "logged"}, Resolve(f),
             UNCHANGED <<clocks, phase, flushStart, cur, endedAt>>
      PROVE  CollectInv'
  BY <1>2, SettleFrame
<1>3. CASE SendNext
  BY <1>1, <1>2, <1>3 DEF SendNext, Fail
<1>4. CASE SendOK
  BY <1>2, <1>4 DEF SendOK
<1>5. CASE Retry
  BY <1>1, <1>5 DEF Retry
<1>6. CASE Interrupt
  BY <1>2, <1>6 DEF Interrupt, Fail
<1>7. ASSUME NEW retryable \in BOOLEAN, NEW pause \in Pauses, SendFails(retryable, pause)
      PROVE  CollectInv'
  BY <1>1, <1>2, <1>7 DEF SendFails, Fail
<1> QED
  BY <1>3, <1>4, <1>5, <1>6, <1>7

\* A window ends now, and no flush began later than now.
LEMMA WindowCollect ==
  ASSUME ClockInv, CollectInv, NEW w \in Summaries, WindowEnds(w[1], w[2])
  PROVE  CollectInv'
<1>1. /\ phase # "exited" /\ UNCHANGED <<clocks, phase, flushStart, cur>>
      /\ fate' = [fate EXCEPT ![w] = "ended"] /\ endedAt' = [endedAt EXCEPT ![w] = now]
  <2>1. w = <<w[1], w[2]>>
    BY DEF Summaries
  <2> QED
    BY <2>1 DEF WindowEnds
<1>2. now \in Nat /\ tickAt \in Nat /\ flushStart \in Nat /\ ticked \in BOOLEAN
  BY DEF ClockInv, ClockTypes
<1>3. now >= LastStart /\ LastStart \in Int
  BY <1>1, <1>2 DEF ClockInv, ClockTypes, Rhythm, LastStart
<1>4. /\ fate' \in [Summaries -> {"none", "ended", "taken", "posted", "failed", "logged"}]
      /\ endedAt' \in [Summaries -> Nat] /\ cur' \in 0..N
  BY <1>1, <1>2 DEF CollectInv
<1>5. ASSUME NEW s \in Summaries, fate'[s] = "ended" PROVE EndedSince(s)'
  <2>1. CASE s = w
    BY <1>1, <1>2, <1>3, <2>1 DEF CollectInv, EndedSince, LastStart, clocks
  <2>2. CASE s # w
    BY <1>1, <1>5, <2>2 DEF CollectInv, EndedSince, LastStart, clocks
  <2> QED
    BY <2>1, <2>2
<1> QED
  BY <1>4, <1>5 DEF CollectInv

\* due takes what has ended for its output; later ends are after the start of
\* this flush.
LEMMA CollectCollect ==
  ASSUME ClockInv, CollectInv, Collect
  PROVE  CollectInv'
<1>1. /\ phase = "flushing" /\ cur < N /\ cur' = cur + 1 /\ UNCHANGED <<clocks, phase, flushStart>>
      /\ fate' = [s \in Summaries |-> IF s[1] = cur + 1 /\ fate[s] = "ended" THEN "taken" ELSE fate[s]]
      /\ endedAt' = [s \in Summaries |-> IF s[1] = cur + 1 THEN 0 ELSE endedAt[s]]
  BY DEF Collect
<1>2. /\ fate' \in [Summaries -> {"none", "ended", "taken", "posted", "failed", "logged"}]
      /\ endedAt' \in [Summaries -> Nat] /\ cur' \in 0..N
  BY <1>1 DEF CollectInv
<1>3. ASSUME NEW s \in Summaries, fate'[s] = "ended" PROVE EndedSince(s)'
  <2>1. s[1] # cur + 1 /\ fate[s] = "ended" /\ endedAt'[s] = endedAt[s]
    BY <1>1, <1>3
  <2>2. s[1] \in Nat /\ cur \in Nat
    BY DEF Summaries, Outputs, CollectInv
  <2>3. cur < s[1] <=> cur' < s[1]
    BY <1>1, <2>1, <2>2
  <2>4. EndedSince(s)
    BY <1>1, <2>1 DEF CollectInv
  <2> QED
    BY <1>1, <2>1, <2>3, <2>4 DEF EndedSince, LastStart
<1> QED
  BY <1>2, <1>3 DEF CollectInv

\* Every step keeps the invariant.
LEMMA NextCollect == ClockInv /\ CollectInv /\ [Next]_vars => CollectInv'
<1> SUFFICES ASSUME ClockInv, CollectInv, [Next]_vars PROVE CollectInv'
  OBVIOUS
<1>1. CASE \E s \in Summaries : WindowEnds(s[1], s[2])
  BY <1>1, WindowCollect
<1>2. CASE TickerFires
  <2>1. /\ UNCHANGED <<phase, flushStart, cur, fate, endedAt>>
        /\ phase # "exited" /\ ticked' = TRUE /\ tickAt' = tickAt + Every
    BY <1>2 DEF TickerFires
  <2>2. ~ticked /\ tickAt \in Nat
    BY <1>2 DEF TickerFires, ClockInv, ClockTypes, Rhythm
  <2>3. LastStart' = LastStart
    BY <2>1, <2>2 DEF LastStart
  <2> QED
    BY <2>1, <2>3 DEF CollectInv, EndedSince
<1>3. CASE Signal
  BY <1>3, CollectFrame DEF Signal, CollectInv
<1>4. CASE StartFlush
  <2>1. /\ ticked /\ phase = "select" /\ phase' = "flushing" /\ flushStart' = now /\ cur' = 0
        /\ UNCHANGED <<fate, endedAt>>
    BY <1>4 DEF StartFlush
  <2>2. now \in Nat /\ tickAt \in Nat /\ now = tickAt - Every
    BY <2>1 DEF ClockInv, ClockTypes, Rhythm
  <2>3. LastStart = now - Every /\ LastStart' = now
    BY <2>1, <2>2 DEF LastStart
  <2>4. ASSUME NEW s \in Summaries, fate[s] = "ended" PROVE EndedSince(s)'
    <3>1. endedAt[s] \in Nat /\ endedAt[s] >= now - Every
      BY <2>1, <2>2, <2>3, <2>4 DEF CollectInv, EndedSince
    <3>2. cur' < s[1]
      BY <2>1 DEF Summaries, Outputs
    <3> QED
      BY <2>1, <2>2, <2>3, <3>1, <3>2 DEF EndedSince
  <2> QED
    BY <2>1, <2>4 DEF CollectInv
<1>5. CASE Exit
  BY <1>5, CollectFrame DEF Exit, CollectInv
<1>6. CASE FlushStep
  <2>1. CASE Collect
    BY <2>1, CollectCollect
  <2>2. CASE EndFlush
    <3>1. /\ phase = "flushing" /\ phase' = "select" /\ cur = N
          /\ UNCHANGED <<clocks, flushStart, cur, fate, endedAt>>
      BY <2>2 DEF EndFlush
    <3>2. LastStart' = LastStart
      BY <3>1 DEF LastStart, clocks, ClockInv, ClockTypes, Rhythm
    <3>3. \A s \in Summaries : ~(cur < s[1])
      BY <3>1 DEF Summaries, Outputs
    <3> QED
      BY <3>1, <3>2, <3>3 DEF CollectInv, EndedSince
  <2> QED
    BY <1>6, <2>1, <2>2, SendCollect DEF FlushStep
<1>7. CASE Tick
  <2>1. UNCHANGED <<tickAt, ticked, phase, flushStart, cur, fate, endedAt>>
    BY <1>7 DEF Tick
  <2> QED
    BY <2>1 DEF CollectInv, EndedSince, LastStart
<1>8. CASE UNCHANGED vars
  BY <1>8, CollectFrame DEF vars, CollectInv
<1> QED
  BY <1>1, <1>2, <1>3, <1>4, <1>5, <1>6, <1>7, <1>8 DEF Next

\* No summary waits longer than two intervals for due, whatever the outputs
\* before its own do.
THEOREM CollectionHolds == Spec => []CollectedInTime
<1>1. ClockInv /\ CollectInv => CollectedInTime
  <2> SUFFICES ASSUME ClockInv, CollectInv, phase # "exited",
                      NEW s \in Summaries, fate[s] = "ended"
               PROVE  now - endedAt[s] <= 2 * Every
    BY DEF CollectedInTime
  <2>1. now \in Nat /\ endedAt[s] \in Nat /\ EndedSince(s) /\ LastStart \in Int
    BY DEF ClockInv, ClockTypes, CollectInv, LastStart
  <2>2. CASE phase = "flushing"
    BY <2>1, <2>2 DEF ClockInv, ClockTypes, Rhythm, EndedSince, LastStart
  <2>3. CASE phase = "select"
    <3>1. now <= LastStart + Every
      BY <2>3 DEF ClockInv, ClockTypes, Rhythm, LastStart
    <3> QED
      BY <2>1, <2>3, <3>1 DEF EndedSince
  <2> QED
    BY <2>2, <2>3 DEF ClockInv, ClockTypes
<1>2. ClockInv /\ CollectInv /\ [Next]_vars => ClockInv' /\ CollectInv'
  BY NextClock, NextCollect
<1> QED
  BY InitClock, InitCollect, <1>1, <1>2, PTL DEF Spec
-----------------------------------------------------------------------------
(* Types *)

\* TypeOK, and what it takes: who pauses has an attempt left.
TypesInv == TypeOK /\ (pc = "waiting" => attempt < Attempts)

\* A summary that is done with leaves the rest as it was.
LEMMA ResolveTypes ==
  ASSUME TypeOK, NEW f \in {"posted", "failed", "logged"}, Resolve(f)
  PROVE  /\ batch' \subseteq 1..Windows
         /\ pc' = "idle" /\ since' = 0 /\ attempt' = 0 /\ timer' = 0
         /\ fate' \in [Summaries -> {"none", "ended", "taken", "posted", "failed", "logged"}]
BY DEF Resolve, TypeOK

\* A step of send: it is done with the summary, or the attempts are within
\* the policy.
LEMMA SendTypes ==
  ASSUME TypesInv, UNCHANGED <<clocks, phase, flushStart, cur, endedAt, term>>,
         \/ \E f \in {"posted", "failed", "logged"} : Resolve(f)
         \/ /\ UNCHANGED <<batch, fate>> /\ since' = now /\ timer' \in Nat
            /\ \/ pc' = "sending" /\ attempt' \in 1..Attempts
               \/ pc' = "waiting" /\ attempt' \in 1..Attempts /\ attempt' < Attempts
  PROVE  TypesInv'
<1>1. CASE \E f \in {"posted", "failed", "logged"} : Resolve(f)
  BY <1>1, ResolveTypes DEF TypesInv, TypeOK, clocks
<1>2. CASE /\ UNCHANGED <<batch, fate>> /\ since' = now /\ timer' \in Nat
           /\ \/ pc' = "sending" /\ attempt' \in 1..Attempts
              \/ pc' = "waiting" /\ attempt' \in 1..Attempts /\ attempt' < Attempts
  BY <1>2 DEF TypesInv, TypeOK, clocks
<1> QED
  BY <1>1, <1>2

\* Every step keeps the types.
LEMMA NextTypes == TypesInv /\ [Next]_vars => TypesInv'
<1> SUFFICES ASSUME TypesInv, [Next]_vars PROVE TypesInv'
  OBVIOUS
<1> USE DEF TypesInv, clocks, sending
<1>1. ASSUME NEW s \in Summaries, WindowEnds(s[1], s[2]) PROVE TypesInv'
  BY <1>1 DEF WindowEnds, TypeOK
<1>2. CASE TickerFires
  BY <1>2 DEF TickerFires, TypeOK
<1>3. CASE Signal
  BY <1>3 DEF Signal, TypeOK
<1>4. CASE StartFlush
  <2>1. 0 \in 0..N /\ {} \subseteq 1..Windows
    OBVIOUS
  <2> QED
    BY <1>4, <2>1 DEF StartFlush, TypeOK
<1>5. CASE Exit
  BY <1>5 DEF Exit, TypeOK
<1>6. CASE EndFlush
  BY <1>6 DEF EndFlush, TypeOK
<1>7. CASE Collect
  <2>1. cur' \in 0..N /\ batch' \subseteq 1..Windows
    BY <1>7 DEF Collect, Ended, TypeOK
  <2>2. fate' \in [Summaries -> {"none", "ended", "taken", "posted", "failed", "logged"}]
    BY <1>7 DEF Collect, TypeOK
  <2>3. endedAt' \in [Summaries -> Nat]
    BY <1>7 DEF Collect, TypeOK
  <2> QED
    BY <1>7, <2>1, <2>2, <2>3 DEF Collect, TypeOK
<1>8. CASE SendNext
  <2>1. CASE DryRun \/ CtxOver
    BY <1>8, <2>1, SendTypes DEF SendNext, Fail
  <2>2. CASE ~DryRun /\ ~CtxOver
    BY <1>8, <2>2, SendTypes DEF SendNext, TypeOK
  <2> QED
    BY <2>1, <2>2
<1>9. CASE SendOK
  BY <1>9, SendTypes DEF SendOK
<1>10. ASSUME NEW retryable \in BOOLEAN, NEW pause \in Pauses, SendFails(retryable, pause)
       PROVE  TypesInv'
  <2>1. CASE GiveUp(retryable) \/ Deadline - now < pause
    BY <1>10, <2>1, SendTypes DEF SendFails, Fail
  <2>2. CASE ~(GiveUp(retryable) \/ Deadline - now < pause)
    <3>1. now + pause \in Nat /\ attempt < Attempts
      BY <2>2 DEF GiveUp, TypeOK
    <3> QED
      BY <1>10, <2>2, <3>1 DEF SendFails, TypeOK
  <2> QED
    BY <2>1, <2>2
<1>11. CASE Retry
  BY <1>11, SendTypes DEF Retry, TypeOK
<1>12. CASE Interrupt
  BY <1>12, SendTypes DEF Interrupt, Fail
<1>13. CASE Tick
  BY <1>13 DEF Tick, TypeOK
<1>14. CASE UNCHANGED vars
  BY <1>14 DEF vars, TypeOK
<1> QED
  BY <1>1, <1>2, <1>3, <1>4, <1>5, <1>6, <1>7, <1>8, <1>9, <1>10, <1>11, <1>12, <1>13, <1>14
  DEF Next, FlushStep

\* Every variable has its type, and no summary gets more attempts than its policy.
THEOREM TypeCorrect == Spec => []TypeOK
<1>1. ASSUME Init PROVE TypesInv
  <2>1. 0 \in 0..N /\ 0 \in 0..Attempts /\ {} \subseteq 1..Windows /\ Every \in Nat
    OBVIOUS
  <2>2. /\ fate \in [Summaries -> {"none", "ended", "taken", "posted", "failed", "logged"}]
        /\ endedAt \in [Summaries -> Nat]
    BY <1>1 DEF Init
  <2> QED
    BY <1>1, <2>1, <2>2 DEF Init, TypesInv, TypeOK
<1>2. TypesInv => TypeOK
  BY DEF TypesInv
<1> QED
  BY <1>1, <1>2, NextTypes, PTL DEF Spec
=============================================================================
