--------------------------- MODULE DispatchProofs ---------------------------
(***************************************************************************)
(* Proofs about Dispatch.tla, for any outputs, retry policies, timeouts,   *)
(* status codes and Retry-After delays.                                    *)
(***************************************************************************)
EXTENDS Dispatch, FiniteSetTheorems, WellFoundedInduction, TLAPS

USE DispatchAssumption DEF DispatchAssumption

\* Bigger and Smaller return one of their arguments.
LEMMA MinMax ==
  ASSUME NEW a \in Int, NEW b \in Int
  PROVE  /\ Bigger(a, b) \in {a, b} /\ Bigger(a, b) >= a /\ Bigger(a, b) >= b
         /\ Smaller(a, b) \in {a, b} /\ Smaller(a, b) <= a /\ Smaller(a, b) <= b
BY DEF Bigger, Smaller

\* Every error carries a Retry-After delay that is a natural number.
LEMMA ErrorDelay == \A err \in Errors : err.retryAfter \in Nat
<1> SUFFICES ASSUME NEW err \in Errors PROVE err.retryAfter \in Nat
  OBVIOUS
<1>1. CASE err \in [kind : {"permanent", "connection"}, code : {0}, retryAfter : {0}]
  BY <1>1
<1>2. CASE err \in [kind : {"status"}, code : Codes, retryAfter : RetryAfters]
  <2>1. err.retryAfter \in RetryAfters
    BY <1>2
  <2> QED
    BY <2>1 DEF DispatchAssumption
<1> QED
  BY <1>1, <1>2 DEF Errors

\* The wait before a retry covers the backoff and the endpoint's Retry-After.
LEMMA PauseCovers ==
  ASSUME TypeOK, NEW o \in Outputs, NEW err \in Errors
  PROVE  /\ Pause(o, err) \in Nat
         /\ Pause(o, err) >= wait[o]
         /\ Pause(o, err) >= err.retryAfter
<1>1. wait[o] \in Nat /\ err.retryAfter \in Nat
  BY ErrorDelay DEF TypeOK
<1> QED
  BY <1>1, MinMax DEF Pause
-----------------------------------------------------------------------------
(* Type correctness *)

\* The initial state is well typed.
LEMMA InitType == Init => TypeOK
<1> SUFFICES ASSUME Init PROVE TypeOK
  OBVIOUS
<1>1. /\ calling \in BOOLEAN /\ stopped \in BOOLEAN /\ acked \in BOOLEAN
      /\ elapsed \in Nat /\ stopAt \in Nat
  BY DEF Init
<1>2. pc \in [Outputs -> PCs] /\ result \in [Outputs -> Results]
  BY DEF Init, PCs, Results
<1>3. /\ attempt \in [Outputs -> Nat] /\ wait \in [Outputs -> 0..MaxRetryBackoff]
      /\ since \in [Outputs -> Nat] /\ timer \in [Outputs -> Nat]
      /\ asked \in [Outputs -> Nat]
      /\ accepted \in SUBSET Outputs /\ stored \in SUBSET Outputs
  BY DEF Init
<1> QED
  BY <1>1, <1>2, <1>3 DEF TypeOK

\* Every step, whatever it fails or retries, keeps the types.
LEMMA NextType == TypeOK /\ [Next]_vars => TypeOK'
<1> SUFFICES ASSUME TypeOK, [Next]_vars PROVE TypeOK'
  OBVIOUS
<1> USE DEF TypeOK, PCs, Results
<1>1. ASSUME NEW matched \in SUBSET Outputs, NEW held \in SUBSET Outputs, Begin(matched, held)
      PROVE  TypeOK'
  <2>1. result' \in [Outputs -> Results]
    BY <1>1 DEF Begin, Route
  <2>2. pc' \in [Outputs -> PCs] /\ attempt' \in [Outputs -> Nat]
    BY <1>1 DEF Begin
  <2>3. /\ calling' \in BOOLEAN /\ stopped' \in BOOLEAN /\ acked' \in BOOLEAN
        /\ elapsed' \in Nat /\ stopAt' \in Nat
    BY <1>1 DEF Begin
  <2>4. /\ wait' \in [Outputs -> 0..MaxRetryBackoff] /\ since' \in [Outputs -> Nat]
        /\ timer' \in [Outputs -> Nat] /\ asked' \in [Outputs -> Nat]
        /\ accepted' \in SUBSET Outputs /\ stored' \in SUBSET Outputs
    BY <1>1 DEF Begin
  <2> QED
    BY <2>1, <2>2, <2>3, <2>4
<1>2. ASSUME NEW o \in Outputs, SendOK(o) PROVE TypeOK'
  BY <1>2 DEF SendOK
<1>3. ASSUME NEW o \in Outputs, NEW err \in Errors, NEW took \in BOOLEAN, SendFails(o, err, took)
      PROVE  TypeOK'
  <2>1. err.retryAfter \in Nat /\ Pause(o, err) \in Nat
    BY ErrorDelay, PauseCovers
  <2>2. CASE Fail(o) /\ timer' = timer
    BY <1>3, <2>1, <2>2 DEF SendFails, Fail
  <2>3. CASE ~(GiveUp(o, err) \/ ~Fits(Pause(o, err)))
    BY <1>3, <2>1, <2>3 DEF SendFails
  <2> QED
    BY <1>3, <2>2, <2>3 DEF SendFails
<1>4. ASSUME NEW o \in Outputs, Retry(o) PROVE TypeOK'
  <2>1. wait[o] \in Nat /\ 2 * wait[o] \in Nat
    OBVIOUS
  <2>2. Doubled(wait[o]) \in 0..MaxRetryBackoff
    BY <2>1 DEF Doubled, Smaller
  <2> QED
    BY <1>4, <2>2 DEF Retry, outside
<1>5. ASSUME NEW o \in Outputs, Interrupt(o) PROVE TypeOK'
  BY <1>5 DEF Interrupt, Fail, outside
<1>6. ASSUME NEW o \in Outputs, ParkOK(o) PROVE TypeOK'
  BY <1>6 DEF ParkOK
<1>7. ASSUME NEW o \in Outputs, NEW took \in BOOLEAN, ParkFails(o, took) PROVE TypeOK'
  BY <1>7 DEF ParkFails
<1>8. CASE Return
  BY <1>8 DEF Return, control, outside
<1>9. CASE Stop
  BY <1>9 DEF Stop, control, outside
<1>10. CASE Tick
  BY <1>10 DEF Tick, control, outside
<1>11. CASE UNCHANGED vars
  BY <1>11 DEF vars, control, outside
<1> HIDE DEF TypeOK, PCs, Results
<1> QED
  BY <1>1, <1>2, <1>3, <1>4, <1>5, <1>6, <1>7, <1>8, <1>9, <1>10, <1>11 DEF Next, OutputStep

\* Every variable keeps its type, in every step of every output.
THEOREM TypeCorrect == Spec => []TypeOK
BY InitType, NextType, PTL DEF Spec
-----------------------------------------------------------------------------
(* Time.  Each busy output is before the instant it has to act at, and     *)
(* that instant is inside the budget.                                      *)

SinceInv == \A o \in Outputs : pc[o] \in Busy => since[o] <= elapsed

IdleInv == ~calling => \A o \in Outputs : pc[o] \notin Busy

SendingInv == \A o \in Outputs : pc[o] = "sending" => /\ since[o] <= DispatchTimeout
                                                       /\ elapsed <= SendDue(o)

WaitingInv == \A o \in Outputs : pc[o] = "waiting" => /\ elapsed <= timer[o]
                                                       /\ timer[o] <= DispatchTimeout

ParkingInv == \A o \in Outputs : pc[o] = "parking" => /\ since[o] <= DispatchTimeout
                                                       /\ elapsed <= since[o] + ParkTimeout

TimeInv == TypeOK /\ SinceInv /\ IdleInv /\ SendingInv /\ WaitingInv /\ ParkingInv /\ Budget

(* Shutdown.  With a positive backoff no retry starts after the stop, so   *)
(* what is in flight began before it, or is a first attempt at time 0.     *)

WaitPositive == \A o \in Outputs : pc[o] \in {"sending", "waiting"} => wait[o] > 0

StopSending == \A o \in Outputs : pc[o] = "sending" => since[o] <= stopAt

StopWaiting == \A o \in Outputs :
                 pc[o] = "waiting" => /\ elapsed <= stopAt + HttpTimeout
                                      /\ elapsed < timer[o] \/ elapsed <= stopAt

StopParking == \A o \in Outputs : pc[o] = "parking" => since[o] <= stopAt + HttpTimeout

StopInv == /\ WaitPositive
           /\ calling /\ stopped => /\ StopSending /\ StopWaiting /\ StopParking
                                    /\ elapsed <= stopAt + HttpTimeout + ParkTimeout

(* Outcomes.  A result stands for what happened outside.                   *)

ResultInv == \A o \in Outputs :
               /\ result[o] = "sent" => o \in accepted
               /\ result[o] = "parked" => o \in stored
               /\ result[o] = "failed" => ~DeadLetterOn
               /\ pc[o] = "parking" => DeadLetterOn

AckInv == ~calling /\ acked => ~Undelivered
-----------------------------------------------------------------------------
\* No time has passed when the dispatcher starts.
LEMMA InitTime == Init => TimeInv
<1> SUFFICES ASSUME Init PROVE TimeInv
  OBVIOUS
<1>1. TypeOK
  BY InitType
<1>2. SinceInv /\ IdleInv /\ SendingInv /\ WaitingInv /\ ParkingInv
  BY DEF Init, SinceInv, IdleInv, SendingInv, WaitingInv, ParkingInv, Busy
<1>3. Budget
  BY DEF Init, Budget
<1> QED
  BY <1>1, <1>2, <1>3 DEF TimeInv

\* A step of an output leaves the others and the clock alone: it is enough to
\* look at that output, o.
LEMMA TimeOfOthers ==
  ASSUME TimeInv, TypeOK', NEW o \in Outputs,
         calling' = calling, elapsed' = elapsed, calling,
         \A p \in Outputs \ {o} : pc'[p] = pc[p] /\ since'[p] = since[p] /\ timer'[p] = timer[p],
         pc'[o] \in Busy => since'[o] <= elapsed,
         pc'[o] = "sending" => since'[o] <= DispatchTimeout /\ elapsed <= SendDue(o)',
         pc'[o] = "waiting" => elapsed <= timer'[o] /\ timer'[o] <= DispatchTimeout,
         pc'[o] = "parking" => since'[o] <= DispatchTimeout /\ elapsed <= since'[o] + ParkTimeout
  PROVE  TimeInv'
<1>1. SinceInv' /\ IdleInv'
  BY DEF TimeInv, SinceInv, IdleInv
<1>2. SendingInv'
  BY DEF TimeInv, SendingInv, SendDue
<1>3. WaitingInv'
  BY DEF TimeInv, WaitingInv
<1>4. ParkingInv'
  BY DEF TimeInv, ParkingInv
<1>5. Budget'
  BY DEF TimeInv, Budget
<1> QED
  BY <1>1, <1>2, <1>3, <1>4, <1>5 DEF TimeInv

\* Every step keeps the timing invariant: each goroutine's deadline is within
\* the budget of the call.
LEMMA NextTime == TimeInv /\ [Next]_vars => TimeInv'
<1> SUFFICES ASSUME TimeInv, [Next]_vars PROVE TimeInv'
  OBVIOUS
<1>0. TypeOK /\ TypeOK'
  BY NextType DEF TimeInv
<1>1. ASSUME NEW matched \in SUBSET Outputs, NEW held \in SUBSET Outputs, Begin(matched, held)
      PROVE  TimeInv'
  <2>1. /\ calling' /\ elapsed' = 0
        /\ \A o \in Outputs : since'[o] = 0 /\ pc'[o] \in {"sending", "done"}
    BY <1>1 DEF Begin
  <2>2. \A o \in Outputs : 0 <= SendDue(o)'
    BY <2>1 DEF SendDue, Smaller
  <2>3. SinceInv' /\ IdleInv' /\ SendingInv' /\ WaitingInv' /\ ParkingInv'
    BY <2>1, <2>2 DEF SinceInv, IdleInv, SendingInv, WaitingInv, ParkingInv
  <2>4. Budget'
    BY <2>1 DEF Budget
  <2> QED
    BY <1>0, <2>3, <2>4 DEF TimeInv
<1>2. ASSUME NEW o \in Outputs, SendOK(o) PROVE TimeInv'
  <2>1. calling
    BY <1>2 DEF SendOK, TimeInv, IdleInv, Busy
  <2> QED
    BY <1>0, <1>2, <2>1, TimeOfOthers DEF SendOK, TypeOK, Busy
<1>3. ASSUME NEW o \in Outputs, NEW err \in Errors, NEW took \in BOOLEAN, SendFails(o, err, took)
      PROVE  TimeInv'
  <2>1. calling /\ elapsed <= DispatchTimeout
    BY <1>0, <1>3 DEF SendFails, TimeInv, IdleInv, SendingInv, SendDue, Smaller, Busy, TypeOK
  <2>2. CASE Fail(o) /\ timer' = timer
    BY <1>0, <1>3, <2>1, <2>2, TimeOfOthers DEF SendFails, Fail, TypeOK, Busy
  <2>3. CASE ~(GiveUp(o, err) \/ ~Fits(Pause(o, err)))
    <3>1. Pause(o, err) \in Nat
      BY <1>0, PauseCovers
    <3>2. /\ timer' = [timer EXCEPT ![o] = elapsed + Pause(o, err)]
          /\ pc' = [pc EXCEPT ![o] = "waiting"]
          /\ since' = [since EXCEPT ![o] = elapsed]
      BY <1>3, <2>3 DEF SendFails
    <3>3. elapsed <= timer'[o] /\ timer'[o] <= DispatchTimeout
      BY <1>0, <2>3, <3>1, <3>2 DEF Fits, TypeOK
    <3> QED
      BY <1>0, <1>3, <2>1, <3>2, <3>3, TimeOfOthers DEF SendFails, TypeOK, Busy
  <2> QED
    BY <1>3, <2>2, <2>3 DEF SendFails
<1>4. ASSUME NEW o \in Outputs, Retry(o) PROVE TimeInv'
  <2>1. calling /\ elapsed <= DispatchTimeout
    BY <1>0, <1>4 DEF Retry, TimeInv, IdleInv, WaitingInv, Busy, TypeOK
  <2>2. since'[o] = elapsed /\ elapsed <= SendDue(o)'
    BY <1>0, <1>4, <2>1 DEF Retry, SendDue, Smaller, TypeOK
  <2> QED
    BY <1>0, <1>4, <2>1, <2>2, TimeOfOthers DEF Retry, TypeOK, Busy
<1>5. ASSUME NEW o \in Outputs, Interrupt(o) PROVE TimeInv'
  <2>1. calling /\ elapsed <= DispatchTimeout
    BY <1>0, <1>5 DEF Interrupt, TimeInv, IdleInv, WaitingInv, Busy, TypeOK
  <2> QED
    BY <1>0, <1>5, <2>1, TimeOfOthers DEF Interrupt, Fail, TypeOK, Busy
<1>6. ASSUME NEW o \in Outputs, ParkOK(o) PROVE TimeInv'
  <2>1. calling
    BY <1>6 DEF ParkOK, TimeInv, IdleInv, Busy
  <2> QED
    BY <1>0, <1>6, <2>1, TimeOfOthers DEF ParkOK, TypeOK, Busy
<1>7. ASSUME NEW o \in Outputs, NEW took \in BOOLEAN, ParkFails(o, took) PROVE TimeInv'
  <2>1. calling
    BY <1>7 DEF ParkFails, TimeInv, IdleInv, Busy
  <2> QED
    BY <1>0, <1>7, <2>1, TimeOfOthers DEF ParkFails, TypeOK, Busy
<1>8. CASE Return
  <2>1. UNCHANGED <<elapsed, pc, since, timer>> /\ ~calling' /\ \A o \in Outputs : pc[o] \notin Busy
    BY <1>8 DEF Return, control
  <2>2. SinceInv' /\ IdleInv' /\ SendingInv' /\ WaitingInv' /\ ParkingInv'
    BY <2>1 DEF SinceInv, IdleInv, SendingInv, WaitingInv, ParkingInv, Busy
  <2> QED
    BY <1>0, <2>1, <2>2 DEF TimeInv, Budget
<1>9. CASE Stop
  BY <1>0, <1>9 DEF Stop, control, TimeInv, SinceInv, IdleInv, SendingInv, SendDue, WaitingInv, ParkingInv, Budget
<1>10. CASE Tick
  <2>1. /\ calling /\ calling' /\ elapsed' = elapsed + 1
        /\ UNCHANGED <<pc, since, timer>>
    BY <1>10 DEF Tick, control
  <2>2. ASSUME NEW o \in Outputs
        PROVE  /\ pc[o] = "sending" => elapsed + 1 <= SendDue(o) /\ SendDue(o) \in Nat
                                        /\ SendDue(o) <= DispatchTimeout
               /\ pc[o] = "waiting" => elapsed + 1 <= timer[o]
               /\ pc[o] = "parking" => elapsed + 1 <= since[o] + ParkTimeout
    BY <1>0, <1>10 DEF Tick, Quiet, SendDue, Smaller, TypeOK
  <2>3. SinceInv' /\ IdleInv' /\ WaitingInv' /\ ParkingInv'
    BY <1>0, <2>1, <2>2 DEF TimeInv, SinceInv, IdleInv, WaitingInv, ParkingInv, TypeOK
  <2>4. SendingInv'
    BY <1>0, <2>1, <2>2 DEF TimeInv, SendingInv, SendDue, TypeOK
  <2>5. Budget'
    <3>1. PICK o \in Outputs : pc[o] \in Busy
      BY <1>10 DEF Tick
    <3>2. elapsed + 1 <= DispatchTimeout + ParkTimeout
      BY <1>0, <2>2, <3>1 DEF Busy, TimeInv, WaitingInv, ParkingInv, TypeOK
    <3> QED
      BY <2>1, <3>2 DEF Budget
  <2> QED
    BY <1>0, <2>3, <2>4, <2>5 DEF TimeInv
<1>11. CASE UNCHANGED vars
  BY <1>0, <1>11 DEF vars, control, TimeInv, SinceInv, IdleInv, SendingInv, SendDue, WaitingInv, ParkingInv, Budget
<1> QED
  BY <1>1, <1>2, <1>3, <1>4, <1>5, <1>6, <1>7, <1>8, <1>9, <1>10, <1>11 DEF Next, OutputStep

\* One Dispatch call never outlasts its budget and one dead-letter write: an
\* entry handed to the worker is settled before the visibility timeout.
THEOREM BudgetHolds == Spec => []Budget
<1>1. TimeInv => Budget
  BY DEF TimeInv
<1> QED
  BY InitTime, NextTime, <1>1, PTL DEF Spec
-----------------------------------------------------------------------------
\* A new dispatcher is not stopped and its waits are the positive backoffs.
LEMMA InitStop == Init => StopInv
BY DEF Init, StopInv, WaitPositive

\* As TimeOfOthers, for the conjuncts of the shutdown invariant.
LEMMA StopOfOthers ==
  ASSUME StopInv, TypeOK, TypeOK', NEW o \in Outputs,
         calling' = calling, elapsed' = elapsed, stopped' = stopped, stopAt' = stopAt,
         \A p \in Outputs \ {o} : /\ pc'[p] = pc[p] /\ since'[p] = since[p]
                                  /\ timer'[p] = timer[p] /\ wait'[p] = wait[p],
         pc'[o] \in {"sending", "waiting"} => wait'[o] > 0,
         calling /\ stopped =>
           /\ pc'[o] = "sending" => since'[o] <= stopAt
           /\ pc'[o] = "waiting" => /\ elapsed <= stopAt + HttpTimeout
                                    /\ elapsed < timer'[o] \/ elapsed <= stopAt
           /\ pc'[o] = "parking" => since'[o] <= stopAt + HttpTimeout
  PROVE  StopInv'
<1>1. WaitPositive'
  BY DEF StopInv, WaitPositive
<1>2. ASSUME calling', stopped'
      PROVE  StopSending' /\ StopWaiting' /\ StopParking' /\ (elapsed <= stopAt + HttpTimeout + ParkTimeout)'
  BY <1>2 DEF StopInv, StopSending, StopWaiting, StopParking
<1> QED
  BY <1>1, <1>2 DEF StopInv

\* With positive backoffs every step keeps the shutdown invariant.
LEMMA NextStop ==
  ASSUME \A o \in Outputs : Backoff[o] > 0, TimeInv, StopInv, [Next]_vars
  PROVE  StopInv'
<1>0. TypeOK /\ TypeOK' /\ TimeInv'
  BY NextType, NextTime DEF TimeInv
<1>1. ASSUME NEW matched \in SUBSET Outputs, NEW held \in SUBSET Outputs, Begin(matched, held)
      PROVE  StopInv'
  <2>1. /\ calling' /\ elapsed' = 0 /\ stopAt' = 0 /\ wait' = Backoff
        /\ \A o \in Outputs : since'[o] = 0 /\ pc'[o] \in {"sending", "done"}
    BY <1>1 DEF Begin
  <2> QED
    BY <2>1 DEF StopInv, WaitPositive, StopSending, StopWaiting, StopParking
<1>2. ASSUME NEW o \in Outputs, SendOK(o) PROVE StopInv'
  BY <1>0, <1>2, StopOfOthers DEF SendOK, TypeOK
<1>3. ASSUME NEW o \in Outputs, NEW err \in Errors, NEW took \in BOOLEAN, SendFails(o, err, took)
      PROVE  StopInv'
  <2>1. wait[o] > 0 /\ (calling /\ stopped => elapsed <= stopAt + HttpTimeout)
    BY <1>0, <1>3 DEF SendFails, StopInv, WaitPositive, StopSending, TimeInv, SendingInv,
                      SendDue, Smaller, TypeOK
  <2>2. CASE Fail(o) /\ timer' = timer
    BY <1>0, <1>3, <2>1, <2>2, StopOfOthers DEF SendFails, Fail, TypeOK
  <2>3. CASE ~(GiveUp(o, err) \/ ~Fits(Pause(o, err)))
    <3>1. Pause(o, err) \in Nat /\ Pause(o, err) > 0
      BY <1>0, <2>1, PauseCovers DEF TypeOK
    <3>2. /\ timer' = [timer EXCEPT ![o] = elapsed + Pause(o, err)]
          /\ pc' = [pc EXCEPT ![o] = "waiting"]
          /\ since' = [since EXCEPT ![o] = elapsed]
          /\ UNCHANGED <<calling, elapsed, stopped, stopAt, wait>>
      BY <1>3, <2>3 DEF SendFails
    <3>3. elapsed < timer'[o]
      BY <1>0, <3>1, <3>2 DEF TypeOK
    <3> QED
      BY <1>0, <2>1, <3>2, <3>3, StopOfOthers DEF TypeOK
  <2> QED
    BY <1>3, <2>2, <2>3 DEF SendFails
<1>4. ASSUME NEW o \in Outputs, Retry(o) PROVE StopInv'
  <2>1. wait'[o] = Smaller(2 * wait[o], MaxRetryBackoff) /\ wait[o] > 0 /\ wait[o] \in Nat
    BY <1>0, <1>4 DEF Retry, Doubled, StopInv, WaitPositive, TypeOK
  <2>2. MaxRetryBackoff \in Int /\ MaxRetryBackoff > 0
    OBVIOUS
  <2>3. wait'[o] > 0
    <3>1. Smaller(2 * wait[o], MaxRetryBackoff) \in {2 * wait[o], MaxRetryBackoff}
      BY DEF Smaller
    <3> QED
      BY <2>1, <2>2, <3>1
  <2>4. calling /\ stopped => since'[o] <= stopAt
    BY <1>0, <1>4 DEF Retry, StopInv, StopWaiting, TypeOK
  <2> QED
    BY <1>0, <1>4, <2>3, <2>4, StopOfOthers DEF Retry, TypeOK
<1>5. ASSUME NEW o \in Outputs, Interrupt(o) PROVE StopInv'
  <2>1. calling /\ stopped => elapsed <= stopAt + HttpTimeout
    BY <1>0, <1>5 DEF Interrupt, StopInv, StopWaiting, TypeOK
  <2> QED
    BY <1>0, <1>5, <2>1, StopOfOthers DEF Interrupt, Fail, TypeOK
<1>6. ASSUME NEW o \in Outputs, ParkOK(o) PROVE StopInv'
  BY <1>0, <1>6, StopOfOthers DEF ParkOK, TypeOK
<1>7. ASSUME NEW o \in Outputs, NEW took \in BOOLEAN, ParkFails(o, took) PROVE StopInv'
  BY <1>0, <1>7, StopOfOthers DEF ParkFails, TypeOK
<1>8. CASE Return
  BY <1>8 DEF Return, control, StopInv, WaitPositive
<1>9. CASE Stop
  <2>1. UNCHANGED <<calling, elapsed, pc, since, timer, wait>> /\ (calling => stopAt' = elapsed)
    BY <1>9 DEF Stop, control
  <2>2. WaitPositive'
    BY <2>1 DEF StopInv, WaitPositive
  <2>3. ASSUME calling
        PROVE  /\ StopSending' /\ StopWaiting' /\ StopParking'
               /\ (elapsed <= stopAt + HttpTimeout + ParkTimeout)'
    <3>1. \A o \in Outputs : pc[o] \in Busy => since[o] <= elapsed
      BY DEF TimeInv, SinceInv
    <3> QED
      BY <1>0, <2>1, <2>3, <3>1 DEF StopSending, StopWaiting, StopParking, Busy, TypeOK
  <2> QED
    BY <2>1, <2>2, <2>3 DEF StopInv
<1>10. CASE Tick
  <2>1. /\ calling /\ calling' /\ elapsed' = elapsed + 1
        /\ UNCHANGED <<stopped, stopAt, pc, since, timer, wait>>
    BY <1>10 DEF Tick, control
  <2>2. WaitPositive'
    BY <2>1 DEF StopInv, WaitPositive
  <2>3. ASSUME stopped
        PROVE  /\ StopSending' /\ StopWaiting' /\ StopParking'
               /\ (elapsed <= stopAt + HttpTimeout + ParkTimeout)'
    <3>1. ASSUME NEW o \in Outputs
          PROVE  /\ pc[o] = "sending" => elapsed + 1 <= since[o] + HttpTimeout
                 /\ pc[o] # "waiting"
                 /\ pc[o] = "parking" => elapsed + 1 <= since[o] + ParkTimeout
      BY <1>0, <1>10, <2>3 DEF Tick, Quiet, SendDue, Smaller, Interrupted, TypeOK
    <3>2. StopSending' /\ StopWaiting' /\ StopParking'
      BY <2>1, <2>3, <3>1 DEF StopInv, StopSending, StopWaiting, StopParking
    <3>3. PICK o \in Outputs : pc[o] \in Busy
      BY <1>10 DEF Tick
    <3>4. elapsed + 1 <= stopAt + HttpTimeout + ParkTimeout
      BY <1>0, <2>1, <2>3, <3>1, <3>3 DEF Busy, StopInv, StopSending, StopParking, TypeOK
    <3> QED
      BY <2>1, <3>2, <3>4
  <2> QED
    BY <2>1, <2>2, <2>3 DEF StopInv
<1>11. CASE UNCHANGED vars
  BY <1>11 DEF vars, control, StopInv, WaitPositive, StopSending, StopWaiting, StopParking
<1> QED
  BY <1>1, <1>2, <1>3, <1>4, <1>5, <1>6, <1>7, <1>8, <1>9, <1>10, <1>11 DEF Next, OutputStep

\* When every backoff is positive, a shutdown waits for one HTTP timeout and
\* one dead-letter write of the message in flight, never for a retry.
THEOREM ShutdownHolds ==
  ASSUME \A o \in Outputs : Backoff[o] > 0
  PROVE  Spec => []ShutdownBounded
<1>1. Init => TimeInv /\ StopInv
  BY InitTime, InitStop
<1>2. TimeInv /\ StopInv /\ [Next]_vars => TimeInv' /\ StopInv'
  BY NextTime, NextStop
<1>3. StopInv => ShutdownBounded
  BY DEF StopInv, ShutdownBounded
<1> QED
  BY <1>1, <1>2, <1>3, PTL DEF Spec
-----------------------------------------------------------------------------
\* No result is known before the first call.
LEMMA InitResult == Init => ResultInv /\ AckInv
BY DEF Init, ResultInv, AckInv, Undelivered

\* A step of one output, o, while the call is in progress.
LEMMA ResultOfOthers ==
  ASSUME ResultInv, AckInv, NEW o \in Outputs, calling' = calling, calling,
         accepted \subseteq accepted', stored \subseteq stored',
         \A p \in Outputs \ {o} : pc'[p] = pc[p] /\ result'[p] = result[p],
         result'[o] = "sent" => o \in accepted',
         result'[o] = "parked" => o \in stored',
         result'[o] = "failed" => ~DeadLetterOn,
         pc'[o] = "parking" => DeadLetterOn
  PROVE  ResultInv' /\ AckInv'
BY DEF ResultInv, AckInv

\* Every step keeps what a result says of the endpoint and the dead letter.
LEMMA NextResult ==
  ASSUME TimeInv, ResultInv, AckInv, [Next]_vars
  PROVE  ResultInv' /\ AckInv'
<1>0. TypeOK
  BY DEF TimeInv
<1>1. ASSUME NEW matched \in SUBSET Outputs, NEW held \in SUBSET Outputs, Begin(matched, held)
      PROVE  ResultInv' /\ AckInv'
  <2>1. calling' /\ \A o \in Outputs : /\ result'[o] \notin {"sent", "parked", "failed"}
                                     /\ pc'[o] # "parking"
    BY <1>1 DEF Begin, Route
  <2> QED
    BY <2>1 DEF ResultInv, AckInv
<1>2. ASSUME NEW o \in Outputs, OutputStep(o)
      PROVE  ResultInv' /\ AckInv'
  <2>1. calling
    BY <1>2 DEF OutputStep, SendOK, SendFails, Retry, Interrupt, ParkOK, ParkFails,
                TimeInv, IdleInv, Busy
  <2>2. CASE SendOK(o)
    BY <1>0, <2>1, <2>2, ResultOfOthers DEF SendOK, TypeOK
  <2>3. ASSUME NEW err \in Errors, NEW took \in BOOLEAN, SendFails(o, err, took)
        PROVE  ResultInv' /\ AckInv'
    <3>1. CASE Fail(o)
      BY <1>0, <2>1, <2>3, <3>1, ResultOfOthers DEF SendFails, Fail, TypeOK, ResultInv
    <3>2. CASE ~(GiveUp(o, err) \/ ~Fits(Pause(o, err)))
      BY <1>0, <2>1, <2>3, <3>2, ResultOfOthers DEF SendFails, TypeOK, ResultInv
    <3> QED
      BY <2>3, <3>1, <3>2 DEF SendFails
  <2>4. CASE Retry(o)
    BY <1>0, <2>1, <2>4, ResultOfOthers DEF Retry, outside, TypeOK, ResultInv
  <2>5. CASE Interrupt(o)
    BY <1>0, <2>1, <2>5, ResultOfOthers DEF Interrupt, Fail, outside, TypeOK, ResultInv
  <2>6. CASE ParkOK(o)
    BY <1>0, <2>1, <2>6, ResultOfOthers DEF ParkOK, TypeOK
  <2>7. ASSUME NEW took \in BOOLEAN, ParkFails(o, took)
        PROVE  ResultInv' /\ AckInv'
    BY <1>0, <2>1, <2>7, ResultOfOthers DEF ParkFails, TypeOK
  <2> QED
    BY <1>2, <2>2, <2>3, <2>4, <2>5, <2>6, <2>7 DEF OutputStep
<1>3. CASE Return
  BY <1>3 DEF Return, control, outside, ResultInv, AckInv, Undelivered
<1>4. CASE Stop
  BY <1>4 DEF Stop, control, outside, ResultInv, AckInv, Undelivered
<1>5. CASE Tick
  BY <1>5 DEF Tick, control, outside, ResultInv, AckInv, Undelivered
<1>6. CASE UNCHANGED vars
  BY <1>6 DEF vars, control, outside, ResultInv, AckInv, Undelivered
<1> QED
  BY <1>1, <1>2, <1>3, <1>4, <1>5, <1>6 DEF Next

\* With a dead letter set, an ack means that every output the message was
\* for has it, or has it parked.
THEOREM AckedIsKeptHolds == Spec => []AckedIsKept
<1>1. Init => TimeInv /\ ResultInv /\ AckInv
  BY InitTime, InitResult
<1>2. TimeInv /\ ResultInv /\ AckInv /\ [Next]_vars => TimeInv' /\ ResultInv' /\ AckInv'
  BY NextTime, NextResult
<1>3. TimeInv /\ ResultInv /\ AckInv => AckedIsKept
  BY DEF ResultInv, AckInv, AckedIsKept, Undelivered
<1> QED
  BY <1>1, <1>2, <1>3, PTL DEF Spec
-----------------------------------------------------------------------------
(* Dispatch implements Fanout *)

\* The initial states map to the contract's.
LEMMA InitContract == Init => Contract!Init
BY DEF Init, Contract!Init, Busy

\* A step of one output settles it in the contract, or changes nothing there.
LEMMA StepContract ==
  ASSUME TimeInv, ResultInv, NEW o \in Outputs, OutputStep(o)
  PROVE  Contract!Settle(o) \/ UNCHANGED Contract!vars
<1>0. TypeOK /\ calling /\ calling' = calling /\ acked' = acked /\ pc[o] \in Busy
  BY DEF OutputStep, SendOK, SendFails, Retry, Interrupt, ParkOK, ParkFails,
         TimeInv, IdleInv, Busy
<1> DEFINE out == [p \in Outputs |-> IF pc[p] \in Busy THEN "pending" ELSE result[p]]
<1>1. ASSUME pc'[o] \in Busy, \A p \in Outputs \ {o} : pc'[p] = pc[p] /\ result'[p] = result[p]
      PROVE  UNCHANGED Contract!vars
  <2>1. out' = out
    BY <1>0, <1>1
  <2> QED
    BY <1>0, <2>1 DEF Contract!vars
<1>2. ASSUME pc'[o] = "done", result'[o] \in Contract!Fates,
             \A p \in Outputs \ {o} : pc'[p] = pc[p] /\ result'[p] = result[p]
      PROVE  Contract!Settle(o)
  <2>1. out' = [out EXCEPT ![o] = result'[o]] /\ out[o] = "pending"
    BY <1>0, <1>2 DEF Busy
  <2> QED
    BY <1>0, <1>2, <2>1 DEF Contract!Settle
<1>3. ASSUME Fail(o)
      PROVE  Contract!Settle(o) \/ UNCHANGED Contract!vars
  <2>1. CASE DeadLetterOn
    BY <1>0, <1>1, <1>3, <2>1 DEF Fail, Busy, TypeOK
  <2>2. CASE ~DeadLetterOn
    BY <1>0, <1>2, <1>3, <2>2 DEF Fail, Contract!Fates, TypeOK
  <2> QED
    BY <2>1, <2>2
<1>4. CASE SendOK(o)
  BY <1>0, <1>2, <1>4 DEF SendOK, Contract!Fates, TypeOK
<1>5. ASSUME NEW err \in Errors, NEW took \in BOOLEAN, SendFails(o, err, took)
      PROVE  Contract!Settle(o) \/ UNCHANGED Contract!vars
  <2>1. CASE ~(GiveUp(o, err) \/ ~Fits(Pause(o, err)))
    BY <1>0, <1>1, <1>5, <2>1 DEF SendFails, Busy, TypeOK
  <2> QED
    BY <1>3, <1>5, <2>1 DEF SendFails
<1>6. CASE Retry(o)
  BY <1>0, <1>1, <1>6 DEF Retry, Busy, TypeOK
<1>7. CASE Interrupt(o)
  BY <1>3, <1>7 DEF Interrupt
<1>8. CASE ParkOK(o)
  BY <1>0, <1>2, <1>8 DEF ParkOK, ResultInv, Contract!Fates, TypeOK
<1>9. ASSUME NEW took \in BOOLEAN, ParkFails(o, took)
      PROVE  Contract!Settle(o)
  BY <1>0, <1>2, <1>9 DEF ParkFails, ResultInv, Contract!Fates, TypeOK
<1> QED
  BY <1>4, <1>5, <1>6, <1>7, <1>8, <1>9 DEF OutputStep

\* Every step maps to a step of the contract or to a stutter.
LEMMA NextContract ==
  ASSUME TimeInv, ResultInv, [Next]_vars
  PROVE  [Contract!Next]_(Contract!vars)
<1>0. TypeOK
  BY DEF TimeInv
<1> DEFINE out == [p \in Outputs |-> IF pc[p] \in Busy THEN "pending" ELSE result[p]]
<1>1. ASSUME NEW matched \in SUBSET Outputs, NEW held \in SUBSET Outputs, Begin(matched, held)
      PROVE  Contract!Call
  <2>1. \A o \in Outputs : out'[o] \in {"pending"} \cup Contract!Unsent
    BY <1>1 DEF Begin, Route, Busy, Contract!Unsent
  <2> QED
    BY <1>1, <2>1 DEF Begin, Contract!Call
<1>2. ASSUME NEW o \in Outputs, OutputStep(o) PROVE [Contract!Next]_(Contract!vars)
  BY <1>2, StepContract DEF Contract!Next
<1>3. CASE Return
  <2>1. out' = out /\ \A o \in Outputs : out[o] = result[o] /\ out[o] # "pending"
    BY <1>0, <1>3 DEF Return, control, TypeOK, Results
  <2> QED
    BY <1>3, <2>1 DEF Return, Undelivered, Contract!Return, Contract!Undelivered, Contract!Next
<1>4. CASE Stop \/ Tick \/ UNCHANGED vars
  <2>1. out' = out /\ UNCHANGED <<calling, acked>>
    BY <1>4 DEF Stop, Tick, control, vars
  <2> QED
    BY <2>1 DEF Contract!vars
<1> QED
  BY <1>1, <1>2, <1>3, <1>4 DEF Next, Contract!Next

\* The timed dispatcher with attempts, backoff, stop and dead letter does
\* what the untimed contract says a Dispatch call does.
THEOREM ImplementsContract == Spec => ContractSpec
<1>1. Init => TimeInv /\ ResultInv /\ AckInv
  BY InitTime, InitResult
<1>2. TimeInv /\ ResultInv /\ AckInv /\ [Next]_vars => TimeInv' /\ ResultInv' /\ AckInv'
  BY NextTime, NextResult
<1>3. TimeInv /\ ResultInv /\ [Next]_vars => [Contract!Next]_(Contract!vars)
  BY NextContract
<1> QED
  BY <1>1, <1>2, <1>3, InitContract, PTL DEF Spec, ContractSpec, Contract!Spec
-----------------------------------------------------------------------------
(* RetrySpacing.  NominalWait is recursive; the library's induction takes   *)
(* the property as a parameter, so the least counterexample takes its place. *)

\* A set of numbers has a least one: the initial segments are well-founded.
LEMMA LeastNumber ==
  ASSUME NEW S \in SUBSET Nat, S # {}
  PROVE  \E n \in S : \A m \in S : n <= m
<1> DEFINE T == {0..n : n \in S}
           R == StrictSubsetOrdering(Nat)
<1>1. IsWellFoundedOn(R, FiniteSubsetsOf(Nat))
  BY FS_StrictSubsetOrderingWellFounded
<1>2. T \subseteq FiniteSubsetsOf(Nat) /\ T # {}
  <2>1. \A n \in S : 0..n \in SUBSET Nat /\ IsFiniteSet(0..n)
    BY FS_Interval
  <2> QED BY <2>1 DEF FiniteSubsetsOf
<1> HIDE DEF R
<1>3. PICK x \in T : \A y \in T : ~(<<y, x>> \in R)
  BY <1>1, <1>2, WFMin
<1>4. PICK n \in S : x = 0..n
  OBVIOUS
<1>5. ASSUME NEW m \in S, m < n PROVE FALSE
  <2>1. n \in 0..n /\ n \notin 0..m /\ (0..m) \subseteq (0..n)
    BY <1>5
  <2>2. <<0..m, 0..n>> \in R
    BY <2>1 DEF R, StrictSubsetOrdering
  <2> QED BY <1>3, <1>4, <2>2
<1>6. \A m \in S : ~(m < n) /\ m \in Nat /\ n \in Nat
  BY <1>5
<1> QED BY <1>6

\* The wait before attempt n + 1 from the waits w before it, for the backoff b.
WaitFrom(b, w, n) == IF n <= 1 THEN b ELSE Smaller(2 * w[n - 1], MaxRetryBackoff)

\* The waits up to n, and all of them.
WaitsUpTo(b, n, w) == w = [i \in 0..n |-> WaitFrom(b, w, i)]
Waits(b)           == CHOOSE w : w = [n \in Nat |-> WaitFrom(b, w, n)]

\* NominalWait of Dispatch.tla.
LEMMA NominalWaitIs == \A o \in Outputs : NominalWait(o) = Waits(Backoff[o])[attempt[o]]
BY DEF NominalWait, Waits, WaitFrom

\* One of the waits up to n.
LEMMA WaitUpTo ==
  ASSUME NEW b, NEW n \in Nat, NEW w, WaitsUpTo(b, n, w), NEW i \in 0..n
  PROVE  w[i] = WaitFrom(b, w, i)
<1> DEFINE f == [k \in 0..n |-> WaitFrom(b, w, k)]
<1>1. w = f
  BY DEF WaitsUpTo
<1>2. f[i] = WaitFrom(b, w, i)
  OBVIOUS
<1> HIDE DEF f
<1> QED BY <1>1, <1>2

\* The first waits exist, however many.
LEMMA WaitsUpToExist == ASSUME NEW b PROVE \A n \in Nat : \E w : WaitsUpTo(b, n, w)
<1> DEFINE T == {n \in Nat : ~ \E w : WaitsUpTo(b, n, w)}
<1> SUFFICES ASSUME T # {} PROVE FALSE
  OBVIOUS
<1>1. PICK n \in T : \A k \in T : n <= k
  BY LeastNumber
<1>2. CASE n = 0
  <2>1. WaitsUpTo(b, 0, [i \in 0..0 |-> b])
    BY DEF WaitsUpTo, WaitFrom
  <2> QED BY <1>1, <1>2, <2>1
<1>3. CASE n # 0
  <2>1. n \in Nat /\ n - 1 \in Nat /\ n - 1 \notin T
    BY <1>1, <1>3
  <2>2. PICK v : WaitsUpTo(b, n - 1, v)
    BY <2>1
  <2> DEFINE w == [i \in 0..n |-> IF i = n THEN WaitFrom(b, v, n) ELSE v[i]]
  <2>3. ASSUME NEW i \in 0..n PROVE w[i] = WaitFrom(b, w, i)
    <3>1. i > 1 => i - 1 \in 0..n /\ i - 1 # n /\ w[i - 1] = v[i - 1]
      BY <2>1
    <3>2. WaitFrom(b, w, i) = WaitFrom(b, v, i)
      BY <2>1, <3>1 DEF WaitFrom
    <3>3. i # n => v[i] = WaitFrom(b, v, i)
      BY <2>1, <2>2, WaitUpTo
    <3> QED BY <3>2, <3>3
  <2>4. WaitsUpTo(b, n, w)
    BY <2>3 DEF WaitsUpTo
  <2> QED BY <1>1, <2>4
<1> QED BY <1>2, <1>3

\* They are the same, however many one looks at.
LEMMA WaitsAgree ==
  ASSUME NEW b, NEW n \in Nat, NEW m \in Nat, NEW v, NEW w, WaitsUpTo(b, n, v), WaitsUpTo(b, m, w)
  PROVE  \A i \in Nat : i <= n /\ i <= m => v[i] = w[i]
<1> DEFINE T == {i \in Nat : i <= n /\ i <= m /\ v[i] # w[i]}
<1> SUFFICES ASSUME T # {} PROVE FALSE
  OBVIOUS
<1>1. PICK i \in T : \A k \in T : i <= k
  BY LeastNumber
<1>2. v[i] = WaitFrom(b, v, i) /\ w[i] = WaitFrom(b, w, i)
  <2>1. i \in 0..n /\ i \in 0..m
    BY <1>1
  <2> QED BY <2>1, WaitUpTo
<1>3. i > 1 => v[i - 1] = w[i - 1]
  BY <1>1
<1> QED BY <1>1, <1>2, <1>3 DEF WaitFrom

\* So the recursive definition is its own unfolding.
LEMMA WaitsUnfold ==
  ASSUME NEW b
  PROVE  \A n \in Nat : Waits(b)[n] = WaitFrom(b, Waits(b), n)
<1> DEFINE D(w) == [n \in Nat |-> WaitFrom(b, w, n)]
           upTo(n) == CHOOSE w : WaitsUpTo(b, n, w)
           all == [n \in Nat |-> upTo(n)[n]]
<1>1. \A n \in Nat : WaitsUpTo(b, n, upTo(n))
  BY WaitsUpToExist
<1> HIDE DEF upTo
<1>2. ASSUME NEW n \in Nat PROVE all[n] = WaitFrom(b, all, n)
  <2>1. upTo(n)[n] = WaitFrom(b, upTo(n), n)
    BY <1>1 DEF WaitsUpTo
  <2>2. ASSUME n > 1 PROVE upTo(n)[n - 1] = all[n - 1]
    <3>1. n - 1 \in Nat /\ n - 1 <= n /\ WaitsUpTo(b, n, upTo(n)) /\ WaitsUpTo(b, n - 1, upTo(n - 1))
      BY <1>1, <2>2
    <3>2. upTo(n)[n - 1] = upTo(n - 1)[n - 1]
      BY <3>1, WaitsAgree
    <3> QED BY <3>1, <3>2
  <2> QED BY <2>1, <2>2 DEF WaitFrom
<1>3. \E w : w = D(w)
  <2>1. all = D(all)
    BY <1>2
  <2> QED BY <2>1
<1>4. Waits(b) = CHOOSE w : w = D(w)
  BY DEF Waits
<1> HIDE DEF D
<1>5. (CHOOSE w : w = D(w)) = D(CHOOSE w : w = D(w))
  BY <1>3
<1> QED BY <1>4, <1>5 DEF D

\* The first wait is the backoff, each next one is the last, doubled and capped.
LEMMA NextWait ==
  /\ \A o \in Outputs : Waits(Backoff[o])[1] = Backoff[o]
  /\ \A o \in Outputs : \A n \in Nat \ {0} :
       Waits(Backoff[o])[n + 1] = Doubled(Waits(Backoff[o])[n])
<1> SUFFICES ASSUME NEW o \in Outputs, NEW n \in Nat \ {0}
             PROVE  /\ Waits(Backoff[o])[1] = Backoff[o]
                    /\ Waits(Backoff[o])[n + 1] = Doubled(Waits(Backoff[o])[n])
  OBVIOUS
<1>1. Waits(Backoff[o])[1] = WaitFrom(Backoff[o], Waits(Backoff[o]), 1)
  BY WaitsUnfold
<1>2. Waits(Backoff[o])[n + 1] = WaitFrom(Backoff[o], Waits(Backoff[o]), n + 1)
  BY WaitsUnfold
<1>3. (n + 1) - 1 = n /\ ~(n + 1 <= 1)
  OBVIOUS
<1> QED BY <1>1, <1>2, <1>3 DEF WaitFrom, Doubled

\* send's wait is the one its attempt calls for, and its timer was set for that
\* or for what the endpoint asked.
SpacingInv ==
  \A o \in Outputs :
    /\ pc[o] \in {"sending", "waiting"} => attempt[o] > 0 /\ wait[o] = Waits(Backoff[o])[attempt[o]]
    /\ pc[o] = "waiting" => timer[o] - since[o] >= Bigger(wait[o], asked[o])

\* An output that no step touches keeps it.
LEMMA SpacingOfOthers ==
  ASSUME SpacingInv, NEW p \in Outputs,
         pc'[p] = pc[p] \/ pc'[p] \notin {"sending", "waiting"},
         attempt'[p] = attempt[p], wait'[p] = wait[p], pc'[p] = "waiting" =>
           timer'[p] = timer[p] /\ since'[p] = since[p] /\ asked'[p] = asked[p]
  PROVE  /\ pc'[p] \in {"sending", "waiting"} =>
              attempt'[p] > 0 /\ wait'[p] = Waits(Backoff[p])[attempt'[p]]
         /\ pc'[p] = "waiting" => timer'[p] - since'[p] >= Bigger(wait'[p], asked'[p])
BY DEF SpacingInv

\* Every step keeps it.
LEMMA NextSpacing == TypeOK /\ SpacingInv /\ [Next]_vars => SpacingInv'
<1> SUFFICES ASSUME TypeOK, SpacingInv, [Next]_vars, NEW p \in Outputs
             PROVE  /\ pc'[p] \in {"sending", "waiting"} =>
                         attempt'[p] > 0 /\ wait'[p] = Waits(Backoff[p])[attempt'[p]]
                    /\ pc'[p] = "waiting" => timer'[p] - since'[p] >= Bigger(wait'[p], asked'[p])
  BY DEF SpacingInv
<1> DEFINE Goal == /\ pc'[p] \in {"sending", "waiting"} =>
                        attempt'[p] > 0 /\ wait'[p] = Waits(Backoff[p])[attempt'[p]]
                   /\ pc'[p] = "waiting" => timer'[p] - since'[p] >= Bigger(wait'[p], asked'[p])
<1>1. ASSUME NEW matched \in SUBSET Outputs, NEW held \in SUBSET Outputs, Begin(matched, held)
      PROVE  Goal
  <2>1. /\ pc'[p] = (IF result'[p] = "none" THEN "sending" ELSE "done")
        /\ attempt'[p] = (IF result'[p] = "none" THEN 1 ELSE 0)
        /\ wait'[p] = Backoff[p]
    BY <1>1 DEF Begin
  <2> QED BY <2>1, NextWait
<1>2. ASSUME NEW o \in Outputs, SendOK(o) PROVE Goal
  BY <1>2, SpacingOfOthers DEF SendOK, TypeOK
<1>3. ASSUME NEW o \in Outputs, NEW err \in Errors, NEW took \in BOOLEAN, SendFails(o, err, took)
      PROVE  Goal
  <2>1. UNCHANGED <<attempt, wait>> /\ asked' = [asked EXCEPT ![o] = err.retryAfter] /\ pc[o] = "sending"
    BY <1>3 DEF SendFails
  <2>2. CASE Fail(o) /\ timer' = timer
    BY <2>1, <2>2, SpacingOfOthers DEF Fail, TypeOK
  <2>3. CASE ~(GiveUp(o, err) \/ ~Fits(Pause(o, err)))
    <3>1. /\ pc' = [pc EXCEPT ![o] = "waiting"] /\ since' = [since EXCEPT ![o] = elapsed]
          /\ timer' = [timer EXCEPT ![o] = elapsed + Pause(o, err)]
      BY <1>3, <2>3 DEF SendFails
    <3>2. CASE p # o
      BY <2>1, <3>1, <3>2, SpacingOfOthers DEF TypeOK
    <3>3. CASE p = o
      <4>1. timer'[p] = elapsed + Pause(o, err) /\ since'[p] = elapsed /\ asked'[p] = err.retryAfter
        BY <2>1, <3>1, <3>3 DEF TypeOK
      <4>2. elapsed \in Nat /\ Pause(o, err) \in Nat /\ Pause(o, err) = Bigger(wait[o], err.retryAfter)
        BY PauseCovers DEF TypeOK, Pause
      <4>3. timer'[p] - since'[p] = Bigger(wait'[p], asked'[p])
        BY <2>1, <3>3, <4>1, <4>2
      <4>4. attempt'[p] > 0 /\ wait'[p] = Waits(Backoff[p])[attempt'[p]]
        BY <2>1, <3>3 DEF SpacingInv
      <4>5. timer'[p] - since'[p] \in Nat
        BY <4>1, <4>2
      <4> QED BY <4>3, <4>4, <4>5
    <3> QED BY <3>2, <3>3
  <2> QED BY <1>3, <2>2, <2>3 DEF SendFails
<1>4. ASSUME NEW o \in Outputs, Retry(o) PROVE Goal
  <2>1. /\ pc[o] = "waiting" /\ pc' = [pc EXCEPT ![o] = "sending"]
        /\ wait' = [wait EXCEPT ![o] = Doubled(wait[o])] /\ attempt' = [attempt EXCEPT ![o] = attempt[o] + 1]
        /\ since' = [since EXCEPT ![o] = elapsed] /\ UNCHANGED <<timer, asked>>
    BY <1>4 DEF Retry
  <2>2. CASE p # o
    BY <2>1, <2>2, SpacingOfOthers DEF TypeOK
  <2>3. CASE p = o
    <3>1. /\ attempt[o] \in Nat \ {0} /\ wait[o] = Waits(Backoff[o])[attempt[o]]
      BY <2>1 DEF TypeOK, SpacingInv
    <3>2. pc'[p] = "sending" /\ attempt'[p] = attempt[o] + 1 /\ wait'[p] = Doubled(wait[o])
      BY <2>1, <2>3 DEF TypeOK
    <3>3. Waits(Backoff[o])[attempt[o] + 1] = Doubled(Waits(Backoff[o])[attempt[o]])
      BY <3>1, NextWait
    <3> QED BY <2>3, <3>1, <3>2, <3>3
  <2> QED BY <2>2, <2>3
<1>5. ASSUME NEW o \in Outputs, Interrupt(o) PROVE Goal
  BY <1>5, SpacingOfOthers DEF Interrupt, Fail, TypeOK
<1>6. ASSUME NEW o \in Outputs, ParkOK(o) PROVE Goal
  BY <1>6, SpacingOfOthers DEF ParkOK, TypeOK
<1>7. ASSUME NEW o \in Outputs, NEW took \in BOOLEAN, ParkFails(o, took) PROVE Goal
  BY <1>7, SpacingOfOthers DEF ParkFails, TypeOK
<1>8. ASSUME Return \/ Stop \/ Tick \/ UNCHANGED vars PROVE Goal
  BY <1>8, SpacingOfOthers DEF Return, Stop, Tick, vars, control
<1> HIDE DEF Goal
<1>9. ASSUME NEW o \in Outputs, OutputStep(o) PROVE Goal
  BY <1>2, <1>3, <1>4, <1>5, <1>6, <1>7, <1>9 DEF OutputStep
<1>10. Goal
  BY <1>1, <1>8, <1>9 DEF Next
<1> QED BY <1>10 DEF Goal

\* A next attempt is a retry, and it keeps the distance.
LEMMA SpacingStep ==
  ASSUME TypeOK, SpacingInv, [Next]_vars, NEW o \in Outputs,
         attempt'[o] = attempt[o] + 1, attempt[o] > 0
  PROVE  elapsed - since[o] >= Bigger(NominalWait(o), asked[o])
<1>1. attempt[o] \in Nat /\ elapsed \in Nat /\ since[o] \in Nat /\ timer[o] \in Nat
      /\ wait[o] \in Nat /\ asked[o] \in Nat
  BY DEF TypeOK
<1>2. Retry(o)
  <2>1. attempt'[o] # attempt[o] /\ attempt'[o] > 1
    BY <1>1
  <2>2. ASSUME NEW matched \in SUBSET Outputs, NEW held \in SUBSET Outputs, Begin(matched, held)
        PROVE  FALSE
    <3>1. attempt'[o] \in {0, 1}
      BY <2>2 DEF Begin
    <3> QED BY <2>1, <3>1
  <2>3. ASSUME NEW p \in Outputs, OutputStep(p) PROVE Retry(o)
    <3>1. Retry(p) \/ attempt' = attempt
      BY <2>3 DEF OutputStep, SendOK, SendFails, Interrupt, ParkOK, ParkFails
    <3>2. ASSUME Retry(p), p # o PROVE FALSE
      <4>1. attempt'[o] = attempt[o]
        BY <3>2 DEF Retry, TypeOK
      <4> QED BY <2>1, <4>1
    <3> QED BY <2>1, <3>1, <3>2
  <2>4. CASE Return \/ Stop \/ Tick \/ UNCHANGED vars
    <3>1. attempt' = attempt
      BY <2>4 DEF Return, Stop, Tick, vars, control
    <3> QED BY <2>1, <3>1
  <2> QED BY <2>2, <2>3, <2>4 DEF Next
<1>3. elapsed >= timer[o] /\ timer[o] - since[o] >= Bigger(wait[o], asked[o])
      /\ wait[o] = NominalWait(o)
  BY <1>2, NominalWaitIs DEF Retry, SpacingInv
<1>4. Bigger(wait[o], asked[o]) \in Nat
  BY <1>1, MinMax
<1> QED BY <1>1, <1>3, <1>4

\* Between two attempts lies the backoff, doubled as often as the policy says
\* and capped, and what the endpoint asked for (send, RetryConfig.Backoff).
THEOREM SpacingHolds == Spec => RetrySpacing
<1>1. Init => SpacingInv
  BY DEF Init, SpacingInv
<1>2. TypeOK /\ SpacingInv /\ [Next]_vars =>
        \A o \in Outputs : attempt'[o] = attempt[o] + 1 /\ attempt[o] > 0 =>
          elapsed - since[o] >= Bigger(NominalWait(o), asked[o])
  BY SpacingStep
<1> QED BY TypeCorrect, NextSpacing, <1>1, <1>2, PTL DEF Spec, RetrySpacing
=============================================================================
