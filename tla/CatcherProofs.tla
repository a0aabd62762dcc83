--------------------------- MODULE CatcherProofs ----------------------------
(***************************************************************************)
(* For any number of pods, outputs and messages: Catcher.tla is type       *)
(* correct, the payload client is open while a message is handled, an      *)
(* acked message is kept, and a pod works in stream order.                 *)
(***************************************************************************)
EXTENDS Catcher, TLAPS

\* A pod, and the action of it that is taken.
LEMMA PodCases ==
  ASSUME NEW p \in Pods, Pod(p)
  PROVE  \/ Read(p) \/ Take(p) \/ SkipMalformed(p) \/ ResolveFails(p) \/ Dispatch(p)
         \/ Return(p) \/ Ack(p) \/ LeavePending(p) \/ Shutdown(p) \/ RunReturns(p)
         \/ Crash(p) \/ Restart(p)
         \/ \E m \in Messages : Reclaim(p, m)
         \/ \E o \in Outputs : Settle(p, o) \/ Forget(p, o) \/ Roll(p, o)
BY DEF Pod, Handle

\* What the handler leaves behind has its types.
LEMMA ReleaseTypes ==
  ASSUME TypeOK, NEW p \in Pods, Release(p)
  PROVE  /\ worker' \in [Pods -> Messages \cup {0}]
         /\ stage' \in [Pods -> {"none", "taken", "dispatching", "returned"}]
         /\ \A q \in Pods : stage'[q] # "none" => worker'[q] \in Messages
         /\ spent' \in [Pods -> 0..DispatchBudget]
         /\ outcome' \in [Pods -> [Outputs -> Outcomes]] /\ ok' \in [Pods -> BOOLEAN]
BY CatcherAssumption DEF CatcherAssumption, TypeOK, Release, NoOutcome, Outcomes

\* And so has a pod that starts or is gone.
LEMMA GoneTypes ==
  ASSUME TypeOK, NEW p \in Pods, Gone(p)
  PROVE  /\ queue' \in [Pods -> Seq(Messages)]
         /\ \A q \in Pods : Len(queue'[q]) <= BufferSize
         /\ worker' \in [Pods -> Messages \cup {0}]
         /\ stage' \in [Pods -> {"none", "taken", "dispatching", "returned"}]
         /\ \A q \in Pods : stage'[q] # "none" => worker'[q] \in Messages
         /\ spent' \in [Pods -> 0..DispatchBudget]
         /\ seen' \in [Pods -> [Outputs -> SUBSET Keys]]
         /\ counted' \in [Pods -> [Outputs -> SUBSET Messages]]
         /\ outcome' \in [Pods -> [Outputs -> Outcomes]] /\ ok' \in [Pods -> BOOLEAN]
<1>1. /\ Nothing \in [Outputs -> SUBSET Keys] /\ Nothing \in [Outputs -> SUBSET Messages]
      /\ NoOutcome \in [Outputs -> Outcomes]
  BY DEF Nothing, NoOutcome, Outcomes
<1>2. << >> \in Seq(Messages) /\ Len(<< >>) = 0 /\ BufferSize \in Nat /\ DispatchBudget \in Nat
  BY CatcherAssumption DEF CatcherAssumption
<1> QED BY <1>1, <1>2 DEF TypeOK, Gone

\* A fault within the bound.
LEMMA FaultType == ASSUME TypeOK, Fault PROVE faults' \in 0..MaxFaults
BY CatcherAssumption DEF CatcherAssumption, TypeOK, Fault

\* Every step keeps the types.
LEMMA TypeStep == TypeOK /\ [Next]_vars => TypeOK'
<1> SUFFICES ASSUME TypeOK, [Next]_vars PROVE TypeOK'
  OBVIOUS
<1> USE CatcherAssumption DEF CatcherAssumption
<1>1. CASE Pitch
  <2>1. pitched' \in 0..Len(KeyOf) /\ nextRead' \in 1..(pitched' + 1)
    BY <1>1 DEF TypeOK, Pitch
  <2> QED BY <1>1, <2>1 DEF TypeOK, Pitch, process, call, throttle, world
<1>2. CASE Tick
  <2>1. spent' \in [Pods -> 0..DispatchBudget]
    BY <1>2 DEF TypeOK, Tick, Waits
  <2>2. idle' \in [Messages -> {None} \cup 0..Visibility]
    BY <1>2 DEF TypeOK, Tick, Later, None
  <2> QED BY <1>2, <2>1, <2>2 DEF TypeOK, Tick, process, world, throttle
<1>3. ASSUME NEW p \in Pods, Pod(p) PROVE TypeOK'
  <2>1. CASE Read(p)
    <3>1. nextRead \in Messages /\ nextRead' \in 1..(pitched' + 1)
      BY <2>1 DEF TypeOK, Read
    <3>2. queue' \in [Pods -> Seq(Messages)] /\ \A q \in Pods : Len(queue'[q]) <= BufferSize
      BY <1>3, <2>1, <3>1 DEF TypeOK, Read, Room, Buffer
    <3>3. idle' \in [Messages -> {None} \cup 0..Visibility]
      BY <2>1, <3>1 DEF TypeOK, Read, None
    <3> QED BY <1>3, <2>1, <3>1, <3>2, <3>3 DEF TypeOK, Read, process, call, throttle, world
  <2>2. CASE Take(p)
    <3>1. /\ Head(queue[p]) \in Messages /\ Tail(queue[p]) \in Seq(Messages)
          /\ Len(Tail(queue[p])) = Len(queue[p]) - 1 /\ Len(queue[p]) \in Nat
      BY <1>3, <2>2 DEF TypeOK, Take
    <3>2. /\ queue' \in [Pods -> Seq(Messages)]
          /\ \A q \in Pods : Len(queue'[q]) <= BufferSize
      BY <1>3, <2>2, <3>1 DEF TypeOK, Take
    <3>3. /\ worker' \in [Pods -> Messages \cup {0}]
          /\ stage' \in [Pods -> {"none", "taken", "dispatching", "returned"}]
          /\ \A q \in Pods : stage'[q] # "none" => worker'[q] \in Messages
      BY <1>3, <2>2, <3>1 DEF TypeOK, Take
    <3> QED BY <2>2, <3>2, <3>3 DEF TypeOK, Take, redis, process, world, throttle
  <2>3. CASE SkipMalformed(p)
    BY <1>3, <2>3, ReleaseTypes DEF TypeOK, SkipMalformed, AckUndispatched, XAck, process, None, throttle
  <2>4. CASE ResolveFails(p)
    BY <1>3, <2>4, ReleaseTypes, FaultType DEF TypeOK, ResolveFails, AckUndispatched, XAck, process, None, throttle
  <2>5. CASE Dispatch(p)
    <3>1. worker[p] \in Messages /\ KeyOf[worker[p]] \in Keys
      BY <1>3, <2>5 DEF TypeOK, Dispatch, Keys
    <3>2. \A o \in Outputs : Decision(p, o) \in Outcomes
      BY DEF Decision, Outcomes
    <3>3. outcome' \in [Pods -> [Outputs -> Outcomes]]
      BY <1>3, <2>5, <3>2 DEF TypeOK, Dispatch
    <3>4. seen' \in [Pods -> [Outputs -> SUBSET Keys]]
      BY <1>3, <2>5, <3>1 DEF TypeOK, Dispatch
    <3>5. handled' \in Seq(Pods \X Messages)
      BY <1>3, <2>5, <3>1 DEF TypeOK, Dispatch
    <3>6. counted' \in [Pods -> [Outputs -> SUBSET Messages]]
      BY <1>3, <2>5, <3>1 DEF TypeOK, Dispatch
    <3>7. aboveMax' \in SUBSET [msg : Messages, output : Throttled, posts : SUBSET Messages]
      <4>1. \A o \in AboveMax(p) : o \in Throttled /\ counted[p][o] \in SUBSET Messages
        BY <1>3 DEF AboveMax, TypeOK
      <4>2. \A o \in AboveMax(p) : [msg |-> worker[p], output |-> o, posts |-> counted[p][o]] \in
                                     [msg : Messages, output : Throttled, posts : SUBSET Messages]
        BY <3>1, <4>1
      <4> QED BY <2>5, <4>2 DEF Dispatch, TypeOK
    <3> QED BY <1>3, <2>5, <3>1, <3>3, <3>4, <3>5, <3>6, <3>7 DEF TypeOK, Dispatch, redis, process
  <2>6. CASE Return(p)
    BY <1>3, <2>6 DEF TypeOK, Return, redis, process, world, throttle
  <2>7. CASE Ack(p)
    BY <1>3, <2>7, ReleaseTypes DEF TypeOK, Ack, XAck, process, world, None, throttle
  <2>8. CASE LeavePending(p)
    BY <1>3, <2>8, ReleaseTypes, FaultType DEF TypeOK, LeavePending, redis, process, world, throttle
  <2>9. CASE Shutdown(p)
    BY <1>3, <2>9 DEF TypeOK, Shutdown, Fault, redis, call, world, throttle
  <2>10. CASE RunReturns(p)
    BY <1>3, <2>10 DEF TypeOK, RunReturns, Down, redis, call, world, throttle
  <2>11. CASE Crash(p)
    BY <1>3, <2>11, GoneTypes, FaultType DEF TypeOK, Crash, Down, redis, world
  <2>12. CASE Restart(p)
    BY <1>3, <2>12, GoneTypes DEF TypeOK, Restart, Up, redis, world
  <2>13. ASSUME NEW m \in Messages, Reclaim(p, m) PROVE TypeOK'
    <3>1. queue' \in [Pods -> Seq(Messages)] /\ \A q \in Pods : Len(queue'[q]) <= BufferSize
      BY <1>3, <2>13 DEF TypeOK, Reclaim, Room, Buffer
    <3>2. idle' \in [Messages -> {None} \cup 0..Visibility]
      BY <1>3, <2>13 DEF TypeOK, Reclaim, None
    <3> QED BY <1>3, <2>13, <3>1, <3>2 DEF TypeOK, Reclaim, process, call, throttle
  <2>14. ASSUME NEW o \in Outputs, Settle(p, o) PROVE TypeOK'
    <3>1. worker[p] \in Messages
      BY <1>3, <2>14 DEF TypeOK, Settle
    <3>2. outcome' \in [Pods -> [Outputs -> Outcomes]]
      BY <1>3, <2>14 DEF TypeOK, Settle, Outcomes
    <3>3. out' \in SUBSET (Messages \X Outputs)
      BY <2>14, <3>1 DEF TypeOK, Settle
    <3>4. faults' \in 0..MaxFaults
      BY <2>14, FaultType DEF TypeOK, Settle
    <3> QED BY <1>3, <2>14, <3>2, <3>3, <3>4 DEF TypeOK, Settle, redis, process, throttle
  <2>15. ASSUME NEW o \in Outputs, Forget(p, o) PROVE TypeOK'
    <3>1. PICK k : seen' = [seen EXCEPT ![p][o] = @ \ {k}]
      BY <2>15 DEF Forget
    <3>2. seen' \in [Pods -> [Outputs -> SUBSET Keys]]
      BY <1>3, <3>1 DEF TypeOK
    <3> QED BY <1>3, <2>15, <3>2 DEF TypeOK, Forget, redis, process, call, world
  <2>16. ASSUME NEW o \in Outputs, Roll(p, o) PROVE TypeOK'
    <3>1. counted' \in [Pods -> [Outputs -> SUBSET Messages]]
      BY <1>3, <2>16 DEF Roll, TypeOK
    <3> QED BY <1>3, <2>16, <3>1 DEF TypeOK, Roll, redis, process, call, world
  <2> QED BY <1>3, PodCases, <2>1, <2>2, <2>3, <2>4, <2>5, <2>6, <2>7, <2>8, <2>9, <2>10,
             <2>11, <2>12, <2>13, <2>14, <2>15, <2>16
<1>4. CASE UNCHANGED vars
  BY <1>4 DEF TypeOK, vars, redis, process, call, throttle, world
<1> QED BY <1>1, <1>2, <1>3, <1>4 DEF Next

LEMMA TypeInit == Init => TypeOK
BY CatcherAssumption
   DEF CatcherAssumption, Init, TypeOK, Nothing, NoOutcome, Outcomes, None

\* Every variable keeps its type, and the buffers and dispatches their bounds,
\* in every execution of any number of pods (RedisCatcher, runServer).
THEOREM TypeCorrect == Spec => []TypeOK
BY TypeInit, TypeStep, PTL DEF Spec
-----------------------------------------------------------------------------
(* ClientOpenWhileHandling *)

\* The client is open as long as the process is there, and the process as long
\* as its worker is at work.
ClientInv == \A p \in Pods : /\ client[p] <=> Running(p)
                             /\ stage[p] # "none" => Running(p)

LEMMA ClientStep == TypeOK /\ ClientInv /\ [Next]_vars => ClientInv'
<1> SUFFICES ASSUME TypeOK, ClientInv, [Next]_vars PROVE ClientInv'
  OBVIOUS
<1>1. CASE UNCHANGED vars
  BY <1>1 DEF ClientInv, Running, vars, process, call
<1>2. CASE Pitch \/ Tick
  BY <1>2 DEF ClientInv, Running, Pitch, Tick, process, call
<1>3. ASSUME NEW p \in Pods, Pod(p) PROVE ClientInv'
  <2> USE <1>3 DEF ClientInv, Running, TypeOK
  <2>1. CASE Read(p) \/ \E m \in Messages : Reclaim(p, m)
    BY <2>1 DEF Read, Reclaim, process, call
  <2>2. CASE Take(p)
    BY <2>2 DEF Take, process
  <2>3. CASE SkipMalformed(p) \/ ResolveFails(p)
    BY <2>3 DEF SkipMalformed, ResolveFails, AckUndispatched, Release, process
  <2>4. CASE Dispatch(p)
    BY <2>4 DEF Dispatch, process
  <2>5. CASE Return(p) \/ \E o \in Outputs : Settle(p, o)
    BY <2>5 DEF Return, Settle, process
  <2>6. CASE Ack(p) \/ LeavePending(p)
    BY <2>6 DEF Ack, LeavePending, Release, process
  <2>7. CASE Shutdown(p)
    BY <2>7 DEF Shutdown, call
  <2>8. CASE RunReturns(p)
    BY <2>8 DEF RunReturns, Down, WorkerIdle, call
  <2>9. CASE Crash(p)
    BY <2>9 DEF Crash, Down, Gone
  <2>10. CASE Restart(p)
    BY <2>10 DEF Restart, Up, Gone
  <2>11. CASE \E o \in Outputs : Forget(p, o) \/ Roll(p, o)
    BY <2>11 DEF Forget, Roll, process, call
  <2> QED BY <1>3, PodCases, <2>1, <2>2, <2>3, <2>4, <2>5, <2>6, <2>7, <2>8, <2>9, <2>10, <2>11
<1> QED BY <1>1, <1>2, <1>3 DEF Next

\* In no pod, however it stops or crashes, is the payload client closed under
\* the message being handled (RedisCatcher.Run closes it after consumer.Run).
THEOREM ClientStaysOpen == Spec => []ClientOpenWhileHandling
<1>1. Init => ClientInv
  BY DEF Init, ClientInv, Running
<1>2. ClientInv => ClientOpenWhileHandling
  BY DEF ClientInv, ClientOpenWhileHandling
<1> QED BY TypeCorrect, ClientStep, <1>1, <1>2, PTL DEF Spec
-----------------------------------------------------------------------------
(* AckedIsKept *)

\* A message of the key is out: posted or parked by some pod, now or before.
HasKey(o, k) == \E n \in Messages : <<n, o>> \in out /\ KeyOf[n] = k

\* What a throttle remembers is out, or the dispatch that recorded it is still
\* at work: the worker of that pod takes nothing else in between.
SeenInv ==
  \A p \in Pods, o \in Throttled : \A k \in seen[p][o] :
    \/ HasKey(o, k)
    \/ stage[p] = "dispatching" /\ outcome[p][o] = "pending" /\ KeyOf[worker[p]] = k

\* And so is every message it counts, and it remembers their keys.
CountedInv ==
  \A p \in Pods, o \in Throttled : \A m \in counted[p][o] :
    /\ KeyOf[m] \in seen[p][o]
    /\ \/ <<m, o>> \in out
       \/ stage[p] = "dispatching" /\ outcome[p][o] = "pending" /\ worker[p] = m

\* What a dispatch has decided is true.
CallInv ==
  \A p \in Pods, m \in Messages :
    worker[p] = m /\ stage[p] \in {"dispatching", "returned"} =>
      \A o \in Routes[m] : outcome[p][o] \in {"pending", "unparked"} \/ Kept(m, o)

\* A dispatch that has returned knows what became of every output, and its
\* error tells that an output is neither sent nor parked.
ErrorInv ==
  \A p \in Pods, o \in Outputs :
    stage[p] = "returned" => /\ outcome[p][o] # "pending"
                             /\ outcome[p][o] = "unparked" => ok[p] # TRUE

KeptInv == TypeOK /\ SeenInv /\ CountedInv /\ CallInv /\ ErrorInv /\ AckedIsKept

\* A key that a throttle holds a message back for is the message's own.
LEMMA KeptByKey ==
  ASSUME NEW m \in Messages, NEW o \in Throttled, HasKey(o, KeyOf[m])
  PROVE  Kept(m, o)
BY DEF HasKey, Kept, RepeatsOut

\* What is kept stays so.
LEMMA KeptStays ==
  ASSUME out \subseteq out', aboveMax \subseteq aboveMax', NEW m, NEW o, Kept(m, o)
  PROVE  Kept(m, o)'
<1>1. RepeatsOut(m, o) => RepeatsOut(m, o)'
  BY DEF RepeatsOut
<1>2. HeldAboveMax(m, o) => HeldAboveMax(m, o)'
  BY DEF HeldAboveMax
<1> QED BY <1>1, <1>2 DEF Kept

\* Steps that post nothing, and leave the other pods' dispatches alone.
LEMMA OthersKept ==
  ASSUME KeptInv, TypeOK', NEW p \in Pods,
         out \subseteq out', aboveMax \subseteq aboveMax',
         \A q \in Pods \ {p} : /\ stage'[q] = stage[q] /\ worker'[q] = worker[q]
                               /\ outcome'[q] = outcome[q] /\ ok'[q] = ok[q]
                               /\ seen'[q] = seen[q] /\ counted'[q] = counted[q],
         \A o \in Throttled : \A k \in seen'[p][o] :
           \/ HasKey(o, k)' \/ HasKey(o, k)
           \/ stage'[p] = "dispatching" /\ outcome'[p][o] = "pending" /\ KeyOf[worker'[p]] = k,
         \A o \in Throttled : \A m \in counted'[p][o] :
           /\ KeyOf[m] \in seen'[p][o]
           /\ \/ <<m, o>> \in out'
              \/ stage'[p] = "dispatching" /\ outcome'[p][o] = "pending" /\ worker'[p] = m,
         \A m \in Messages :
           worker'[p] = m /\ stage'[p] \in {"dispatching", "returned"} => \A o \in Routes[m] :
             outcome'[p][o] \in {"pending", "unparked"} \/ Kept(m, o)' \/ Kept(m, o),
         \A o \in Outputs :
           stage'[p] = "returned" => /\ outcome'[p][o] # "pending"
                                     /\ outcome'[p][o] = "unparked" => ok'[p] # TRUE,
         \A m \in acked' \ acked :
           m \in Malformed \cup dropped' \/ \A o \in Routes[m] : Kept(m, o),
         dropped \subseteq dropped'
  PROVE  KeptInv'
<1>1. \A o, k : HasKey(o, k) => HasKey(o, k)'
  BY DEF HasKey
<1>2. \A m, o : Kept(m, o) => Kept(m, o)'
  BY KeptStays
<1>3. SeenInv'
  <2> SUFFICES ASSUME NEW q \in Pods, NEW o \in Throttled, NEW k \in seen'[q][o]
               PROVE  \/ HasKey(o, k)'
                      \/ stage'[q] = "dispatching" /\ outcome'[q][o] = "pending" /\ KeyOf[worker'[q]] = k
    BY DEF SeenInv
  <2>1. CASE q = p
    BY <2>1, <1>1
  <2>2. CASE q # p
    BY <2>2, <1>1 DEF KeptInv, SeenInv
  <2> QED BY <2>1, <2>2
<1>4. CallInv'
  <2> SUFFICES ASSUME NEW q \in Pods, NEW m \in Messages, worker'[q] = m,
                      stage'[q] \in {"dispatching", "returned"}, NEW o \in Routes[m]
               PROVE  outcome'[q][o] \in {"pending", "unparked"} \/ Kept(m, o)'
    BY DEF CallInv
  <2>1. CASE q = p
    BY <2>1, <1>2
  <2>2. CASE q # p
    <3>1. stage'[q] = stage[q] /\ worker'[q] = worker[q] /\ outcome'[q] = outcome[q]
      BY <2>2
    <3>2. worker[q] = m /\ stage[q] \in {"dispatching", "returned"}
      BY <3>1
    <3>3. outcome[q][o] \in {"pending", "unparked"} \/ Kept(m, o)
      BY <3>2 DEF KeptInv, CallInv
    <3> QED BY <3>1, <3>3, <1>2
  <2> QED BY <2>1, <2>2
<1>5. ErrorInv'
  <2> SUFFICES ASSUME NEW q \in Pods, NEW o \in Outputs, stage'[q] = "returned"
               PROVE  outcome'[q][o] # "pending" /\ (outcome'[q][o] = "unparked" => ok'[q] # TRUE)
    BY DEF ErrorInv
  <2>1. CASE q = p
    BY <2>1
  <2>2. CASE q # p
    <3>1. stage'[q] = stage[q] /\ outcome'[q] = outcome[q] /\ ok'[q] = ok[q]
      BY <2>2
    <3>2. stage[q] = "returned" /\ ErrorInv
      BY <3>1 DEF KeptInv
    <3>3. outcome[q][o] # "pending" /\ (outcome[q][o] = "unparked" => ok[q] # TRUE)
      BY <3>2 DEF ErrorInv
    <3> QED BY <3>1, <3>3
  <2> QED BY <2>1, <2>2
<1>6. AckedIsKept'
  BY <1>2 DEF KeptInv, AckedIsKept
<1>7. CountedInv'
  <2> SUFFICES ASSUME NEW q \in Pods, NEW o \in Throttled, NEW m \in counted'[q][o]
               PROVE  /\ KeyOf[m] \in seen'[q][o]
                      /\ \/ <<m, o>> \in out'
                         \/ stage'[q] = "dispatching" /\ outcome'[q][o] = "pending" /\ worker'[q] = m
    BY DEF CountedInv
  <2>1. CASE q = p
    BY <2>1
  <2>2. CASE q # p
    <3>1. /\ stage'[q] = stage[q] /\ worker'[q] = worker[q] /\ outcome'[q] = outcome[q]
          /\ seen'[q] = seen[q] /\ counted'[q] = counted[q]
      BY <2>2
    <3> QED BY <3>1 DEF KeptInv, CountedInv
  <2> QED BY <2>1, <2>2
<1> QED BY <1>3, <1>4, <1>5, <1>6, <1>7 DEF KeptInv

\* An idle pod's throttles remember only what is out.
LEMMA SeenIsOut ==
  ASSUME KeptInv, NEW p \in Pods, stage[p] # "dispatching",
         NEW o \in Throttled, NEW k \in seen[p][o]
  PROVE  HasKey(o, k)
BY DEF KeptInv, SeenInv

\* And count only what is out.
LEMMA CountedIsOut ==
  ASSUME KeptInv, NEW p \in Pods, stage[p] # "dispatching",
         NEW o \in Throttled, NEW m \in counted[p][o]
  PROVE  KeyOf[m] \in seen[p][o] /\ <<m, o>> \in out
BY DEF KeptInv, CountedInv

\* A step that touches none of what the invariant speaks of.
LEMMA NothingMoves ==
  ASSUME KeptInv, TypeOK',
         UNCHANGED <<worker, stage, outcome, ok, seen, counted, out, aboveMax, acked, dropped>>
  PROVE  KeptInv'
<1>1. SeenInv'
  BY DEF KeptInv, SeenInv, HasKey
<1>2. \A m, o : Kept(m, o) => Kept(m, o)'
  BY KeptStays
<1>3. CallInv'
  BY <1>2 DEF KeptInv, CallInv
<1>4. ErrorInv'
  BY DEF KeptInv, ErrorInv
<1>5. AckedIsKept'
  BY <1>2 DEF KeptInv, AckedIsKept
<1>6. CountedInv'
  BY DEF KeptInv, CountedInv
<1> QED BY <1>1, <1>3, <1>4, <1>5, <1>6 DEF KeptInv

\* The worker of p is free afterwards; what it acks without an error is kept.
LEMMA FreeWorker ==
  ASSUME KeptInv, TypeOK', NEW p \in Pods, stage[p] # "dispatching", Release(p),
         UNCHANGED <<seen, counted, out, aboveMax>>, dropped \subseteq dropped',
         \A m \in acked' \ acked :
           m \in Malformed \cup dropped' \/ \A o \in Routes[m] : Kept(m, o)
  PROVE  KeptInv'
<1>1. /\ worker' = [worker EXCEPT ![p] = 0] /\ stage' = [stage EXCEPT ![p] = "none"]
      /\ outcome' = [outcome EXCEPT ![p] = NoOutcome] /\ ok' = [ok EXCEPT ![p] = TRUE]
  BY DEF Release
<1>2. stage'[p] = "none"
  BY <1>1 DEF KeptInv, TypeOK
<1>3. \A q \in Pods \ {p} : /\ stage'[q] = stage[q] /\ worker'[q] = worker[q]
                            /\ outcome'[q] = outcome[q] /\ ok'[q] = ok[q]
                            /\ seen'[q] = seen[q] /\ counted'[q] = counted[q]
  BY <1>1 DEF KeptInv, TypeOK
<1>4. \A o \in Throttled : \A k \in seen'[p][o] : HasKey(o, k)
  BY SeenIsOut
<1>5. \A o \in Throttled : \A m \in counted'[p][o] : KeyOf[m] \in seen'[p][o] /\ <<m, o>> \in out'
  BY CountedIsOut
<1> QED BY <1>2, <1>3, <1>4, <1>5, OthersKept

\* What p's handler acks without an error is kept.
LEMMA NoErrorIsKept ==
  ASSUME KeptInv, NEW p \in Pods, stage[p] = "returned", NoError(p), NEW o \in Routes[worker[p]]
  PROVE  Kept(worker[p], o)
<1>1. worker[p] \in Messages /\ o \in Outputs /\ ok[p] = TRUE
  BY CatcherAssumption DEF CatcherAssumption, KeptInv, TypeOK, NoError
<1>2. outcome[p][o] # "pending" /\ outcome[p][o] # "unparked"
  BY <1>1 DEF KeptInv, ErrorInv
<1>3. outcome[p][o] \in {"pending", "unparked"} \/ Kept(worker[p], o)
  BY <1>1 DEF KeptInv, CallInv
<1> QED BY <1>2, <1>3

\* A pod that is gone, or has just started, remembers nothing.
LEMMA GonePod ==
  ASSUME KeptInv, TypeOK', NEW p \in Pods, Gone(p),
         UNCHANGED <<out, aboveMax, acked, dropped>>
  PROVE  KeptInv'
<1>1. \A q \in Pods \ {p} : /\ stage'[q] = stage[q] /\ worker'[q] = worker[q]
                            /\ outcome'[q] = outcome[q] /\ ok'[q] = ok[q]
                            /\ seen'[q] = seen[q] /\ counted'[q] = counted[q]
  BY DEF Gone, KeptInv, TypeOK
<1>2. stage'[p] = "none"
  BY DEF Gone, KeptInv, TypeOK
<1>3. \A o \in Throttled : seen'[p][o] = {} /\ counted'[p][o] = {}
  BY CatcherAssumption DEF CatcherAssumption, Gone, Nothing, KeptInv, TypeOK
<1> QED BY <1>1, <1>2, <1>3, OthersKept

\* Every step keeps the invariant, if no throttled output fails to park.
LEMMA KeptStep ==
  ASSUME Throttled \cap ParkMayFail = {}
  PROVE  KeptInv /\ [Next]_vars => KeptInv'
<1> SUFFICES ASSUME KeptInv, [Next]_vars PROVE KeptInv'
  OBVIOUS
<1>1. TypeOK /\ TypeOK'
  BY TypeStep DEF KeptInv
<1>2. CASE UNCHANGED vars
  BY <1>1, <1>2, NothingMoves DEF vars, redis, call, throttle, world
<1>3. CASE Pitch
  BY <1>1, <1>3, NothingMoves DEF Pitch, call, throttle, world
<1>4. CASE Tick
  BY <1>1, <1>4, NothingMoves DEF Tick, throttle, world
<1>5. ASSUME NEW p \in Pods, Pod(p) PROVE KeptInv'
  <2>1. CASE Read(p) \/ \E m \in Messages : Reclaim(p, m)
    BY <1>1, <2>1, NothingMoves DEF Read, Reclaim, call, throttle, world
  <2>2. CASE Shutdown(p) \/ RunReturns(p)
    BY <1>1, <2>2, NothingMoves DEF Shutdown, RunReturns, redis, call, throttle, world
  <2>3. CASE Take(p)
    <3>1. stage[p] = "none" /\ stage'[p] = "taken"
      BY <1>1, <2>3 DEF Take, TypeOK
    <3>2. \A q \in Pods \ {p} : stage'[q] = stage[q] /\ worker'[q] = worker[q]
      BY <1>1, <2>3 DEF Take, TypeOK
    <3>3. UNCHANGED <<outcome, ok, seen, counted, out, aboveMax, acked, dropped>>
      BY <2>3 DEF Take, redis, throttle, world
    <3>4. \A o \in Throttled : \A k \in seen'[p][o] : HasKey(o, k)
      BY <3>1, <3>3, SeenIsOut
    <3>5. \A o \in Throttled : \A m \in counted'[p][o] : KeyOf[m] \in seen'[p][o] /\ <<m, o>> \in out'
      BY <3>1, <3>3, CountedIsOut
    <3> QED BY <1>1, <3>1, <3>2, <3>3, <3>4, <3>5, OthersKept
  <2>4. CASE SkipMalformed(p)
    <3>1. \A m \in acked' \ acked : m \in Malformed
      BY <2>4 DEF SkipMalformed, AckUndispatched, XAck
    <3> QED BY <1>1, <2>4, <3>1, FreeWorker DEF SkipMalformed, AckUndispatched, throttle
  <2>5. CASE ResolveFails(p)
    <3>1. \A m \in acked' \ acked : m \in dropped'
      BY <2>5 DEF ResolveFails, AckUndispatched, XAck
    <3> QED BY <1>1, <2>5, <3>1, FreeWorker DEF ResolveFails, AckUndispatched, throttle
  <2>6. CASE Ack(p)
    <3>1. \A m \in acked' \ acked : \A o \in Routes[m] : Kept(m, o)
      BY <2>6, NoErrorIsKept DEF Ack, XAck
    <3> QED BY <1>1, <2>6, <3>1, FreeWorker DEF Ack, throttle, world
  <2>7. CASE LeavePending(p)
    BY <1>1, <2>7, FreeWorker DEF LeavePending, redis, throttle, world
  <2>8. CASE Crash(p)
    BY <1>1, <2>8, GonePod DEF Crash, redis, world
  <2>9. CASE Restart(p)
    BY <1>1, <2>9, GonePod DEF Restart, Up, redis, world
  <2>10. CASE Dispatch(p)
    <3>1. /\ worker[p] \in Messages /\ stage[p] = "taken" /\ stage'[p] = "dispatching"
          /\ UNCHANGED <<worker, ok, out, acked, dropped>> /\ aboveMax \subseteq aboveMax'
      BY <1>1, <2>10 DEF Dispatch, TypeOK, redis
    <3>2. /\ \A q \in Pods \ {p} :
               /\ stage'[q] = stage[q] /\ outcome'[q] = outcome[q]
               /\ seen'[q] = seen[q] /\ counted'[q] = counted[q]
          /\ \A o \in Outputs : outcome'[p][o] = Decision(p, o)
          /\ \A o \in Outputs : seen'[p][o] = IF o \in Throttled /\ Decision(p, o) = "pending"
                                              THEN seen[p][o] \cup {KeyOf[worker[p]]} ELSE seen[p][o]
          /\ \A o \in Outputs : counted'[p][o] = IF o \in Throttled /\ Decision(p, o) = "pending"
                                                 THEN counted[p][o] \cup {worker[p]} ELSE counted[p][o]
      BY <1>1, <2>10 DEF Dispatch, TypeOK, Admitting
    <3>3. \A o \in Throttled : \A k \in seen[p][o] : HasKey(o, k)
      BY <3>1, SeenIsOut
    <3>4. ASSUME NEW o \in Throttled, NEW k \in seen'[p][o]
          PROVE  HasKey(o, k) \/ (outcome'[p][o] = "pending" /\ KeyOf[worker[p]] = k)
      <4>1. o \in Outputs
        BY CatcherAssumption DEF CatcherAssumption
      <4>2. CASE k \in seen[p][o]
        BY <3>3, <4>2
      <4>3. CASE k \notin seen[p][o]
        <5>1. /\ outcome'[p][o] = Decision(p, o)
              /\ seen'[p][o] = IF o \in Throttled /\ Decision(p, o) = "pending"
                              THEN seen[p][o] \cup {KeyOf[worker[p]]} ELSE seen[p][o]
          BY <3>2, <4>1
        <5> QED BY <3>4, <4>3, <5>1
      <4> QED BY <4>2, <4>3
    <3>5. \A o \in Routes[worker[p]] : outcome'[p][o] = "pending" \/ Kept(worker[p], o)'
      <4> SUFFICES ASSUME NEW o \in Routes[worker[p]], outcome'[p][o] # "pending"
                   PROVE  Kept(worker[p], o)'
        OBVIOUS
      <4>1. o \in Outputs /\ (Repeat(p, o) \/ Full(p, o))
        BY <3>1, <3>2, CatcherAssumption DEF CatcherAssumption, Decision
      <4>2. o \in Throttled
        BY <4>1 DEF Repeat, Full
      <4>3. CASE Repeat(p, o)
        <5>1. HasKey(o, KeyOf[worker[p]])
          BY <3>3, <4>3 DEF Repeat
        <5>2. Kept(worker[p], o)
          BY <3>1, <4>2, <5>1, KeptByKey
        <5> QED BY <3>1, <5>2, KeptStays
      <4>4. CASE ~Repeat(p, o)
        <5> DEFINE h == [msg |-> worker[p], output |-> o, posts |-> counted[p][o]]
        <5>1. Full(p, o) /\ o \in AboveMax(p)
          BY <4>1, <4>2, <4>4 DEF AboveMax
        <5>2. h \in aboveMax'
          BY <2>10, <5>1 DEF Dispatch
        <5>3. KeyOf[worker[p]] \notin seen[p][o]
          BY <4>2, <4>4 DEF Repeat
        <5>4. \A n \in counted[p][o] : KeyOf[n] \in seen[p][o] /\ <<n, o>> \in out
          BY <3>1, <4>2, CountedIsOut
        <5>5. /\ h.msg = worker[p] /\ h.output = o
              /\ MaxPosts[o] > 0 /\ Cardinality(h.posts) >= MaxPosts[o]
              /\ worker[p] \notin h.posts /\ \A n \in h.posts : <<n, o>> \in out'
          BY <3>1, <5>1, <5>3, <5>4 DEF Full
        <5> HIDE DEF h
        <5> QED BY <3>1, <5>2, <5>5 DEF Kept, HeldAboveMax
      <4> QED BY <4>3, <4>4
    <3>6. \A m \in Messages : worker'[p] = m => \A o \in Routes[m] :
            outcome'[p][o] \in {"pending", "unparked"} \/ Kept(m, o)'
      BY <3>1, <3>5
    <3>7. \A o \in Throttled : \A k \in seen'[p][o] :
            \/ HasKey(o, k)' \/ HasKey(o, k)
            \/ stage'[p] = "dispatching" /\ outcome'[p][o] = "pending" /\ KeyOf[worker'[p]] = k
      <4> SUFFICES ASSUME NEW o \in Throttled, NEW k \in seen'[p][o], ~HasKey(o, k)
                   PROVE  stage'[p] = "dispatching" /\ outcome'[p][o] = "pending" /\ KeyOf[worker'[p]] = k
        OBVIOUS
      <4> QED BY <3>1, <3>4
    <3>8. \A m \in Messages : worker'[p] = m /\ stage'[p] \in {"dispatching", "returned"} =>
            \A o \in Routes[m] :
              outcome'[p][o] \in {"pending", "unparked"} \/ Kept(m, o)' \/ Kept(m, o)
      BY <3>6
    <3>9. ASSUME NEW o \in Throttled, NEW m \in counted'[p][o]
          PROVE  /\ KeyOf[m] \in seen'[p][o]
                 /\ \/ <<m, o>> \in out'
                    \/ stage'[p] = "dispatching" /\ outcome'[p][o] = "pending" /\ worker'[p] = m
      <4>1. o \in Outputs
        BY CatcherAssumption DEF CatcherAssumption
      <4>2. CASE m \in counted[p][o]
        <5>1. KeyOf[m] \in seen[p][o] /\ <<m, o>> \in out
          BY <3>1, <4>2, CountedIsOut
        <5> QED BY <3>1, <3>2, <4>1, <5>1
      <4>3. CASE m \notin counted[p][o]
        <5>1. Decision(p, o) = "pending" /\ m = worker[p]
          BY <3>2, <4>1, <4>3
        <5> QED BY <3>1, <3>2, <4>1, <5>1
      <4> QED BY <4>2, <4>3
    <3>10. \A o \in Throttled : \A m \in counted'[p][o] :
             /\ KeyOf[m] \in seen'[p][o]
             /\ \/ <<m, o>> \in out'
                \/ stage'[p] = "dispatching" /\ outcome'[p][o] = "pending" /\ worker'[p] = m
      BY <3>9
    <3>11. \A q \in Pods \ {p} :
             /\ stage'[q] = stage[q] /\ worker'[q] = worker[q]
             /\ outcome'[q] = outcome[q] /\ ok'[q] = ok[q]
             /\ seen'[q] = seen[q] /\ counted'[q] = counted[q]
      BY <3>1, <3>2
    <3> QED BY <1>1, <3>1, <3>7, <3>8, <3>10, <3>11, OthersKept
  <2>11. ASSUME NEW o \in Outputs, Settle(p, o) PROVE KeptInv'
    <3> DEFINE w == worker[p]
    <3>1. PICK fate \in {"sent", "parked", "unparked"} :
            /\ outcome' = [outcome EXCEPT ![p][o] = fate]
            /\ out' = IF fate = "unparked" THEN out ELSE out \cup {<<w, o>>}
            /\ IF fate = "unparked" THEN o \in ParkMayFail /\ Fault ELSE UNCHANGED faults
      BY <2>11 DEF Settle
    <3>2. /\ w \in Messages /\ stage[p] = "dispatching"
          /\ UNCHANGED <<worker, stage, ok, seen, counted, aboveMax, acked, dropped>>
      BY <1>1, <2>11 DEF Settle, TypeOK, redis, throttle
    <3>3. /\ \A q \in Pods \ {p} : outcome'[q] = outcome[q]
          /\ \A x \in Outputs : outcome'[p][x] = IF x = o THEN fate ELSE outcome[p][x]
      BY <1>1, <3>1 DEF TypeOK
    <3>4. out \subseteq out'
      BY <3>1
    <3>5. fate = "unparked" \/ <<w, o>> \in out'
      BY <3>1
    <3>6. fate = "unparked" => o \notin Throttled
      BY <3>1
    <3>7. \A x \in Throttled : \A k \in seen'[p][x] :
            HasKey(x, k)' \/ HasKey(x, k) \/ (outcome'[p][x] = "pending" /\ KeyOf[w] = k)
      <4> SUFFICES ASSUME NEW x \in Throttled, NEW k \in seen[p][x], ~HasKey(x, k)
                   PROVE  HasKey(x, k)' \/ (outcome'[p][x] = "pending" /\ KeyOf[w] = k)
        BY <3>2
      <4>1. outcome[p][x] = "pending" /\ KeyOf[w] = k /\ x \in Outputs
        BY CatcherAssumption DEF CatcherAssumption, KeptInv, SeenInv
      <4>2. CASE x = o
        <5>1. <<w, x>> \in out'
          BY <3>5, <3>6, <4>2
        <5> QED BY <3>2, <4>1, <5>1 DEF HasKey
      <4>3. CASE x # o
        BY <3>3, <4>1, <4>3
      <4> QED BY <4>2, <4>3
    <3>8. \A m \in Messages : worker'[p] = m => \A x \in Routes[m] :
            outcome'[p][x] \in {"pending", "unparked"} \/ Kept(m, x)' \/ Kept(m, x)
      <4> SUFFICES ASSUME NEW x \in Routes[w]
                   PROVE  outcome'[p][x] \in {"pending", "unparked"} \/ Kept(w, x)' \/ Kept(w, x)
        BY <3>2
      <4>1. x \in Outputs
        BY <3>2, CatcherAssumption DEF CatcherAssumption
      <4>2. CASE x = o
        BY <3>2, <3>3, <3>5, <4>1, <4>2 DEF Kept
      <4>3. CASE x # o
        <5>1. outcome[p][x] \in {"pending", "unparked"} \/ Kept(w, x)
          BY <3>2 DEF KeptInv, CallInv
        <5> QED BY <3>3, <4>1, <4>3, <5>1
      <4> QED BY <4>2, <4>3
    <3>9. \A x \in Throttled : \A k \in seen'[p][x] :
            \/ HasKey(x, k)' \/ HasKey(x, k)
            \/ stage'[p] = "dispatching" /\ outcome'[p][x] = "pending" /\ KeyOf[worker'[p]] = k
      BY <3>2, <3>7
    <3>10. ASSUME NEW x \in Throttled, NEW m \in counted'[p][x]
           PROVE  /\ KeyOf[m] \in seen'[p][x]
                  /\ \/ <<m, x>> \in out'
                     \/ stage'[p] = "dispatching" /\ outcome'[p][x] = "pending" /\ worker'[p] = m
      <4>1. x \in Outputs
        BY CatcherAssumption DEF CatcherAssumption
      <4>2. /\ KeyOf[m] \in seen[p][x]
            /\ <<m, x>> \in out \/ (outcome[p][x] = "pending" /\ w = m)
        BY <3>2, <3>10 DEF KeptInv, CountedInv
      <4>3. CASE x = o
        BY <3>2, <3>4, <3>5, <3>6, <4>2, <4>3
      <4>4. CASE x # o
        BY <3>2, <3>3, <3>4, <4>1, <4>2, <4>4
      <4> QED BY <4>3, <4>4
    <3>11. \A x \in Throttled : \A m \in counted'[p][x] :
             /\ KeyOf[m] \in seen'[p][x]
             /\ \/ <<m, x>> \in out'
                \/ stage'[p] = "dispatching" /\ outcome'[p][x] = "pending" /\ worker'[p] = m
      BY <3>10
    <3>12. /\ \A m \in Messages : worker'[p] = m /\ stage'[p] \in {"dispatching", "returned"} =>
                \A x \in Routes[m] :
                  outcome'[p][x] \in {"pending", "unparked"} \/ Kept(m, x)' \/ Kept(m, x)
           /\ stage'[p] # "returned" /\ acked' = acked /\ dropped' = dropped
           /\ \A q \in Pods \ {p} :
                /\ stage'[q] = stage[q] /\ worker'[q] = worker[q]
                /\ outcome'[q] = outcome[q] /\ ok'[q] = ok[q]
                /\ seen'[q] = seen[q] /\ counted'[q] = counted[q]
           /\ out \subseteq out' /\ aboveMax \subseteq aboveMax'
      BY <3>2, <3>3, <3>4, <3>8
    <3> HIDE DEF w
    <3> QED BY <1>1, <3>9, <3>11, <3>12, OthersKept
  <2>12. CASE Return(p)
    <3>1. /\ stage[p] = "dispatching" /\ stage'[p] = "returned"
          /\ UNCHANGED <<worker, outcome, seen, counted, out, aboveMax, acked, dropped>>
      BY <1>1, <2>12 DEF Return, TypeOK, redis, throttle, world
    <3>2. \A q \in Pods \ {p} : stage'[q] = stage[q] /\ ok'[q] = ok[q]
      BY <1>1, <2>12 DEF Return, TypeOK
    <3>3. \A o \in Outputs : outcome[p][o] # "pending"
      BY <2>12 DEF Return, F!Return
    <3>4. (\E o \in Outputs : outcome[p][o] = "unparked") => ok'[p] # TRUE
      BY <1>1, <2>12 DEF Return, F!Undelivered, TypeOK
    <3>5. \A o \in Throttled : \A k \in seen'[p][o] : HasKey(o, k)
      BY <3>1, <3>3, CatcherAssumption DEF CatcherAssumption, KeptInv, SeenInv
    <3>6. ASSUME NEW m \in Messages, worker'[p] = m, NEW o \in Routes[m]
          PROVE  outcome'[p][o] \in {"pending", "unparked"} \/ Kept(m, o)
      <4>1. worker[p] = m /\ stage[p] \in {"dispatching", "returned"} /\ outcome' = outcome
        BY <3>1, <3>6
      <4>2. outcome[p][o] \in {"pending", "unparked"} \/ Kept(m, o)
        BY <4>1 DEF KeptInv, CallInv
      <4> QED BY <4>1, <4>2
    <3>7. \A m \in Messages : worker'[p] = m /\ stage'[p] \in {"dispatching", "returned"} =>
            \A o \in Routes[m] :
              outcome'[p][o] \in {"pending", "unparked"} \/ Kept(m, o)' \/ Kept(m, o)
      BY <3>6
    <3>8. \A o \in Outputs :
            stage'[p] = "returned" => /\ outcome'[p][o] # "pending"
                                      /\ outcome'[p][o] = "unparked" => ok'[p] # TRUE
      <4> SUFFICES ASSUME NEW o \in Outputs
                   PROVE  /\ outcome'[p][o] # "pending"
                          /\ outcome'[p][o] = "unparked" => ok'[p] # TRUE
        OBVIOUS
      <4>1. outcome'[p][o] = outcome[p][o]
        BY <3>1
      <4> QED BY <3>3, <3>4, <4>1
    <3>9. \A q \in Pods \ {p} : /\ stage'[q] = stage[q] /\ worker'[q] = worker[q]
                                /\ outcome'[q] = outcome[q] /\ ok'[q] = ok[q]
                                /\ seen'[q] = seen[q] /\ counted'[q] = counted[q]
      BY <3>1, <3>2
    <3>10. \A o \in Throttled : \A m \in counted'[p][o] : KeyOf[m] \in seen'[p][o] /\ <<m, o>> \in out'
      BY <3>1, <3>3, CatcherAssumption DEF CatcherAssumption, KeptInv, CountedInv
    <3> QED BY <1>1, <3>1, <3>5, <3>7, <3>8, <3>9, <3>10, OthersKept
  <2>13. ASSUME NEW o \in Outputs, Forget(p, o) PROVE KeptInv'
    <3>1. PICK k \in seen[p][o] \ {KeyOf[m] : m \in counted[p][o]} :
            seen' = [seen EXCEPT ![p][o] = @ \ {k}]
      BY <2>13 DEF Forget
    <3>2. /\ stage[p] = "none"
          /\ UNCHANGED <<worker, stage, outcome, ok, counted, out, aboveMax, acked, dropped>>
      BY <2>13 DEF Forget, redis, call, world
    <3>3. \A q \in Pods \ {p} : seen'[q] = seen[q]
      BY <1>1, <3>1 DEF TypeOK
    <3>4. \A x \in Outputs : seen'[p][x] = IF x = o THEN seen[p][x] \ {k} ELSE seen[p][x]
      BY <1>1, <3>1 DEF TypeOK
    <3>5. \A x \in Throttled : x \in Outputs
      BY CatcherAssumption DEF CatcherAssumption
    <3>6. \A x \in Throttled : \A l \in seen'[p][x] : HasKey(x, l)
      BY <3>2, <3>4, <3>5, SeenIsOut
    <3>7. \A x \in Throttled : \A m \in counted'[p][x] : KeyOf[m] \in seen'[p][x] /\ <<m, x>> \in out'
      <4> SUFFICES ASSUME NEW x \in Throttled, NEW m \in counted[p][x]
                   PROVE  KeyOf[m] \in seen'[p][x] /\ <<m, x>> \in out'
        BY <3>2
      <4>1. KeyOf[m] \in seen[p][x] /\ <<m, x>> \in out
        BY <3>2, CountedIsOut
      <4>2. x = o => KeyOf[m] # k
        BY <3>1
      <4> QED BY <3>2, <3>4, <3>5, <4>1, <4>2
    <3> QED BY <1>1, <3>2, <3>3, <3>6, <3>7, OthersKept
  <2>14. ASSUME NEW o \in Outputs, Roll(p, o) PROVE KeptInv'
    <3>1. /\ stage[p] = "none" /\ counted' = [counted EXCEPT ![p][o] = {}]
          /\ UNCHANGED <<worker, stage, outcome, ok, seen, out, aboveMax, acked, dropped>>
      BY <2>14 DEF Roll, redis, call, world
    <3>2. \A q \in Pods \ {p} : counted'[q] = counted[q]
      BY <1>1, <3>1 DEF TypeOK
    <3>3. \A x \in Throttled : counted'[p][x] \subseteq counted[p][x]
      BY <1>1, <3>1, CatcherAssumption DEF CatcherAssumption, TypeOK
    <3>4. \A x \in Throttled : \A l \in seen'[p][x] : HasKey(x, l)
      BY <3>1, SeenIsOut
    <3>5. \A x \in Throttled : \A m \in counted'[p][x] : KeyOf[m] \in seen'[p][x] /\ <<m, x>> \in out'
      BY <3>1, <3>3, CountedIsOut
    <3> QED BY <1>1, <3>1, <3>2, <3>4, <3>5, OthersKept
  <2> QED BY <1>5, PodCases, <2>1, <2>2, <2>3, <2>4, <2>5, <2>6, <2>7, <2>8, <2>9, <2>10,
             <2>11, <2>12, <2>13, <2>14
<1> QED BY <1>2, <1>3, <1>4, <1>5 DEF Next

\* If a throttled output never fails to park, an acked entry is delivered or
\* parked for every output it matches, or the messages it was held back for
\* are: the one whose key it repeats, or the max ones that filled the window.
\* For any number of pods, and through every crash, lost ack and redelivery
\* (handleMessage, Dispatch, throttle.admit).  Without the assumption the run
\* catcher_throttled shows an acked message that is nowhere.
THEOREM AckedStaysKept ==
  ASSUME Throttled \cap ParkMayFail = {}
  PROVE  Spec => []AckedIsKept
<1>1. Init => KeptInv
  BY TypeInit, CatcherAssumption
     DEF CatcherAssumption, KeptInv, Init, SeenInv, CountedInv, CallInv, ErrorInv, AckedIsKept, Nothing
<1>2. KeptInv /\ [Next]_vars => KeptInv'
  BY KeptStep
<1>3. KeptInv => AckedIsKept
  BY DEF KeptInv
<1> QED BY <1>1, <1>2, <1>3, PTL DEF Spec
-----------------------------------------------------------------------------
(* InOrderUnlessReclaimed *)

\* n may follow m in the order of one pod, which claimed the entries in R.
Follows(R, m, n) == m > n => n \in R

\* What a pod has buffered, is about to dispatch and has dispatched is in
\* stream order, entries it claimed apart.
LineInv ==
  \A p \in Pods :
    /\ \A i, j \in DOMAIN queue[p] : i < j => Follows(reclaimed, queue[p][i], queue[p][j])
    /\ stage[p] = "taken" => \A j \in DOMAIN queue[p] : Follows(reclaimed, worker[p], queue[p][j])
    /\ \A i \in DOMAIN handled : handled[i][1] = p =>
         /\ \A j \in DOMAIN queue[p] : Follows(reclaimed, handled[i][2], queue[p][j])
         /\ stage[p] = "taken" => Follows(reclaimed, handled[i][2], worker[p])

\* What the group has not delivered yet is in no pod.
DeliveredInv ==
  /\ \A p \in Pods : /\ \A j \in DOMAIN queue[p] : queue[p][j] < nextRead
                     /\ stage[p] # "none" => worker[p] < nextRead
  /\ \A i \in DOMAIN handled : handled[i][2] < nextRead

\* Nor is it in the pending list.
PendingInv == \A m \in Messages : idle[m] # None => m < nextRead

OrderInv == LineInv /\ DeliveredInv /\ InOrderUnlessReclaimed

\* The entries a pod has in its buffer, is at, or has handled are numbers.
LEMMA AreNumbers ==
  ASSUME TypeOK
  PROVE  /\ Messages \subseteq Nat /\ nextRead \in Nat
         /\ \A p \in Pods : \A j \in DOMAIN queue[p] : queue[p][j] \in Messages
         /\ \A p \in Pods : stage[p] # "none" => worker[p] \in Messages
         /\ \A i \in DOMAIN handled : handled[i] \in Pods \X Messages
         /\ \A i \in DOMAIN handled : handled[i][2] \in Messages
         /\ \A p \in Pods : queue[p] \in Seq(Messages) /\ DOMAIN queue[p] = 1..Len(queue[p])
         /\ DOMAIN handled = 1..Len(handled) /\ Len(handled) \in Nat
<1>1. Messages \subseteq Nat
  BY CatcherAssumption DEF CatcherAssumption
<1>2. pitched \in Nat /\ nextRead \in Nat
  BY CatcherAssumption DEF CatcherAssumption, TypeOK
<1>3. handled \in Seq(Pods \X Messages)
  BY DEF TypeOK
<1>4. \A i \in DOMAIN handled : handled[i] \in Pods \X Messages
  BY <1>3
<1> QED BY <1>1, <1>2, <1>3, <1>4 DEF TypeOK

\* A step that dispatches nothing, by the buffer and the worker of one pod.
LEMMA LineKept ==
  ASSUME TypeOK, OrderInv, NEW p \in Pods, handled' = handled,
         reclaimed \subseteq reclaimed', nextRead' \in Nat, nextRead <= nextRead',
         \A q \in Pods \ {p} : queue'[q] = queue[q] /\ stage'[q] = stage[q] /\ worker'[q] = worker[q],
         \A i, j \in DOMAIN queue'[p] : i < j => Follows(reclaimed', queue'[p][i], queue'[p][j]),
         stage'[p] = "taken" => \A j \in DOMAIN queue'[p] : Follows(reclaimed', worker'[p], queue'[p][j]),
         \A i \in DOMAIN handled : handled[i][1] = p =>
           /\ \A j \in DOMAIN queue'[p] : Follows(reclaimed', handled[i][2], queue'[p][j])
           /\ stage'[p] = "taken" => Follows(reclaimed', handled[i][2], worker'[p]),
         \A j \in DOMAIN queue'[p] : queue'[p][j] < nextRead',
         stage'[p] # "none" => worker'[p] < nextRead'
  PROVE  OrderInv'
<1>1. \A m, n : Follows(reclaimed, m, n) => Follows(reclaimed', m, n)
  BY DEF Follows
<1>2. LineInv'
  <2> SUFFICES ASSUME NEW q \in Pods
               PROVE  /\ \A i, j \in DOMAIN queue'[q] : i < j => Follows(reclaimed', queue'[q][i], queue'[q][j])
                      /\ stage'[q] = "taken" =>
                           \A j \in DOMAIN queue'[q] : Follows(reclaimed', worker'[q], queue'[q][j])
                      /\ \A i \in DOMAIN handled : handled[i][1] = q =>
                           /\ \A j \in DOMAIN queue'[q] : Follows(reclaimed', handled[i][2], queue'[q][j])
                           /\ stage'[q] = "taken" => Follows(reclaimed', handled[i][2], worker'[q])
    BY DEF LineInv
  <2>1. CASE q = p
    BY <2>1
  <2>2. CASE q # p
    <3>1. queue'[q] = queue[q] /\ stage'[q] = stage[q] /\ worker'[q] = worker[q]
      BY <2>2
    <3> QED BY <1>1, <3>1 DEF OrderInv, LineInv
  <2> QED BY <2>1, <2>2
<1>3. DeliveredInv'
  <2> SUFFICES ASSUME NEW q \in Pods
               PROVE  /\ \A j \in DOMAIN queue'[q] : queue'[q][j] < nextRead'
                      /\ stage'[q] # "none" => worker'[q] < nextRead'
                      /\ \A i \in DOMAIN handled : handled[i][2] < nextRead'
    <3>1. \A i \in DOMAIN handled : handled[i][2] < nextRead'
      BY AreNumbers DEF OrderInv, DeliveredInv
    <3> QED BY <3>1 DEF DeliveredInv
  <2>1. \A i \in DOMAIN handled : handled[i][2] < nextRead'
    BY AreNumbers DEF OrderInv, DeliveredInv
  <2>2. CASE q = p
    BY <2>1, <2>2
  <2>3. CASE q # p
    <3>1. queue'[q] = queue[q] /\ stage'[q] = stage[q] /\ worker'[q] = worker[q]
      BY <2>3
    <3>2. \A j \in DOMAIN queue[q] : queue[q][j] < nextRead /\ queue[q][j] \in Nat
      BY AreNumbers DEF OrderInv, DeliveredInv
    <3>3. stage[q] # "none" => worker[q] < nextRead /\ worker[q] \in Nat
      BY AreNumbers DEF OrderInv, DeliveredInv
    <3> QED BY AreNumbers, <2>1, <3>1, <3>2, <3>3
  <2> QED BY <2>2, <2>3
<1>4. InOrderUnlessReclaimed'
  BY DEF OrderInv, InOrderUnlessReclaimed
<1> QED BY <1>2, <1>3, <1>4 DEF OrderInv

\* A step after which the pod has as much before it as before, or nothing.
LEMMA LineShrinks ==
  ASSUME TypeOK, OrderInv, NEW p \in Pods, UNCHANGED <<handled, nextRead>>,
         reclaimed \subseteq reclaimed',
         \A q \in Pods \ {p} : queue'[q] = queue[q] /\ stage'[q] = stage[q] /\ worker'[q] = worker[q],
         queue'[p] \in {queue[p], << >>},
         \/ stage'[p] = "none"
         \/ stage'[p] = stage[p] /\ worker'[p] = worker[p]
         \/ stage'[p] = "returned" /\ worker'[p] = worker[p] /\ stage[p] # "none"
  PROVE  OrderInv'
<1>1. \A m, n : Follows(reclaimed, m, n) => Follows(reclaimed', m, n)
  BY DEF Follows
<1>2. \A j \in DOMAIN queue'[p] : j \in DOMAIN queue[p] /\ queue'[p][j] = queue[p][j]
  <2>1. DOMAIN << >> = {}
    OBVIOUS
  <2> QED BY <2>1
<1>3. /\ \A i, j \in DOMAIN queue[p] : i < j => Follows(reclaimed, queue[p][i], queue[p][j])
      /\ \A i \in DOMAIN handled : handled[i][1] = p =>
           \A j \in DOMAIN queue[p] : Follows(reclaimed, handled[i][2], queue[p][j])
      /\ \A j \in DOMAIN queue[p] : queue[p][j] < nextRead
  BY DEF OrderInv, LineInv, DeliveredInv
<1>4. stage'[p] = "taken" =>
        /\ \A j \in DOMAIN queue[p] : Follows(reclaimed, worker'[p], queue[p][j])
        /\ \A i \in DOMAIN handled : handled[i][1] = p => Follows(reclaimed, handled[i][2], worker'[p])
  BY DEF OrderInv, LineInv
<1>5. stage'[p] # "none" => worker'[p] < nextRead
  BY DEF OrderInv, DeliveredInv
<1>6. /\ \A i, j \in DOMAIN queue'[p] : i < j => Follows(reclaimed', queue'[p][i], queue'[p][j])
      /\ \A i \in DOMAIN handled : handled[i][1] = p =>
           \A j \in DOMAIN queue'[p] : Follows(reclaimed', handled[i][2], queue'[p][j])
      /\ \A j \in DOMAIN queue'[p] : queue'[p][j] < nextRead
  BY <1>1, <1>2, <1>3
<1>7. stage'[p] = "taken" =>
        /\ \A j \in DOMAIN queue'[p] : Follows(reclaimed', worker'[p], queue'[p][j])
        /\ \A i \in DOMAIN handled : handled[i][1] = p => Follows(reclaimed', handled[i][2], worker'[p])
  BY <1>1, <1>2, <1>4
<1>8. nextRead \in Nat /\ nextRead' = nextRead
  BY AreNumbers
<1> QED BY <1>5, <1>6, <1>7, <1>8, LineKept

\* An entry joins the buffer that may follow all the pod has had.
LEMMA LineGrows ==
  ASSUME TypeOK, OrderInv, NEW p \in Pods, NEW m \in Messages, Buffer(p, m),
         UNCHANGED <<stage, worker, handled>>, reclaimed \subseteq reclaimed',
         nextRead' \in Nat, nextRead <= nextRead', m < nextRead',
         m \in reclaimed' \/ nextRead <= m
  PROVE  OrderInv'
<1>1. queue[p] \in Seq(Messages) /\ queue' = [queue EXCEPT ![p] = Append(@, m)]
  BY DEF TypeOK, Buffer
<1>2. /\ queue'[p] = Append(queue[p], m)
      /\ \A q \in Pods \ {p} : queue'[q] = queue[q]
  BY <1>1 DEF TypeOK
<1> DEFINE n == Len(queue[p])
<1>3. /\ n \in Nat /\ DOMAIN queue[p] = 1..n /\ DOMAIN queue'[p] = 1..(n + 1)
      /\ queue'[p][n + 1] = m
      /\ \A j \in 1..n : queue'[p][j] = queue[p][j]
  BY <1>1, <1>2
<1> HIDE DEF n
<1>4. \A x, y : Follows(reclaimed, x, y) => Follows(reclaimed', x, y)
  BY DEF Follows
<1>5. \A x \in Nat : x < nextRead => Follows(reclaimed', x, m)
  BY AreNumbers DEF Follows
<1>6. \A j \in 1..n : queue[p][j] < nextRead /\ queue[p][j] \in Nat /\ nextRead \in Nat
  BY <1>3, AreNumbers DEF OrderInv, DeliveredInv
<1>7. \A i \in DOMAIN handled : handled[i][2] < nextRead /\ handled[i][2] \in Nat
  BY AreNumbers DEF OrderInv, DeliveredInv
<1>8. stage[p] = "taken" => worker[p] < nextRead /\ worker[p] \in Nat
  BY AreNumbers DEF OrderInv, DeliveredInv
<1>9. ASSUME NEW i \in 1..(n + 1), NEW j \in 1..(n + 1), i < j
      PROVE  Follows(reclaimed', queue'[p][i], queue'[p][j])
  <2>1. i \in 1..n
    BY <1>3, <1>9
  <2>2. CASE j = n + 1
    BY <1>3, <1>5, <1>6, <2>1, <2>2
  <2>3. CASE j \in 1..n
    BY <1>3, <1>4, <1>9, <2>1, <2>3 DEF OrderInv, LineInv
  <2> QED BY <1>3, <2>2, <2>3
<1>10. ASSUME NEW j \in 1..(n + 1)
       PROVE  /\ stage[p] = "taken" => Follows(reclaimed', worker[p], queue'[p][j])
              /\ \A i \in DOMAIN handled : handled[i][1] = p => Follows(reclaimed', handled[i][2], queue'[p][j])
              /\ queue'[p][j] < nextRead'
  <2>1. CASE j = n + 1
    BY <1>3, <1>5, <1>7, <1>8, <2>1
  <2>2. CASE j \in 1..n
    BY <1>3, <1>4, <1>6, <2>2 DEF OrderInv, LineInv
  <2> QED BY <1>3, <2>1, <2>2
<1>11. stage[p] = "taken" =>
         \A i \in DOMAIN handled : handled[i][1] = p => Follows(reclaimed', handled[i][2], worker[p])
  BY <1>4 DEF OrderInv, LineInv
<1>12. stage[p] # "none" => worker[p] < nextRead'
  BY AreNumbers DEF OrderInv, DeliveredInv
<1> QED BY <1>2, <1>3, <1>9, <1>10, <1>11, <1>12, LineKept

\* The worker takes the head of its buffer.
LEMMA LineTaken == ASSUME TypeOK, OrderInv, NEW p \in Pods, Take(p) PROVE OrderInv'
<1>1. /\ queue[p] \in Seq(Messages) /\ queue[p] # << >>
      /\ UNCHANGED <<handled, reclaimed, nextRead>>
  BY DEF TypeOK, Take, redis, world
<1>2. /\ queue'[p] = Tail(queue[p]) /\ worker'[p] = Head(queue[p]) /\ stage'[p] = "taken"
      /\ \A q \in Pods \ {p} : queue'[q] = queue[q] /\ stage'[q] = stage[q] /\ worker'[q] = worker[q]
  BY DEF TypeOK, Take
<1> DEFINE n == Len(queue[p])
<1>3. /\ n \in Nat /\ n > 0 /\ DOMAIN queue[p] = 1..n /\ DOMAIN queue'[p] = 1..(n - 1)
      /\ worker'[p] = queue[p][1]
      /\ \A j \in 1..(n - 1) : queue'[p][j] = queue[p][j + 1]
  BY <1>1, <1>2
<1> HIDE DEF n
<1>4. \A x, y : Follows(reclaimed, x, y) => Follows(reclaimed', x, y)
  BY <1>1 DEF Follows
<1>5. /\ \A i, j \in 1..n : i < j => Follows(reclaimed', queue[p][i], queue[p][j])
      /\ \A i \in DOMAIN handled : handled[i][1] = p =>
           \A j \in 1..n : Follows(reclaimed', handled[i][2], queue[p][j])
      /\ \A j \in 1..n : queue[p][j] < nextRead
  BY <1>3, <1>4 DEF OrderInv, LineInv, DeliveredInv
<1>6. /\ \A j \in 1..(n - 1) : j + 1 \in 1..n /\ 1 < j + 1
      /\ \A i, j \in 1..(n - 1) : i < j => i + 1 < j + 1
      /\ 1 \in 1..n
  BY <1>3
<1>7. \A i, j \in DOMAIN queue'[p] : i < j => Follows(reclaimed', queue'[p][i], queue'[p][j])
  BY <1>3, <1>5, <1>6
<1>8. \A j \in DOMAIN queue'[p] : Follows(reclaimed', worker'[p], queue'[p][j]) /\ queue'[p][j] < nextRead
  BY <1>3, <1>5, <1>6
<1>9. \A i \in DOMAIN handled : handled[i][1] = p =>
        /\ \A j \in DOMAIN queue'[p] : Follows(reclaimed', handled[i][2], queue'[p][j])
        /\ Follows(reclaimed', handled[i][2], worker'[p])
  BY <1>3, <1>5, <1>6
<1>10. worker'[p] < nextRead /\ nextRead \in Nat /\ nextRead' = nextRead /\ nextRead <= nextRead'
  <2>1. nextRead \in Nat /\ nextRead' = nextRead
    BY <1>1, AreNumbers
  <2>2. queue[p][1] < nextRead
    BY <1>5, <1>6
  <2>3. worker'[p] < nextRead
    BY <1>3, <2>2
  <2>4. nextRead <= nextRead
    BY <2>1
  <2>5. nextRead <= nextRead'
    BY <2>1, <2>4
  <2> QED BY <2>1, <2>3, <2>5
<1>11. handled' = handled /\ reclaimed \subseteq reclaimed' /\ nextRead' \in Nat
  BY <1>1, <1>10
<1>12. /\ \A j \in DOMAIN queue'[p] : queue'[p][j] < nextRead'
       /\ worker'[p] < nextRead'
  BY <1>8, <1>10
<1>13. /\ \A j \in DOMAIN queue'[p] : Follows(reclaimed', worker'[p], queue'[p][j])
       /\ \A q \in Pods \ {p} :
            queue'[q] = queue[q] /\ stage'[q] = stage[q] /\ worker'[q] = worker[q]
  BY <1>2, <1>8
<1> QED BY <1>7, <1>9, <1>10, <1>11, <1>12, <1>13, LineKept

\* What is dispatched for the first time follows what the pod dispatched
\* before, and is followed by what it has buffered.
LEMMA LineDispatched == ASSUME TypeOK, OrderInv, NEW p \in Pods, Dispatch(p) PROVE OrderInv'
<1>1. /\ UNCHANGED <<queue, worker, reclaimed, nextRead>>
      /\ stage[p] = "taken" /\ stage'[p] = "dispatching"
      /\ \A q \in Pods \ {p} : stage'[q] = stage[q]
  BY DEF TypeOK, Dispatch, redis
<1>2. worker[p] \in Messages /\ <<p, worker[p]>> \in Pods \X Messages
  BY <1>1, AreNumbers
<1>3. \A x, y : Follows(reclaimed, x, y) <=> Follows(reclaimed', x, y)
  BY <1>1 DEF Follows
<1> DEFINE n == Len(handled)
<1>4. n \in Nat /\ DOMAIN handled = 1..n /\ handled \in Seq(Pods \X Messages)
  BY AreNumbers DEF TypeOK
<1>5. CASE handled' = handled
  <2>1. LineInv'
    <3> SUFFICES ASSUME NEW q \in Pods
                 PROVE  /\ \A i, j \in DOMAIN queue[q] : i < j => Follows(reclaimed', queue[q][i], queue[q][j])
                        /\ stage'[q] = "taken" =>
                             \A j \in DOMAIN queue[q] : Follows(reclaimed', worker[q], queue[q][j])
                        /\ \A i \in DOMAIN handled : handled[i][1] = q =>
                             /\ \A j \in DOMAIN queue[q] : Follows(reclaimed', handled[i][2], queue[q][j])
                             /\ stage'[q] = "taken" => Follows(reclaimed', handled[i][2], worker[q])
      BY <1>1, <1>5 DEF LineInv
    <3>1. stage'[q] = "taken" => stage[q] = "taken"
      BY <1>1
    <3> QED BY <1>3, <3>1 DEF OrderInv, LineInv
  <2>2. DeliveredInv'
    <3>1. \A q \in Pods : stage'[q] # "none" => stage[q] # "none"
      BY <1>1
    <3> QED BY <1>1, <1>5, <3>1 DEF OrderInv, DeliveredInv
  <2>3. InOrderUnlessReclaimed'
    BY <1>1, <1>5 DEF OrderInv, InOrderUnlessReclaimed
  <2> QED BY <2>1, <2>2, <2>3 DEF OrderInv
<1>6. CASE handled' = Append(handled, <<p, worker[p]>>)
  <2>1. /\ DOMAIN handled' = 1..(n + 1)
        /\ handled'[n + 1] = <<p, worker[p]>>
        /\ handled'[n + 1][1] = p /\ handled'[n + 1][2] = worker[p]
        /\ \A i \in 1..n : handled'[i] = handled[i]
    BY <1>2, <1>4, <1>6
  <2> HIDE DEF n
  <2>2. LineInv'
    <3> SUFFICES ASSUME NEW q \in Pods
                 PROVE  /\ \A i, j \in DOMAIN queue[q] : i < j => Follows(reclaimed', queue[q][i], queue[q][j])
                        /\ stage'[q] = "taken" =>
                             \A j \in DOMAIN queue[q] : Follows(reclaimed', worker[q], queue[q][j])
                        /\ \A i \in 1..(n + 1) : handled'[i][1] = q =>
                             /\ \A j \in DOMAIN queue[q] : Follows(reclaimed', handled'[i][2], queue[q][j])
                             /\ stage'[q] = "taken" => Follows(reclaimed', handled'[i][2], worker[q])
      BY <1>1, <2>1 DEF LineInv
    <3>1. (stage'[q] = "taken" => stage[q] = "taken") /\ (q = p => stage'[q] # "taken")
      BY <1>1
    <3>2. /\ \A i, j \in DOMAIN queue[q] : i < j => Follows(reclaimed', queue[q][i], queue[q][j])
          /\ stage'[q] = "taken" => \A j \in DOMAIN queue[q] : Follows(reclaimed', worker[q], queue[q][j])
      BY <1>3, <3>1 DEF OrderInv, LineInv
    <3>3. ASSUME NEW i \in 1..(n + 1), handled'[i][1] = q
          PROVE  /\ \A j \in DOMAIN queue[q] : Follows(reclaimed', handled'[i][2], queue[q][j])
                 /\ stage'[q] = "taken" => Follows(reclaimed', handled'[i][2], worker[q])
      <4>1. CASE i \in 1..n
        BY <1>3, <1>4, <2>1, <3>1, <3>3, <4>1 DEF OrderInv, LineInv
      <4>2. CASE i = n + 1
        <5>1. q = p /\ handled'[i][2] = worker[p]
          BY <2>1, <3>3, <4>2
        <5>2. \A j \in DOMAIN queue[p] : Follows(reclaimed, worker[p], queue[p][j])
          BY <1>1 DEF OrderInv, LineInv
        <5> QED BY <1>3, <3>1, <5>1, <5>2
      <4> QED BY <1>4, <4>1, <4>2
    <3> QED BY <3>2, <3>3
  <2>3. DeliveredInv'
    <3>1. \A q \in Pods : stage'[q] # "none" => stage[q] # "none"
      BY <1>1
    <3>2. worker[p] < nextRead
      BY <1>1 DEF OrderInv, DeliveredInv
    <3>3. \A i \in 1..(n + 1) : handled'[i][2] < nextRead
      BY <1>4, <2>1, <3>2 DEF OrderInv, DeliveredInv
    <3> QED BY <1>1, <2>1, <3>1, <3>3 DEF OrderInv, DeliveredInv
  <2>4. ASSUME NEW i \in 1..(n + 1), NEW j \in 1..(n + 1), i < j,
               handled'[i][1] = handled'[j][1], handled'[i][2] > handled'[j][2]
        PROVE  handled'[j][2] \in reclaimed
    <3>1. i \in 1..n
      BY <1>4, <2>4
    <3>2. CASE j \in 1..n
      BY <1>4, <2>1, <2>4, <3>1, <3>2 DEF OrderInv, InOrderUnlessReclaimed
    <3>3. CASE j = n + 1
      <4>1. handled[i][1] = p /\ handled[i][2] > worker[p] /\ handled'[j][2] = worker[p]
        BY <2>1, <2>4, <3>1, <3>3
      <4>2. Follows(reclaimed, handled[i][2], worker[p])
        BY <1>1, <1>4, <3>1, <4>1 DEF OrderInv, LineInv
      <4> QED BY <4>1, <4>2 DEF Follows
    <3> QED BY <1>4, <3>2, <3>3
  <2>5. InOrderUnlessReclaimed'
    BY <1>1, <2>1, <2>4 DEF InOrderUnlessReclaimed
  <2> QED BY <2>2, <2>3, <2>5 DEF OrderInv
<1> QED BY <1>5, <1>6 DEF Dispatch

\* A step that touches no line.
LEMMA NoLineMoves ==
  ASSUME OrderInv, UNCHANGED <<queue, stage, worker, handled, reclaimed, nextRead>>
  PROVE  OrderInv'
BY DEF OrderInv, LineInv, DeliveredInv, InOrderUnlessReclaimed, Follows

\* Only Read adds to the pending list.
LEMMA PendingStep == TypeOK /\ PendingInv /\ [Next]_vars => PendingInv'
<1> SUFFICES ASSUME TypeOK, PendingInv, [Next]_vars PROVE PendingInv'
  OBVIOUS
<1>1. /\ idle \in [Messages -> {None} \cup 0..Visibility] /\ nextRead \in Nat
      /\ Messages \subseteq Nat
  BY AreNumbers DEF TypeOK
<1>2. CASE UNCHANGED <<idle, nextRead>>
  BY <1>2 DEF PendingInv
<1>3. CASE Tick
  BY <1>1, <1>3 DEF Tick, Later, PendingInv
<1>4. ASSUME NEW m \in Messages, idle' = [idle EXCEPT ![m] = None], nextRead' = nextRead
      PROVE  PendingInv'
  BY <1>1, <1>4 DEF PendingInv
<1>5. ASSUME NEW p \in Pods, Pod(p) PROVE PendingInv'
  <2>1. CASE Read(p)
    BY <1>1, <2>1 DEF Read, PendingInv
  <2>2. ASSUME NEW m \in Messages, Reclaim(p, m) PROVE PendingInv'
    <3>1. idle[m] # None /\ idle' = [idle EXCEPT ![m] = 0] /\ nextRead' = nextRead
      BY <1>1, <2>2, CatcherAssumption DEF CatcherAssumption, Reclaim, None
    <3> QED BY <1>1, <3>1 DEF PendingInv
  <2>3. CASE SkipMalformed(p) \/ ResolveFails(p) \/ Ack(p)
    <3>1. worker[p] \in Messages
      BY <2>3, AreNumbers DEF SkipMalformed, ResolveFails, Ack
    <3>2. idle' = [idle EXCEPT ![worker[p]] = None] /\ nextRead' = nextRead
      BY <2>3 DEF SkipMalformed, ResolveFails, Ack, AckUndispatched, XAck
    <3> QED BY <1>4, <3>1, <3>2
  <2>4. CASE \/ Take(p) \/ Dispatch(p) \/ Return(p) \/ LeavePending(p)
             \/ \E o \in Outputs : Settle(p, o)
    BY <1>2, <2>4 DEF Take, Dispatch, Return, LeavePending, Settle, redis
  <2>5. CASE \/ Shutdown(p) \/ RunReturns(p) \/ Crash(p) \/ Restart(p)
             \/ \E o \in Outputs : Forget(p, o) \/ Roll(p, o)
    BY <1>2, <2>5 DEF Shutdown, RunReturns, Crash, Restart, Forget, Roll, redis
  <2> QED BY <1>5, PodCases, <2>1, <2>2, <2>3, <2>4, <2>5
<1> QED BY <1>2, <1>3, <1>5 DEF Next, Pitch, vars, redis

LEMMA OrderStep == TypeOK /\ OrderInv /\ PendingInv /\ [Next]_vars => OrderInv'
<1> SUFFICES ASSUME TypeOK, OrderInv, PendingInv, [Next]_vars PROVE OrderInv'
  OBVIOUS
<1>1. CASE UNCHANGED vars
  BY <1>1, NoLineMoves DEF vars, redis, call, world
<1>2. CASE Pitch \/ Tick
  BY <1>2, NoLineMoves DEF Pitch, Tick, call, world
<1>3. ASSUME NEW p \in Pods, Pod(p) PROVE OrderInv'
  <2>1. CASE Read(p)
    <3>1. /\ nextRead \in Nat /\ nextRead' = nextRead + 1 /\ nextRead <= pitched
          /\ Buffer(p, nextRead) /\ UNCHANGED <<stage, worker, handled, reclaimed>>
      BY <2>1, AreNumbers DEF Read, call, world
    <3>2. nextRead \in Messages
      BY <3>1, CatcherAssumption DEF CatcherAssumption, TypeOK
    <3> QED BY <3>1, <3>2, LineGrows
  <2>2. ASSUME NEW m \in Messages, Reclaim(p, m) PROVE OrderInv'
    <3>1. /\ Buffer(p, m) /\ UNCHANGED <<stage, worker, handled, nextRead>>
          /\ reclaimed' = reclaimed \cup {m}
      BY <2>2 DEF Reclaim, call
    <3>2. m < nextRead
      <4>1. idle[m] # None
        BY <2>2, CatcherAssumption DEF CatcherAssumption, Reclaim, None
      <4> QED BY <4>1 DEF PendingInv
    <3> QED BY <3>1, <3>2, LineGrows, AreNumbers
  <2>3. CASE Take(p)
    BY <2>3, LineTaken
  <2>4. CASE Dispatch(p)
    BY <2>4, LineDispatched
  <2>5. CASE SkipMalformed(p) \/ ResolveFails(p) \/ Ack(p) \/ LeavePending(p)
    <3>1. Release(p) /\ UNCHANGED <<queue, handled, reclaimed, nextRead>>
      BY <2>5 DEF SkipMalformed, ResolveFails, Ack, LeavePending, AckUndispatched, redis, world
    <3>2. /\ stage'[p] = "none"
          /\ \A q \in Pods \ {p} : stage'[q] = stage[q] /\ worker'[q] = worker[q]
      BY <3>1 DEF Release, TypeOK
    <3> QED BY <3>1, <3>2, LineShrinks
  <2>6. CASE Return(p)
    <3>1. /\ stage[p] = "dispatching" /\ stage'[p] = "returned"
          /\ \A q \in Pods \ {p} : stage'[q] = stage[q]
          /\ UNCHANGED <<queue, worker, handled, reclaimed, nextRead>>
      BY <2>6 DEF Return, TypeOK, redis, world
    <3> QED BY <3>1, LineShrinks
  <2>7. CASE Shutdown(p) \/ \E o \in Outputs : Settle(p, o) \/ Forget(p, o) \/ Roll(p, o)
    BY <2>7, NoLineMoves DEF Shutdown, Settle, Forget, Roll, redis, call, world
  <2>8. CASE RunReturns(p)
    <3>1. /\ queue'[p] = << >> /\ \A q \in Pods \ {p} : queue'[q] = queue[q]
          /\ UNCHANGED <<stage, worker, handled, reclaimed, nextRead>>
      BY <2>8 DEF RunReturns, TypeOK, redis, call, world
    <3> QED BY <3>1, LineShrinks
  <2>9. CASE Crash(p) \/ Restart(p)
    <3>1. Gone(p) /\ UNCHANGED <<handled, reclaimed, nextRead>>
      BY <2>9 DEF Crash, Restart, Up, redis, world
    <3>2. /\ queue'[p] = << >> /\ stage'[p] = "none"
          /\ \A q \in Pods \ {p} : queue'[q] = queue[q] /\ stage'[q] = stage[q] /\ worker'[q] = worker[q]
      BY <3>1 DEF Gone, TypeOK
    <3> QED BY <3>1, <3>2, LineShrinks
  <2> QED BY <1>3, PodCases, <2>1, <2>2, <2>3, <2>4, <2>5, <2>6, <2>7, <2>8, <2>9
<1> QED BY <1>1, <1>2, <1>3 DEF Next

\* A pod dispatches its entries in stream order, those it claimed again
\* apart, whatever is lost, claimed, restarted or stopped in between.
THEOREM StreamOrderHolds == Spec => []InOrderUnlessReclaimed
<1>1. Init => TypeOK /\ OrderInv /\ PendingInv
  <2> SUFFICES ASSUME Init PROVE OrderInv /\ PendingInv
    BY TypeInit
  <2>1. /\ handled = << >> /\ DOMAIN handled = {}
        /\ \A p \in Pods : DOMAIN queue[p] = {} /\ stage[p] = "none"
    BY DEF Init
  <2>2. OrderInv
    BY <2>1 DEF OrderInv, LineInv, DeliveredInv, InOrderUnlessReclaimed
  <2>3. PendingInv
    BY DEF Init, PendingInv
  <2> QED BY <2>2, <2>3
<1>2. TypeOK /\ OrderInv /\ PendingInv /\ [Next]_vars => (TypeOK /\ OrderInv /\ PendingInv)'
  BY TypeStep, OrderStep, PendingStep
<1>3. OrderInv => InOrderUnlessReclaimed
  BY DEF OrderInv
<1> QED BY <1>1, <1>2, <1>3, PTL DEF Spec
=============================================================================
