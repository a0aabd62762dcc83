------------------------------ MODULE Catcher ------------------------------
(***************************************************************************)
(* The catcher pods on one Redis stream: internal/catcher/catcher.go with  *)
(* the handlers of runServer (main.go), over the consumer group of         *)
(* redisqueue, which the pods share (kcl/deploy.k: replicas, and one more  *)
(* pod while a new version rolls out).  The entries a pod reads from the   *)
(* group wait in its buffer for its one worker; an entry not acked stays   *)
(* in the group's pending list and is claimed again, by any pod, once it   *)
(* has been idle for the visibility timeout.                               *)
(*                                                                         *)
(* A dispatch is the contract of Fanout.tla, which Dispatch.tla            *)
(* implements; Budget there is the time a dispatch may take here.          *)
(***************************************************************************)
EXTENDS Integers, Sequences, FiniteSets, SequencesExt

CONSTANTS Pods,            \* the pods that may run at the same time
          Outputs,         \* the outputs of the config
          Throttled,       \* those with a throttle
          MaxPosts,        \* their ThrottlePolicy.Max, 0: no cap
          ParkMayFail,     \* those whose dead-letter write may fail
          Messages,        \* 1..n: the stream's entries, in stream order
          Malformed,       \* entries without a messageID string
          Routes,          \* the outputs each message matches
          KeyOf,           \* the throttle key of each message
          BufferSize,      \* ConsumerOptions.BufferSize
          Visibility,      \* visibility timeout of redisqueue
          DispatchBudget,  \* DispatchTimeout + ParkTimeout of Dispatch.tla
          MaxFaults        \* bound: crashes, stops and failed Redis calls

ASSUME CatcherAssumption ==
  /\ Len(KeyOf) \in Nat /\ Messages = 1..Len(KeyOf)
  /\ Throttled \subseteq Outputs /\ ParkMayFail \subseteq Outputs
  /\ MaxPosts \in [Throttled -> Nat]
  /\ Malformed \subseteq Messages
  /\ Routes \in [Messages -> SUBSET Outputs]
  /\ BufferSize \in Nat \ {0}
  /\ Visibility \in Nat /\ DispatchBudget \in Nat
  /\ DispatchBudget < Visibility
  /\ MaxFaults \in Nat

VARIABLES
  \* Redis
  pitched,   \* entries in the stream
  nextRead,  \* the first entry the group has not delivered
  idle,      \* pending list: how long ago an entry was delivered, None if not in it
  acked,     \* entries acked
  \* by pod
  phase,     \* "up", "stopping" after SIGTERM, "down"
  client,    \* the payload client is open
  queue,     \* the consumer's buffer
  worker,    \* the entry being handled, 0 if none
  stage,     \* how far handleMessage is with it
  spent,     \* time in that dispatch
  seen,      \* throttle: keys sent less than a window ago, per output
  counted,   \* throttle: the messages throttle.posts counts in the open window
  outcome, ok,  \* the Dispatch call (Fanout)
  \* the world and history
  out,       \* <<m, o>>: o's endpoint took m, or m is in the dead letter for o
  handled,   \* entries in the order they were first dispatched
  reclaimed, \* entries that were claimed at least once
  dropped,   \* entries acked because resolveMessage failed
  aboveMax,  \* the messages held back because a window was full, with the posts in it
  faults

redis   == <<pitched, nextRead, idle, acked>>
process == <<phase, client>>
call    == <<worker, stage, spent, outcome, ok>>
throttle == <<seen, counted>>
world   == <<out, handled, reclaimed, dropped, aboveMax>>
vars    == <<redis, process, queue, call, throttle, world, faults>>

None == -1

Keys == {KeyOf[m] : m \in Messages}

F(p) == INSTANCE Fanout WITH DeadLetterOn <- TRUE, acked <- ok[p], outcome <- outcome[p],
                             calling <- (stage[p] = "dispatching")

NoOutcome == [o \in Outputs |-> "none"]
Nothing == [o \in Outputs |-> {}]

\* A pod that is not there has nothing buffered and no throttle state.
Gone(p) ==
  /\ queue' = [queue EXCEPT ![p] = << >>] /\ worker' = [worker EXCEPT ![p] = 0]
  /\ stage' = [stage EXCEPT ![p] = "none"] /\ spent' = [spent EXCEPT ![p] = 0]
  /\ seen' = [seen EXCEPT ![p] = Nothing] /\ counted' = [counted EXCEPT ![p] = Nothing]
  /\ outcome' = [outcome EXCEPT ![p] = NoOutcome] /\ ok' = [ok EXCEPT ![p] = TRUE]

\* The group exists: the first start created it at "$", the end of the stream.
Init == /\ pitched = 0 /\ nextRead = 1
        /\ idle = [m \in Messages |-> None] /\ acked = {}
        /\ phase = [p \in Pods |-> "down"] /\ client = [p \in Pods |-> FALSE]
        /\ queue = [p \in Pods |-> << >>] /\ worker = [p \in Pods |-> 0]
        /\ stage = [p \in Pods |-> "none"] /\ spent = [p \in Pods |-> 0]
        /\ seen = [p \in Pods |-> Nothing] /\ counted = [p \in Pods |-> Nothing]
        /\ outcome = [p \in Pods |-> NoOutcome] /\ ok = [p \in Pods |-> TRUE]
        /\ out = {} /\ handled = << >> /\ reclaimed = {} /\ dropped = {}
        /\ aboveMax = {}
        /\ faults = 0

Fault == faults < MaxFaults /\ faults' = faults + 1
-----------------------------------------------------------------------------
(* The stream and the consumer group *)

\* A pitcher writes the JSON document and appends the entry.
Pitch ==
  /\ pitched + 1 \in Messages
  /\ pitched' = pitched + 1
  /\ UNCHANGED <<nextRead, idle, acked, process, queue, call, throttle, world, faults>>

Running(p) == phase[p] \in {"up", "stopping"}

\* Bug: one entry more than the buffer holds.
RoomForOneMore(p) == Len(queue[p]) <= BufferSize
Room(p) == Len(queue[p]) < BufferSize

Buffer(p, m) == queue' = [queue EXCEPT ![p] = Append(@, m)]

\* XREADGROUP > into the buffer.  A blocking read may return after SIGTERM.
Read(p) ==
  /\ Running(p) /\ nextRead <= pitched /\ Room(p)
  /\ Buffer(p, nextRead)
  /\ idle' = [idle EXCEPT ![nextRead] = 0]
  /\ nextRead' = nextRead + 1
  /\ UNCHANGED <<pitched, acked, process, call, throttle, world, faults>>

\* The reclaim loop claims an entry by its idle time alone, wherever its
\* earlier delivery is.
Reclaim(p, m) ==
  /\ Running(p) /\ idle[m] >= Visibility /\ Room(p)
  /\ Buffer(p, m)
  /\ idle' = [idle EXCEPT ![m] = 0]
  /\ reclaimed' = reclaimed \cup {m}
  /\ UNCHANGED <<pitched, nextRead, acked, process, call, throttle, out, handled, dropped,
                 aboveMax, faults>>

\* XACK: out of the pending list.
XAck(m) == /\ acked' = acked \cup {m}
           /\ idle' = [idle EXCEPT ![m] = None]

\* The worker is free again; the results of the dispatch are gone.
Release(p) ==
  /\ worker' = [worker EXCEPT ![p] = 0] /\ stage' = [stage EXCEPT ![p] = "none"]
  /\ spent' = [spent EXCEPT ![p] = 0]
  /\ outcome' = [outcome EXCEPT ![p] = NoOutcome] /\ ok' = [ok EXCEPT ![p] = TRUE]

\* The handler returned nil without a dispatch.
AckUndispatched(p) ==
  /\ XAck(worker[p]) /\ Release(p)
  /\ UNCHANGED <<pitched, nextRead, process, queue, throttle, out, handled, reclaimed,
                 aboveMax>>
-----------------------------------------------------------------------------
(* The worker: handleMessage and the dispatch handler *)

\* Bug: the newest entry first.
TakeLast(p) ==
  /\ Running(p) /\ stage[p] = "none" /\ queue[p] # << >>
  /\ worker' = [worker EXCEPT ![p] = Last(queue[p])]
  /\ queue' = [queue EXCEPT ![p] = Front(@)]
  /\ stage' = [stage EXCEPT ![p] = "taken"]
  /\ UNCHANGED <<redis, process, spent, outcome, ok, throttle, world, faults>>

Take(p) ==
  /\ Running(p) /\ stage[p] = "none" /\ queue[p] # << >>
  /\ worker' = [worker EXCEPT ![p] = Head(queue[p])]
  /\ queue' = [queue EXCEPT ![p] = Tail(@)]
  /\ stage' = [stage EXCEPT ![p] = "taken"]
  /\ UNCHANGED <<redis, process, spent, outcome, ok, throttle, world, faults>>

\* No messageID, or not a string: a warning and nil.
SkipMalformed(p) ==
  /\ stage[p] = "taken" /\ worker[p] \in Malformed
  /\ AckUndispatched(p)
  /\ UNCHANGED <<dropped, faults>>

\* resolveMessage failed: a warning and nil as well.
ResolveFails(p) ==
  /\ stage[p] = "taken" /\ worker[p] \notin Malformed
  /\ Fault
  /\ AckUndispatched(p)
  /\ dropped' = dropped \cup {worker[p]}

\* throttle.admit of a firing message: its key was sent less than a window ago ...
Repeat(p, o) == o \in Throttled /\ KeyOf[worker[p]] \in seen[p][o]

\* Bug: the last post of a window is held back.
FullEarly(p, o) ==
  o \in Throttled /\ MaxPosts[o] > 0 /\ Cardinality(counted[p][o]) + 1 >= MaxPosts[o]

\* ... or the open window has its max posts.
Full(p, o) == o \in Throttled /\ MaxPosts[o] > 0 /\ Cardinality(counted[p][o]) >= MaxPosts[o]

Decision(p, o) ==
  IF o \notin Routes[worker[p]] THEN "filtered"
  ELSE IF Repeat(p, o) \/ Full(p, o) THEN "throttled" ELSE "pending"

\* The throttles that admit the message count it, and note its key as sent.
Admitting(p) == {o \in Throttled : Decision(p, o) = "pending"}

\* Those that hold it back because max is reached.
AboveMax(p) == {o \in Throttled \cap Routes[worker[p]] : ~Repeat(p, o) /\ Full(p, o)}

\* Resolved: Dispatch routes the message and the throttles decide, before any
\* send.
Dispatch(p) ==
  /\ stage[p] = "taken" /\ worker[p] \notin Malformed
  /\ stage' = [stage EXCEPT ![p] = "dispatching"]
  /\ outcome' = [outcome EXCEPT ![p] = [o \in Outputs |-> Decision(p, o)]]
  /\ UNCHANGED ok /\ F(p)!Call
  /\ seen' = [seen EXCEPT ![p] = [o \in Outputs |->
                IF o \in Admitting(p) THEN @[o] \cup {KeyOf[worker[p]]} ELSE @[o]]]
  /\ counted' = [counted EXCEPT ![p] = [o \in Outputs |->
                   IF o \in Admitting(p) THEN @[o] \cup {worker[p]} ELSE @[o]]]
  /\ aboveMax' = aboveMax \cup
       {[msg |-> worker[p], output |-> o, posts |-> counted[p][o]] : o \in AboveMax(p)}
  /\ handled' = IF \E i \in DOMAIN handled : handled[i][2] = worker[p] THEN handled
                ELSE Append(handled, <<p, worker[p]>>)
  /\ UNCHANGED <<redis, process, queue, worker, spent, out, reclaimed, dropped, faults>>

\* One output is done: sent, parked, or neither.
Settle(p, o) ==
  /\ stage[p] = "dispatching"
  /\ \E fate \in {"sent", "parked", "unparked"} :
       /\ outcome' = [outcome EXCEPT ![p][o] = fate]
       /\ out' = IF fate = "unparked" THEN out ELSE out \cup {<<worker[p], o>>}
       /\ IF fate = "unparked" THEN o \in ParkMayFail /\ Fault ELSE UNCHANGED faults
  /\ UNCHANGED <<stage, ok>> /\ F(p)!Settle(o)
  /\ UNCHANGED <<redis, process, queue, worker, spent, throttle, handled, reclaimed, dropped,
                 aboveMax>>

\* Dispatch returned; the handler's error is notify.Undelivered.
Return(p) ==
  /\ stage[p] = "dispatching"
  /\ stage' = [stage EXCEPT ![p] = "returned"]
  /\ ok' = [ok EXCEPT ![p] = ~F(p)!Undelivered(outcome[p])]
  /\ UNCHANGED outcome /\ F(p)!Return
  /\ UNCHANGED <<redis, process, queue, worker, spent, throttle, world, faults>>

\* Bug: the handler's error is only logged.
AnyError(p) == TRUE
NoError(p) == ok[p]

Ack(p) ==
  /\ stage[p] = "returned" /\ NoError(p)
  /\ XAck(worker[p]) /\ Release(p)
  /\ UNCHANGED <<pitched, nextRead, process, queue, throttle, world, faults>>

\* An error of the handler leaves the entry pending; so does a lost XACK.
LeavePending(p) ==
  /\ stage[p] = "returned"
  /\ IF NoError(p) THEN Fault ELSE UNCHANGED faults
  /\ Release(p)
  /\ UNCHANGED <<redis, process, queue, throttle, world>>
-----------------------------------------------------------------------------
(* Shutdown, crash, restart *)

\* SIGTERM: Dispatcher.Stop and RedisCatcher.Shutdown.
Shutdown(p) ==
  /\ phase[p] = "up" /\ Fault
  /\ phase' = [phase EXCEPT ![p] = "stopping"]
  /\ UNCHANGED <<redis, client, queue, call, throttle, world>>

\* Bug: consumer.Run does not wait for the message in flight.
WorkerMayExit(p) == TRUE
WorkerIdle(p) == stage[p] = "none"

Down(p) == /\ phase' = [phase EXCEPT ![p] = "down"]
           /\ client' = [client EXCEPT ![p] = FALSE]

\* consumer.Run returned, then the payload client is closed.  Buffered
\* entries are not handled any more; they stay in the pending list.
RunReturns(p) ==
  /\ phase[p] = "stopping" /\ WorkerIdle(p)
  /\ Down(p)
  /\ queue' = [queue EXCEPT ![p] = << >>]
  /\ UNCHANGED <<redis, call, throttle, world, faults>>

Crash(p) ==
  /\ Running(p) /\ Fault
  /\ Down(p) /\ Gone(p)
  /\ UNCHANGED <<redis, world>>

Up(p) == /\ phase[p] = "down" /\ stage[p] = "none"
         /\ phase' = [phase EXCEPT ![p] = "up"]
         /\ client' = [client EXCEPT ![p] = TRUE]
         /\ Gone(p)

\* Bug: the group starts again at the start ID "$".
RestartAtEnd(p) ==
  /\ Up(p) /\ nextRead' = pitched + 1
  /\ UNCHANGED <<pitched, idle, acked, world, faults>>

\* The group exists and keeps its position.
Restart(p) == Up(p) /\ UNCHANGED <<redis, world, faults>>

\* A throttle key is older than the window.  A post the open window counts is
\* younger than it.
Forget(p, o) ==
  /\ stage[p] = "none" /\ Running(p)
  /\ \E k \in seen[p][o] \ {KeyOf[m] : m \in counted[p][o]} :
       seen' = [seen EXCEPT ![p][o] = @ \ {k}]
  /\ UNCHANGED <<redis, process, queue, call, counted, world, faults>>

\* throttle.roll: the window is over.  Keys sent late in it still hold.
Roll(p, o) ==
  /\ stage[p] = "none" /\ Running(p)
  /\ counted[p][o] # {}
  /\ counted' = [counted EXCEPT ![p][o] = {}]
  /\ UNCHANGED <<redis, process, queue, call, seen, world, faults>>

Later(t) == IF t = None \/ t = Visibility THEN t ELSE t + 1

\* Nothing to do now: a worker is not idle while an entry is buffered, and
\* what it does outside a dispatch takes no time.  A dispatch ends within its
\* budget (Dispatch.tla).
Waits(p) ==
  \/ stage[p] = "none" /\ (Running(p) => queue[p] = << >>)
  \/ /\ stage[p] = "dispatching" /\ spent[p] < DispatchBudget
     /\ \E o \in Outputs : outcome[p][o] = "pending"

\* Idle times count up to the visibility timeout.
Tick ==
  /\ \A p \in Pods : Waits(p)
  /\ idle' = [m \in Messages |-> Later(idle[m])]
  /\ spent' = [p \in Pods |-> IF stage[p] = "none" THEN 0 ELSE spent[p] + 1]
  /\ UNCHANGED <<pitched, nextRead, acked, process, queue, worker, stage, outcome, ok, throttle, world,
                 faults>>

Handle(p) ==
  \/ Take(p) \/ SkipMalformed(p) \/ ResolveFails(p) \/ Dispatch(p) \/ Return(p) \/ Ack(p)
  \/ LeavePending(p)
  \/ \E o \in Outputs : Settle(p, o)

Pod(p) ==
  \/ Read(p) \/ Handle(p) \/ Shutdown(p) \/ RunReturns(p) \/ Crash(p) \/ Restart(p)
  \/ \E m \in Messages : Reclaim(p, m)
  \/ \E o \in Outputs : Forget(p, o) \/ Roll(p, o)

Next == Pitch \/ Tick \/ \E p \in Pods : Pod(p)

Spec == Init /\ [][Next]_vars

\* The consumers poll, the workers work, a pod that is down is started again,
\* time passes.  Faults are finitely many (MaxFaults).
Fairness ==
  /\ WF_vars(Tick)
  /\ \A p \in Pods :
       /\ WF_vars(Read(p)) /\ WF_vars(Handle(p)) /\ WF_vars(RunReturns(p)) /\ WF_vars(Restart(p))
       /\ \A m \in Messages : WF_vars(Reclaim(p, m))

FairSpec == Spec /\ Fairness
-----------------------------------------------------------------------------
(* Properties *)

Outcomes == {"none", "filtered", "throttled", "pending", "sent", "parked", "unparked"}

\* Every variable has its type; the buffers and the dispatches keep their
\* bounds.
TypeOK ==
  /\ pitched \in 0..Len(KeyOf) /\ nextRead \in 1..(pitched + 1)
  /\ idle \in [Messages -> {None} \cup 0..Visibility]
  /\ acked \in SUBSET Messages
  /\ phase \in [Pods -> {"up", "stopping", "down"}] /\ client \in [Pods -> BOOLEAN]
  /\ queue \in [Pods -> Seq(Messages)]
  /\ \A p \in Pods : Len(queue[p]) <= BufferSize
  /\ worker \in [Pods -> Messages \cup {0}]
  /\ stage \in [Pods -> {"none", "taken", "dispatching", "returned"}]
  /\ \A p \in Pods : stage[p] # "none" => worker[p] \in Messages
  /\ spent \in [Pods -> 0..DispatchBudget]
  /\ outcome \in [Pods -> [Outputs -> Outcomes]] /\ ok \in [Pods -> BOOLEAN]
  /\ seen \in [Pods -> [Outputs -> SUBSET Keys]]
  /\ counted \in [Pods -> [Outputs -> SUBSET Messages]]
  /\ out \in SUBSET (Messages \X Outputs)
  /\ handled \in Seq(Pods \X Messages)
  /\ reclaimed \in SUBSET Messages /\ dropped \in SUBSET Messages
  /\ aboveMax \in SUBSET [msg : Messages, output : Throttled, posts : SUBSET Messages]
  /\ faults \in 0..MaxFaults

\* o is throttled and has, or has parked, another message of m's key: m was held
\* back as its repeat.
RepeatsOut(m, o) ==
  o \in Throttled /\ \E n \in Messages : KeyOf[n] = KeyOf[m] /\ <<n, o>> \in out

\* m was held back because o was at its max: max other messages used up the
\* window, and o has every one of them or its dead letter does.
HeldAboveMax(m, o) ==
  \E h \in aboveMax : /\ h.msg = m /\ h.output = o
                     /\ MaxPosts[o] > 0 /\ Cardinality(h.posts) >= MaxPosts[o]
                     /\ m \notin h.posts /\ \A n \in h.posts : <<n, o>> \in out

\* o has m, its dead letter does, or the throttle held m back for messages that
\* are out.
Kept(m, o) == <<m, o>> \in out \/ RepeatsOut(m, o) \/ HeldAboveMax(m, o)

\* An entry is acked only when every matching output delivered or parked the
\* message (docs/configuration.md), or when its throttle held it back as a repeat
\* or above max and what it was held back for is itself out: through crashes,
\* lost acks, stops, redeliveries and entries that two pods handle.  Messages
\* whose payload could not be read are left out.
AckedIsKept ==
  \A m \in acked \ (Malformed \cup dropped) : \A o \in Routes[m] : Kept(m, o)

\* The one worker of a pod dispatches entries in stream order, except for an
\* entry that was claimed again after the visibility timeout.  (Two pods do
\* not wait for each other.)
InOrderUnlessReclaimed ==
  \A i, j \in DOMAIN handled :
    i < j /\ handled[i][1] = handled[j][1] /\ handled[i][2] > handled[j][2] =>
      handled[j][2] \in reclaimed

\* The payload client, which JSON.GET and the dead letter use, is open as
\* long as a message is being handled, shutdown included (Run, Shutdown).
ClientOpenWhileHandling ==
  \A p \in Pods : stage[p] \in {"taken", "dispatching"} => client[p]

\* Every entry is settled, also one pitched while no pod was up, left unacked
\* by a failure or buffered by a pod that is gone.
EventuallyAcked == \A m \in Messages : m <= pitched ~> m \in acked
=============================================================================
