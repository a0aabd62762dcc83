-------------------------------- MODULE Events ------------------------------
(***************************************************************************)
(* The event log and the counters behind the catcher's web page and        *)
(* /metrics (server/events.go).  record, list and writeMetrics run under   *)
(* one mutex: each is one step, or one look at a state.                    *)
(*                                                                         *)
(* An event is what every output did with a message; title, author and the *)
(* rest of it are data.  Service.tla is the process that records them.     *)
(***************************************************************************)
EXTENDS Integers, Sequences, FiniteSetsExt, SequencesExt

CONSTANTS Outputs,
          Results,    \* what an output does: [result, attempts, deadLettered]
          Queries,    \* [result, limit]: "" is any result, 0 no limit
          Capacity,   \* DefaultEventsCapacity
          Records     \* bound: messages dispatched

resultNames == {"sent", "failed", "filtered", "dry-run", "throttled"}

ASSUME EventsAssumption ==
  /\ IsFiniteSet(Outputs) /\ Capacity \in Nat \ {0} /\ Records \in Nat
  /\ Results \subseteq [result : resultNames, attempts : Nat, deadLettered : BOOLEAN]
  /\ Queries \subseteq [result : resultNames \cup {"", "unrouted"}, limit : Nat]
  \* deliver parks a failed send only, and sends at least once
  /\ \A r \in Results : /\ r.deadLettered => r.result = "failed"
                        /\ r.attempts > 0 <=> r.result \in {"sent", "failed"}

VARIABLES buf, next, full,   \* the ring, its next slot and whether it is full
          counts,            \* by output and result
          retries, parked,   \* by output
          messages,          \* by routed
          log                \* history: every dispatch, oldest first

events == <<buf, next, full, counts, retries, parked, messages, log>>

NoEvent == << >>
series  == Outputs \X resultNames

\* Every series is there from the start.
newEvents ==
  /\ buf = [i \in 0..Capacity-1 |-> NoEvent] /\ next = 0 /\ full = FALSE
  /\ counts = [s \in series |-> 0]
  /\ retries = [o \in Outputs |-> 0] /\ parked = [o \in Outputs |-> 0]
  /\ messages = [b \in BOOLEAN |-> 0]
  /\ log = << >>
-----------------------------------------------------------------------------
Routed(ev) == \E o \in Outputs : ev[o].result # "filtered"

FullAtSeam(n) == n = 0          \* bug: forgotten with the next event
FullAfter(n)  == full \/ n = 0

Sends(r)   == r.attempts        \* bug: the first send counts as well
Retries(r) == IF r.attempts > 1 THEN r.attempts - 1 ELSE 0

record(ev) ==
  LET n == (next + 1) % Capacity
  IN /\ Len(log) < Records
     /\ log' = Append(log, ev)
     /\ buf' = [buf EXCEPT ![next] = ev]
     /\ next' = n /\ full' = FullAfter(n)
     /\ counts' = [s \in series |-> counts[s] + IF ev[s[1]].result = s[2] THEN 1 ELSE 0]
     /\ retries' = [o \in Outputs |-> retries[o] + Retries(ev[o])]
     /\ parked' = [o \in Outputs |-> parked[o] + IF ev[o].deadLettered THEN 1 ELSE 0]
     /\ messages' = [messages EXCEPT ![Routed(ev)] = @ + 1]

-----------------------------------------------------------------------------
\* has
Wanted(result, ev) ==
  \/ result = ""
  \/ result = "unrouted" /\ ~Routed(ev)
  \/ \E o \in Outputs : ev[o].result = result

First(s, limit) == IF limit > 0 /\ Len(s) > limit THEN SubSeq(s, 1, limit) ELSE s

\* The loop of list goes backwards from the slot before next.
SlotForward(i) == (IF full THEN next + i - 1 ELSE i - 1) % Capacity   \* bug: oldest first
Slot(i)        == (next - i + Capacity) % Capacity
list(q) ==
  LET n == IF full THEN Capacity ELSE next
  IN First(SelectSeq([i \in 1..n |-> buf[Slot(i)]], LAMBDA ev : Wanted(q.result, ev)), q.limit)
-----------------------------------------------------------------------------
(* Properties *)

\* Every variable has its type, and full is set at the first wrap for good.
EventsOK ==
  /\ log \in Seq([Outputs -> Results]) /\ Len(log) <= Records
  /\ buf \in [0..Capacity-1 -> [Outputs -> Results] \cup {NoEvent}]
  /\ next = Len(log) % Capacity
  /\ full \in BOOLEAN /\ (full <=> Len(log) >= Capacity)
  /\ counts \in [series -> Nat] /\ messages \in [BOOLEAN -> Nat]
  /\ retries \in [Outputs -> Nat] /\ parked \in [Outputs -> Nat]

Kept == LET n == Len(log) IN IF n > Capacity THEN SubSeq(log, n - Capacity + 1, n) ELSE log

\* A reader gets the newest events kept, newest first, whatever slot the ring
\* has come to, and a limit cuts off older ones only.
ListIsNewest ==
  \A q \in Queries :
    list(q) = First(SelectSeq(Reverse(Kept), LAMBDA ev : Wanted(q.result, ev)), q.limit)

\* The counters agree with each other and with all that was dispatched, also
\* what the ring has dropped: every message is counted once per output and
\* once as routed or not, and the sends of an output are its messages and its
\* retries.
CountersAddUp ==
  /\ messages[TRUE] + messages[FALSE] = Len(log)
  /\ \A o \in Outputs :
       LET n(r) == counts[<<o, r>>]
           attempts == FoldLeft(LAMBDA sum, ev : sum + ev[o].attempts, 0, log)
       IN /\ MapThenSumSet(n, resultNames) = Len(log)
          /\ n("sent") + n("failed") + retries[o] = attempts
          /\ parked[o] <= n("failed")
          /\ messages[FALSE] <= n("filtered")
=============================================================================
