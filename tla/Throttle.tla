------------------------------ MODULE Throttle ------------------------------
(***************************************************************************)
(* The throttle of one output (internal/notify/throttle.go): admit decides *)
(* for each message that matched the output whether it is sent, roll       *)
(* closes a window that is over, and due hands the summaries of windows    *)
(* that reached max to FlushThrottle.  The worker calls admit, the         *)
(* RunThrottle goroutine calls due.  Both run under the mutex, but each    *)
(* caller reads the clock before it takes it: reading is a step of its     *)
(* own, and the flusher may roll with a later time in between.             *)
(*                                                                         *)
(* arrivals, rolled, flushed and the field first are history: what admit   *)
(* decided and when, which calls of due closed a window, and what due      *)
(* returned.  The properties compare the incremental window state with a   *)
(* definition over the whole history.                                      *)
(***************************************************************************)
EXTENDS Integers, Sequences, FiniteSets

CONSTANTS Keys,         \* values of the policy's key fields
          Window,       \* ThrottlePolicy.Window
          Max,          \* ThrottlePolicy.Max, 0: no cap
          MaxArrivals,  \* bound: messages
          LastArrival   \* bound: no message comes later

ASSUME ThrottleAssumption ==
  /\ Window \in Nat \ {0}
  /\ Max \in Nat
  /\ MaxArrivals \in Nat /\ LastArrival \in Nat

VARIABLES now,       \* Dispatcher.clock
          workerAt,  \* the time Dispatch hands to admit, None: not read
          flusherAt, \* the time FlushThrottle hands to due, None: not read
          sent,      \* throttle.sent: key -> last sent
          win,       \* start, posts, held, capped and heldKeys; first: history,
                     \* the arrival that opened the window
          pending,   \* throttle.pending
          arrivals,  \* history: the messages admit saw
          rolled,    \* history: the time with which due closed the window since the
                     \* last arrival, None: it did not
          flushed    \* history: the summaries due returned

vars == <<now, workerAt, flusherAt, sent, win, pending, arrivals, rolled, flushed>>

None == -1   \* no entry, the zero time

NoWindow == [start |-> None, first |-> 0, posts |-> 0, held |-> 0, capped |-> FALSE,
             heldKeys |-> [k \in Keys |-> 0]]

Init == /\ now = 0 /\ workerAt = None /\ flusherAt = None
        /\ sent = [k \in Keys |-> None]
        /\ win = NoWindow
        /\ pending = << >>
        /\ arrivals = << >> /\ rolled = None /\ flushed = << >>
-----------------------------------------------------------------------------
(* roll, at time t *)

Over(t) == win.start # None /\ t - win.start >= Window

Summary == [from |-> win.start, first |-> win.first, held |-> win.held, heldKeys |-> win.heldKeys]

RolledWin(t) == IF Over(t) THEN NoWindow ELSE win

\* Bug: a window in which only repeats were held back gets a summary too.
RolledPendingIfHeld(t) == IF Over(t) /\ win.held > 0 THEN Append(pending, Summary) ELSE pending
RolledPending(t) == IF Over(t) /\ win.capped THEN Append(pending, Summary) ELSE pending

\* Bug: every key is forgotten with the window.
RolledSentNone(t) == IF Over(t) THEN [k \in Keys |-> None] ELSE sent
RolledSent(t) ==
  IF Over(t) THEN [k \in Keys |-> IF sent[k] # None /\ t - sent[k] >= Window
                                    THEN None ELSE sent[k]]
             ELSE sent
-----------------------------------------------------------------------------
(* admit at the time the worker read, one action per way out *)

ReadForAdmit ==
  /\ workerAt = None
  /\ Len(arrivals) < MaxArrivals /\ now <= LastArrival
  /\ workerAt' = now
  /\ UNCHANGED <<now, flusherAt, sent, win, pending, arrivals, rolled, flushed>>

\* What every way out has in common.
Arrive(key, status, passed) ==
  /\ workerAt # None
  /\ workerAt' = None
  /\ pending' = RolledPending(workerAt)
  /\ arrivals' = Append(arrivals, [key |-> key, at |-> workerAt, status |-> status,
                                   sent |-> passed, rolled |-> rolled])
  /\ rolled' = None
  /\ UNCHANGED <<now, flusherAt, flushed>>

AdmitResolved(key) ==
  /\ Arrive(key, "resolved", TRUE)
  /\ win' = RolledWin(workerAt)
  /\ sent' = [RolledSent(workerAt) EXCEPT ![key] = None]

\* The window a firing message falls into; it opens one when none is open.
OpenWin ==
  LET w == RolledWin(workerAt)
  IN  IF w.start = None THEN [w EXCEPT !.start = workerAt, !.first = Len(arrivals) + 1] ELSE w

Repeat(key) ==
  LET last == RolledSent(workerAt)[key] IN last # None /\ workerAt - last < Window

\* Bug: the cap is one post too high.
FullAboveMax == Max > 0 /\ OpenWin.posts > Max
Full == Max > 0 /\ OpenWin.posts >= Max

Held(w, key) == [w EXCEPT !.held = @ + 1, !.heldKeys[key] = @ + 1]

HoldRepeat(key) ==
  /\ Arrive(key, "firing", FALSE) /\ Repeat(key)
  /\ win' = Held(OpenWin, key)
  /\ sent' = RolledSent(workerAt)

HoldFull(key) ==
  /\ Arrive(key, "firing", FALSE) /\ ~Repeat(key) /\ Full
  /\ win' = [Held(OpenWin, key) EXCEPT !.capped = TRUE]
  /\ sent' = RolledSent(workerAt)

Post(key) ==
  /\ Arrive(key, "firing", TRUE) /\ ~Repeat(key) /\ ~Full
  /\ win' = [OpenWin EXCEPT !.posts = @ + 1]
  /\ sent' = [RolledSent(workerAt) EXCEPT ![key] = workerAt]
-----------------------------------------------------------------------------
(* due at the time the flusher read *)

ReadForDue ==
  /\ flusherAt = None
  /\ flusherAt' = now
  /\ UNCHANGED <<now, workerAt, sent, win, pending, arrivals, rolled, flushed>>

\* A call with nothing to close and nothing pending changes nothing.
Due ==
  /\ flusherAt # None
  /\ flusherAt' = None
  /\ flushed' = flushed \o RolledPending(flusherAt)
  /\ pending' = << >>
  /\ win' = RolledWin(flusherAt)
  /\ sent' = RolledSent(flusherAt)
  /\ rolled' = IF Over(flusherAt) THEN flusherAt ELSE rolled
  /\ UNCHANGED <<now, workerAt, arrivals>>

\* Time stops a window after the last message.
Tick ==
  /\ now < LastArrival + Window
  /\ now' = now + 1
  /\ UNCHANGED <<workerAt, flusherAt, sent, win, pending, arrivals, rolled, flushed>>

Next ==
  \/ ReadForAdmit
  \/ \E key \in Keys : AdmitResolved(key) \/ HoldRepeat(key) \/ HoldFull(key) \/ Post(key)
  \/ ReadForDue
  \/ Due
  \/ Tick

Spec == Init /\ [][Next]_vars
-----------------------------------------------------------------------------
(* Reference: the decisions and the windows as functions of the history *)

Firing(i) == arrivals[i].status = "firing"

\* Between arrivals i and j a flush closed a window a full window or more after
\* time t.  It counts when j had read the clock before it: otherwise j itself
\* is as late.
FlushedSince(t, i, j) ==
  \E m \in (i + 1)..j : arrivals[m].rolled # None /\ arrivals[m].rolled - t >= Window

\* For arrival j, what happened at time t, up to arrival i, is over.
IsOver(t, i, j) == arrivals[j].at - t >= Window \/ FlushedSince(t, i, j)

\* The window each firing arrival falls into, by the arrival that opened it: "a
\* window opened by the first message after the last one ended"
\* (docs/configuration.md).
WindowOf ==
  LET w[i \in 1..Len(arrivals)] ==
        LET before == {j \in 1..(i - 1) : Firing(j)}
            last   == CHOOSE j \in before : \A k \in before : k <= j
        IN  IF before # {} /\ ~IsOver(arrivals[w[last]].at, last, i) THEN w[last] ELSE i
  IN  w

\* Firing arrival j repeats a key that was sent less than a window ago, with
\* no resolved alert of that key in between.
IsRepeat(j) ==
  \E i \in 1..(j - 1) :
    /\ Firing(i) /\ arrivals[i].sent /\ arrivals[i].key = arrivals[j].key
    /\ ~IsOver(arrivals[i].at, i, j)
    /\ \A r \in (i + 1)..(j - 1) : ~Firing(r) => arrivals[r].key # arrivals[j].key

PostsBefore(j) ==
  {i \in 1..(j - 1) : Firing(i) /\ arrivals[i].sent /\ WindowOf[i] = WindowOf[j]}

IsAboveMax(j) == Max > 0 /\ Cardinality(PostsBefore(j)) >= Max

HeldIn(w) == {j \in 1..Len(arrivals) : Firing(j) /\ ~arrivals[j].sent /\ WindowOf[j] = w}
Capped    == {WindowOf[j] : j \in {i \in 1..Len(arrivals) :
                                     Firing(i) /\ ~IsRepeat(i) /\ IsAboveMax(i)}}
-----------------------------------------------------------------------------
(* Properties *)

Counts    == [Keys -> 0..MaxArrivals]
Times     == Nat \cup {None}
Summaries == [from : Nat, first : Nat, held : Nat, heldKeys : Counts]
MostPosts == IF Max > 0 THEN Max ELSE MaxArrivals

\* Every variable has its type; no window posts more than max.
TypeOK ==
  /\ now \in Nat /\ workerAt \in Times /\ flusherAt \in Times /\ rolled \in Times
  /\ sent \in [Keys -> Times]
  /\ win \in [start : Times, first : Nat, posts : 0..MostPosts, held : 0..MaxArrivals,
             capped : BOOLEAN, heldKeys : Counts]
  /\ pending \in Seq(Summaries) /\ flushed \in Seq(Summaries)
  /\ arrivals \in Seq([key : Keys, at : Nat, status : {"firing", "resolved"}, sent : BOOLEAN,
                       rolled : Times])

\* admit decides as the whole history says: a resolved alert passes; a firing
\* one is held exactly when its key was sent within the window or the window
\* it falls into already has max posts, where "within" ends early for a worker
\* that a flush overtook between its clock and its lock.  roll forgetting keys
\* and the window reset lose nothing else that matters.
DecisionsFollowHistory ==
  \A j \in 1..Len(arrivals) :
    arrivals[j].sent <=> (Firing(j) => ~IsRepeat(j) /\ ~IsAboveMax(j))

\* The summaries due has returned or will return, and the open window.
AllSummaries == flushed \o pending \o (IF win.capped THEN <<Summary>> ELSE << >>)

\* Each window that reached max has exactly one summary, whatever interleaves
\* with the flusher; it names the window's start and counts every message the
\* window held back, per key.  A window in which only repeats were held back
\* has none.
OneSummaryPerCappedWindow ==
  /\ {AllSummaries[n].first : n \in DOMAIN AllSummaries} = Capped
  /\ \A m, n \in DOMAIN AllSummaries : AllSummaries[m].first = AllSummaries[n].first => m = n
  /\ \A n \in DOMAIN AllSummaries :
       LET s == AllSummaries[n]
       IN  /\ s.from = arrivals[s.first].at
           /\ s.held = Cardinality(HeldIn(s.first))
           /\ \A k \in Keys :
                s.heldKeys[k] = Cardinality({j \in HeldIn(s.first) : arrivals[j].key = k})
=============================================================================
