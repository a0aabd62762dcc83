-------------------------------- MODULE Sink --------------------------------
(***************************************************************************)
(* The notification sink (internal/sink): what a Teams channel or another  *)
(* receiver is to the catcher, for tests.  The store keeps the last posts  *)
(* of every channel and groups the posts of one message into one           *)
(* notification; a fault makes a channel's webhook wait or answer with an  *)
(* error.                                                                  *)
(*                                                                         *)
(* The clients are one catcher, whose dispatches follow each other and     *)
(* send to all outputs at once, each with its own retries (Dispatch.tla),  *)
(* somebody else who posts JSON of another shape, the HTML view, and an    *)
(* operator who sets faults and clears.                                    *)
(*                                                                         *)
(* A message is its key: the objectId, or severity, title and text         *)
(* normalised.  What a card or a webhook body says besides is data.        *)
(***************************************************************************)
EXTENDS Integers, Sequences, FiniteSets, FiniteSetsExt

CONSTANTS Cards,        \* outputs that post cards (kind msteams)
          Hooks,        \* outputs that post the message itself (kind webhook)
          Inbox,        \* the catch-all output to /inbox
          Messages,
          NoKey,        \* postKey "": the post of a stranger
          Capacity,     \* posts a channel keeps
          MaxGroups,    \* notifications kept: 4 * capacity in the code
          Window,       \* groupWindow
          Buffer,       \* events a subscriber's channel holds
          Budget,       \* dispatchTimeout of the catcher
          Attempts,     \* its sends per output
          Faults,       \* what the operator sets: [status, delay, count]
          Dispatches,   \* bound
          Others,       \* bound on what else happens: faults, clears, strangers, timeouts
          Horizon       \* bound: the last moment

Channels == Cards \cup Hooks
Outputs  == Channels \cup {Inbox}

ASSUME SinkAssumption ==
  /\ Cards \cap Hooks = {} /\ Inbox \notin Channels
  /\ NoKey \notin Messages
  /\ Capacity \in Nat \ {0} /\ MaxGroups \in Nat \ {0} /\ Buffer \in Nat \ {0}
  /\ Budget \in Nat \ {0} /\ Window \in Nat /\ Budget <= Window   \* the fan-out is capped by the window
  /\ Attempts \in Nat \ {0}
  /\ Faults \subseteq [status : BOOLEAN, delay : Nat, count : Nat]
  /\ \A f \in Faults : f.status \/ f.delay > 0   \* handleSetFault refuses others

NoFault == [status |-> FALSE, delay |-> 0, count |-> 0]

VARIABLES now,
          groups,     \* Store.notifications, oldest first
          nseq,       \* of the last notification
          channels,   \* per channel the posts kept, oldest first
          seq,        \* of the last post
          viewer,     \* the HTML view's subscription: [on, queue, shown, missed]
          faults,     \* Server.faults
          requests,   \* posts the server holds back: their fault's delay runs
          message,    \* of the dispatch in progress
          begun,      \* when it began
          dispatches, \* how many there were
          pc,         \* its outputs: "ready", "asking", "done", "failed"
          tries,      \* requests sent
          log,        \* history: every post and inbox entry stored, an event each
          late,       \* history: one was stored after its dispatch's budget
          others      \* how many of Others happened

store  == <<groups, nseq, channels, seq, viewer, log, late>>
client == <<message, begun, dispatches, pc, tries>>
vars   == <<now, store, faults, requests, client, others>>

Init == /\ now = 0
        /\ groups = << >> /\ nseq = 0 /\ seq = 0
        /\ channels = [c \in Channels |-> << >>]
        /\ viewer = [on |-> FALSE, queue |-> << >>, shown |-> 0, missed |-> FALSE]
        /\ faults = [c \in Channels |-> NoFault]
        /\ requests = {}
        /\ message = NoKey /\ begun = 0
        /\ pc = [o \in Outputs |-> "done"]
        /\ tries = [o \in Outputs |-> 0]
        /\ log = << >> /\ late = FALSE
        /\ dispatches = 0 /\ others = 0
-----------------------------------------------------------------------------
(* The store *)

Newest(s, n) == SubSeq(s, Len(s) - n + 1, Len(s))
Untrimmed(s, n)  == s                                                \* bug
Trim(s, n)       == IF Len(s) > n THEN Newest(s, n) ELSE s

\* The loop runs from the newest and breaks at the first that is too old.
RecentOpen(i) == \A j \in i..Len(groups) : now - groups[j].first < Window   \* bug: open interval
Recent(i) == \A j \in i..Len(groups) : now - groups[j].first <= Window

NeverTaken(n, o) == FALSE   \* bug: repeats join
Taken(n, o) == IF o = Inbox THEN n.inbox ELSE \E d \in n.posts : d.channel = o

Matching(key, o) ==
  {i \in DOMAIN groups : key # NoKey /\ Recent(i) /\ groups[i].key = key /\ ~Taken(groups[i], o)}

\* What the notification shows: the message itself once a post carried it,
\* else the first card.
LastShown(was, o) ==   \* bug: the last post wins
  IF o \in Cards THEN "card" ELSE "message"
Shown(was, o) ==
  IF was = "message" \/ o \notin Cards THEN "message" ELSE "card"

Joined(n, o, post, shows) ==
  IF o = Inbox THEN [n EXCEPT !.inbox = TRUE, !.shows = shows]
  ELSE [n EXCEPT !.posts = @ \cup {[channel |-> o, post |-> post]}, !.shows = shows]

PublishedLate(event) ==   \* bug: room for one less
  IF viewer.on /\ Len(viewer.queue) < Buffer - 1
    THEN [viewer EXCEPT !.queue = Append(@, event)] ELSE viewer
\* publish: a subscriber whose channel is full does not get the event.
Published(event) ==
  IF ~viewer.on THEN viewer
  ELSE IF Len(viewer.queue) < Buffer THEN [viewer EXCEPT !.queue = Append(@, event)]
  ELSE [viewer EXCEPT !.missed = TRUE]

FreshIdOfList == Len(groups) + 1   \* bug: ids come back once the list is full
FreshId == nseq + 1

\* add and AddInbox: o stores a post of key; whose is the dispatch it is of, 0
\* for a stranger.
Store(o, key, whose) ==
  LET post  == IF o = Inbox THEN 0 ELSE seq + 1
      match == Matching(key, o)
      shows(was) == IF key = NoKey THEN was ELSE Shown(was, o)
      fresh == [id |-> FreshId, first |-> now, key |-> key, posts |-> {}, inbox |-> FALSE,
                shows |-> "none"]
      id    == IF match = {} THEN FreshId ELSE groups[Max(match)].id
  IN /\ IF match = {}
          THEN /\ groups' = Trim(Append(groups, Joined(fresh, o, post, shows("none"))), MaxGroups)
               /\ nseq' = nseq + 1
          ELSE /\ groups' = [groups EXCEPT ![Max(match)] = Joined(@, o, post, shows(@.shows))]
               /\ UNCHANGED nseq
     /\ IF o = Inbox THEN UNCHANGED <<channels, seq>>
        ELSE /\ seq' = post
             /\ channels' = [channels EXCEPT ![o] = Trim(Append(@, [seq |-> post, group |-> id]), Capacity)]
     /\ log' = Append(log, [channel |-> o, key |-> key, post |-> post, group |-> id, whose |-> whose])
     /\ viewer' = Published(Len(log) + 1)

\* Clear of one channel, or of everything: then the notifications as well.
Clear(some, all) ==
  /\ others < Others /\ others' = others + 1
  /\ groups' = IF all THEN << >> ELSE groups
  /\ channels' = [c \in Channels |-> IF c \in some THEN << >> ELSE channels[c]]
  /\ UNCHANGED <<now, nseq, seq, viewer, log, late, faults, requests, client>>

Subscribe ==
  /\ ~viewer.on
  /\ others < Others /\ others' = others + 1
  /\ viewer' = [on |-> TRUE, queue |-> << >>, shown |-> Len(log), missed |-> FALSE]
  /\ UNCHANGED <<now, groups, nseq, channels, seq, log, late, faults, requests, client>>

Unsubscribe ==
  /\ viewer.on
  /\ viewer' = [on |-> FALSE, queue |-> << >>, shown |-> 0, missed |-> FALSE]
  /\ UNCHANGED <<now, groups, nseq, channels, seq, log, late, faults, requests, client, others>>

\* handleEvents writes the next event to the page.
Show ==
  /\ viewer.queue # << >>
  /\ viewer' = [viewer EXCEPT !.queue = Tail(@), !.shown = Head(viewer.queue)]
  /\ UNCHANGED <<now, groups, nseq, channels, seq, log, late, faults, requests, client, others>>
-----------------------------------------------------------------------------
(* Faults *)

SetFault(c, f) ==
  /\ others < Others /\ others' = others + 1
  /\ faults' = [faults EXCEPT ![c] = f]
  /\ UNCHANGED <<now, store, requests, client>>

ClearFault(c) ==
  /\ faults[c] # NoFault
  /\ others < Others /\ others' = others + 1
  /\ faults' = [faults EXCEPT ![c] = NoFault]
  /\ UNCHANGED <<now, store, requests, client>>

\* takeFault leaves this of a fault it has used once.
CountedDown(f) ==
  IF f.count = 0 THEN f ELSE IF f.count = 1 THEN NoFault ELSE [f EXCEPT !.count = @ - 1]

TakeFaults(C) ==
  faults' = [c \in Channels |-> IF c \in C THEN CountedDown(faults[c]) ELSE faults[c]]
-----------------------------------------------------------------------------
(* The clients, and their requests on the server *)

Deadline == begun + Budget

Over == \A o \in Outputs : pc[o] \in {"done", "failed"}

\* A request meets the channel's fault when it comes; the inbox has none.  It
\* is of a dispatch that ends at `by`.
FaultAt(o) == IF o = Inbox THEN NoFault ELSE faults[o]
Received(O, key, whose, try, by) ==
  /\ requests' = requests \cup
       {[channel |-> o, key |-> key, whose |-> whose, try |-> try, by |-> by,
         refuse |-> FaultAt(o).status, until |-> now + FaultAt(o).delay] : o \in O}
  /\ TakeFaults(O \ {Inbox})

\* The next dispatch, once the one before has returned: its outputs send at
\* the same time.
Dispatch(m) ==
  /\ Over /\ dispatches < Dispatches
  /\ dispatches' = dispatches + 1
  /\ message' = m /\ begun' = now
  /\ Received(Outputs, m, dispatches + 1, 1, now + Budget)
  /\ pc' = [o \in Outputs |-> "asking"] /\ tries' = [o \in Outputs |-> 1]
  /\ UNCHANGED <<now, store, others>>

Resend(o) ==
  /\ pc[o] = "ready" /\ now < Deadline
  /\ Received({o}, message, dispatches, tries[o] + 1, Deadline)
  /\ pc' = [pc EXCEPT ![o] = "asking"] /\ tries' = [tries EXCEPT ![o] = @ + 1]
  /\ UNCHANGED <<now, store, message, begun, dispatches, others>>

\* Somebody posts JSON that is no message.
StrangerPosts(c) ==
  /\ others < Others /\ others' = others + 1
  /\ Received({c}, NoKey, 0, others, now)
  /\ UNCHANGED <<now, store, client>>

\* The client of the request waits for its answer.
Awaited(r) ==
  /\ r.whose = dispatches /\ pc[r.channel] = "asking" /\ tries[r.channel] = r.try

\* What the output does after a failed request: send tries again or not.
Fail(o) ==
  \/ pc' = [pc EXCEPT ![o] = "failed"]
  \/ tries[o] < Attempts /\ now < Deadline /\ pc' = [pc EXCEPT ![o] = "ready"]

\* The delay is over; whether the client still waits makes no difference.
Accept(r) ==
  /\ r \in requests /\ now >= r.until /\ ~r.refuse
  /\ requests' = requests \ {r}
  /\ Store(r.channel, r.key, r.whose)
  /\ late' = (late \/ (r.whose # 0 /\ now > r.by))
  /\ pc' = IF Awaited(r) THEN [pc EXCEPT ![r.channel] = "done"] ELSE pc
  /\ UNCHANGED <<now, faults, message, begun, dispatches, tries, others>>

Refuse(r) ==
  /\ r \in requests /\ now >= r.until /\ r.refuse
  /\ requests' = requests \ {r}
  /\ IF Awaited(r) THEN Fail(r.channel) ELSE UNCHANGED pc
  /\ UNCHANGED <<now, store, faults, message, begun, dispatches, tries, others>>

\* The client's timeout, which may come with the answer.
GiveUp(o) ==
  /\ pc[o] = "asking"
  /\ others < Others /\ others' = others + 1
  /\ Fail(o)
  /\ UNCHANGED <<now, store, faults, requests, message, begun, dispatches, tries>>

\* The end of the dispatch.
Expire(o) ==
  /\ pc[o] \in {"ready", "asking"} /\ now >= Deadline
  /\ pc' = [pc EXCEPT ![o] = "failed"]
  /\ UNCHANGED <<now, store, faults, requests, message, begun, dispatches, tries, others>>

\* The body of a client that is gone may be unreadable.  That shows behind the
\* delay only: net/http does not end r.Context() while the body is unread.
Abandon(r) ==
  /\ r \in requests /\ now >= r.until /\ r.whose # 0 /\ ~Awaited(r)
  /\ requests' = requests \ {r}
  /\ UNCHANGED <<now, store, faults, client, others>>

\* Bound: nothing is left to do at the horizon.
Tick ==
  /\ now < Horizon
  /\ \A r \in requests : now < r.until
  /\ Over \/ now < Deadline
  /\ now' = now + 1
  /\ UNCHANGED <<store, faults, requests, client, others>>

ServerStep == \E r \in requests : Accept(r) \/ Refuse(r) \/ Abandon(r)

Next ==
  \/ \E m \in Messages : Dispatch(m)
  \/ \E o \in Outputs : Resend(o) \/ GiveUp(o) \/ Expire(o)
  \/ \E c \in Hooks : StrangerPosts(c)
  \/ ServerStep
  \/ \E c \in Channels : ClearFault(c) \/ \E f \in Faults : SetFault(c, f)
  \/ \E some \in {{c} : c \in Channels} \cup {Cards, Hooks} : Clear(some, FALSE)
  \/ Clear(Channels, TRUE) \/ Subscribe \/ Unsubscribe \/ Show \/ Tick

Spec == Init /\ [][Next]_vars
-----------------------------------------------------------------------------
(* Properties *)

Request == [channel : Outputs, key : Messages \cup {NoKey}, whose : Nat, try : Nat,
            by : Nat, refuse : BOOLEAN, until : Nat]
Stored  == [channel : Outputs, key : Messages \cup {NoKey}, post : Nat, group : Nat, whose : Nat]

\* Every variable has its type, no list is longer than its capacity, and ids
\* and times grow along the notifications, which is what group's break needs.
TypeOK ==
  /\ now \in Nat /\ nseq \in Nat /\ seq \in Nat
  /\ Len(groups) <= MaxGroups
  /\ \A i, j \in DOMAIN groups :
       i < j => groups[i].id < groups[j].id /\ groups[i].first <= groups[j].first
  /\ \A c \in Channels : Len(channels[c]) <= Capacity
  /\ Len(viewer.queue) <= Buffer
  /\ requests \subseteq Request /\ log \in Seq(Stored) /\ late \in BOOLEAN
  /\ pc \in [Outputs -> {"ready", "asking", "done", "failed"}]
  /\ tries \in [Outputs -> 0..Attempts]

Stores(d, o) == {i \in DOMAIN log : log[i].whose = d /\ log[i].channel = o}
Ours         == {i \in DOMAIN log : log[i].whose # 0}

\* Every output's post was stored once, within the budget of its dispatch (its
\* client may have given up), and before those of a later one.  Without that
\* grouping can only guess: a post that a fault delayed beyond the window is a
\* notification of its own, and after a dispatch that lost the card, the card
\* of the next one joins its notification.
Clean ==
  /\ ~late
  /\ \A d \in 1..dispatches, o \in Outputs :
       Cardinality(Stores(d, o)) = 1 \/ (d = dispatches /\ Stores(d, o) = {})
  /\ \A i, j \in Ours : i < j => log[i].whose <= log[j].whose

KeptIds == {groups[i].id : i \in DOMAIN groups}

\* The posts of a dispatch come in any order and with any retries, of clients
\* that have given up too, and those of a repeat of the message directly behind
\* them: each dispatch becomes one notification of its own, if every post was
\* stored once and in time and no notification was dropped so far.
NotificationPerDispatch ==
  Clean /\ (\A i \in Ours : log[i].group \in KeptIds) =>
    \A i, j \in Ours : log[i].whose = log[j].whose <=> log[i].group = log[j].group

\* Whatever is repeated, retried or late, a notification is of one message and
\* has each channel once; it shows that message if any post carried it, before
\* or after a card.  A post without a key stays alone, and every post names the
\* notification that lists it, although both are dropped independently.
OneMessageEach ==
  /\ \A i \in DOMAIN groups : LET n == groups[i] IN
       /\ \A p, q \in n.posts : p.channel = q.channel => p = q
       /\ \A j \in DOMAIN log : log[j].group = n.id => log[j].key = n.key
       /\ n.key = NoKey => Cardinality(n.posts) = 1 /\ ~n.inbox
       /\ n.shows = IF n.key = NoKey THEN "none"
                    ELSE IF n.inbox \/ \E p \in n.posts : p.channel \in Hooks THEN "message"
                    ELSE "card"
  /\ \A c \in Channels : \A k \in DOMAIN channels[c], i \in DOMAIN groups :
       LET p == channels[c][k]
       IN groups[i].id = p.group <=> [channel |-> c, post |-> p.seq] \in groups[i].posts

\* The page misses no event as long as its channel never was full.
ViewerMissesNothing ==
  viewer.on /\ ~viewer.missed =>
    viewer.queue = [i \in 1..(Len(log) - viewer.shown) |-> viewer.shown + i]
=============================================================================
