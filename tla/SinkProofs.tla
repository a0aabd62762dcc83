----------------------------- MODULE SinkProofs -----------------------------
(***************************************************************************)
(* Proofs about the sink (Sink.tla), for any outputs, messages, faults,    *)
(* windows and capacities: what it shows of a message is right, and the    *)
(* page misses nothing.  Behind them those about assert-card, which polls  *)
(* it (AssertCard.tla).                                                    *)
(***************************************************************************)
EXTENDS Sink, AssertCard, FiniteSetTheorems, WellFoundedInduction, TLAPS

USE SinkAssumption DEF SinkAssumption
-----------------------------------------------------------------------------
(* Numbers and lists *)

\* A set of numbers has a least one: the initial segments are well-founded.
LEMMA LeastNumber ==
  ASSUME NEW S \in SUBSET Nat, S # {}
  PROVE  \E n \in S : \A m \in S : n <= m
<1> DEFINE T == {0..n : n \in S}
           R == StrictSubsetOrdering(Nat)
<1>1. IsWellFoundedOn(R, FiniteSubsetsOf(Nat))
  BY FS_StrictSubsetOrderingWellFounded
<1>2. T \subseteq FiniteSubsetsOf(Nat) /\ T # {}
  <2>1. \A n \in S : 0..n \in SUBSET Nat /\ IsFiniteSet(0..n)
    BY FS_Interval
  <2> QED BY <2>1 DEF FiniteSubsetsOf
<1> HIDE DEF R
<1>3. PICK x \in T : \A y \in T : ~(<<y, x>> \in R)
  BY <1>1, <1>2, WFMin
<1>4. PICK n \in S : x = 0..n
  OBVIOUS
<1>5. ASSUME NEW m \in S, m < n PROVE FALSE
  <2>1. n \in 0..n /\ n \notin 0..m /\ (0..m) \subseteq (0..n)
    BY <1>5
  <2>2. <<0..m, 0..n>> \in R
    BY <2>1 DEF R, StrictSubsetOrdering
  <2> QED BY <1>3, <1>4, <2>2
<1>6. \A m \in S : ~(m < n) /\ m \in Nat /\ n \in Nat
  BY <1>5
<1> QED BY <1>6

\* And a bounded one has a greatest.
LEMMA GreatestNumber ==
  ASSUME NEW n \in Nat, NEW S \in SUBSET (1..n), S # {}
  PROVE  \E m \in S : \A k \in S : k <= m
<1> DEFINE B == {b \in 1..n : \A k \in S : k <= b}
<1>1. B \in SUBSET Nat /\ B # {}
  <2>1. PICK s \in S : TRUE
    OBVIOUS
  <2>2. n \in B
    BY <2>1
  <2> QED BY <2>2
<1>2. PICK b \in B : \A c \in B : b <= c
  BY <1>1, LeastNumber
<1>3. ASSUME b \notin S PROVE FALSE
  <2>1. \A k \in S : k < b
    BY <1>2, <1>3
  <2>2. PICK s \in S : TRUE
    OBVIOUS
  <2>3. b - 1 \in B
    BY <2>1, <2>2
  <2> QED BY <1>2, <2>3
<1> QED BY <1>2, <1>3

\* t is s without its first k elements.
Behind(t, s, k) ==
  /\ Len(t) = Len(s) - k
  /\ \A i \in 1..(Len(s) - k) : i + k \in 1..Len(s) /\ t[i] = s[i + k]

\* A list keeps its newest elements, in their places.
LEMMA TrimIs ==
  ASSUME NEW S, NEW s \in Seq(S), NEW n \in Nat
  PROVE  /\ Trim(s, n) \in Seq(S) /\ Len(Trim(s, n)) <= n
         /\ \E k \in Nat : Behind(Trim(s, n), s, k)
<1>1. CASE Len(s) <= n
  <2>1. Trim(s, n) = s /\ Len(s) = Len(s) - 0
    BY <1>1 DEF Trim
  <2>2. \A i \in 1..(Len(s) - 0) : i + 0 \in 1..Len(s) /\ s[i] = s[i + 0]
    OBVIOUS
  <2> QED BY <1>1, <2>1, <2>2 DEF Behind
<1>2. CASE Len(s) > n
  <2>1. PICK k \in Nat : k = Len(s) - n
    BY <1>2
  <2>2. Trim(s, n) = SubSeq(s, k + 1, Len(s)) /\ Len(s) - k = n
    BY <1>2, <2>1 DEF Trim, Newest
  <2>3. Trim(s, n) \in Seq(S) /\ Len(Trim(s, n)) = Len(s) - k
    BY <2>1, <2>2
  <2>4. \A i \in 1..(Len(s) - k) : i + k \in 1..Len(s) /\ Trim(s, n)[i] = s[i + k]
    BY <2>1, <2>2
  <2>5. Len(Trim(s, n)) <= n
    BY <2>2, <2>3
  <2> QED BY <2>1, <2>3, <2>4, <2>5 DEF Behind
<1> QED BY <1>1, <1>2

\* What is appended is last.
LEMMA AppendIs ==
  ASSUME NEW S, NEW s \in Seq(S), NEW e \in S
  PROVE  /\ Append(s, e) \in Seq(S) /\ DOMAIN Append(s, e) = 1..(Len(s) + 1)
         /\ DOMAIN s = 1..Len(s) /\ Len(s) \in Nat /\ Len(Append(s, e)) = Len(s) + 1
         /\ Append(s, e)[Len(s) + 1] = e
         /\ \A i \in DOMAIN s : Append(s, e)[i] = s[i]
OBVIOUS

\* So an index of the longer list is the last, or one of the shorter.
LEMMA AppendIndex ==
  ASSUME NEW S, NEW s \in Seq(S), NEW e \in S, NEW i \in DOMAIN Append(s, e)
  PROVE  \/ i \in DOMAIN s /\ Append(s, e)[i] = s[i]
         \/ i = Len(s) + 1 /\ i \notin DOMAIN s /\ Append(s, e)[i] = e
BY AppendIs
-----------------------------------------------------------------------------
(* The invariants *)

Keys  == Messages \cup {NoKey}
Post  == [channel : Channels, post : Nat]
Note  == [id : Nat, first : Nat, key : Keys, posts : SUBSET Post, inbox : BOOLEAN,
          shows : {"none", "card", "message"}]
Kept  == [seq : Nat, group : Nat]

Shows(n) == IF n.key = NoKey THEN "none"
            ELSE IF n.inbox \/ \E p \in n.posts : p.channel \in Hooks THEN "message" ELSE "card"

\* A notification, when the log is lg and sq the last post: its posts and what
\* is logged of it are the same, and all of its message.
Good(n, lg, sq) ==
  /\ \A p, q \in n.posts : p.channel = q.channel => p = q
  /\ \A p \in n.posts : p.post <= sq
  /\ \A j \in DOMAIN lg : lg[j].group = n.id => lg[j].key = n.key /\ Taken(n, lg[j].channel)
  /\ \A o \in Outputs : Taken(n, o) => \E j \in DOMAIN lg : lg[j].group = n.id /\ lg[j].channel = o
  /\ \E o \in Outputs : Taken(n, o)
  /\ n.key = NoKey => ~n.inbox /\ \E p \in Post : n.posts = {p}
  /\ n.shows = Shows(n)

\* What group's break needs.
Ascending(gs) ==
  \A i, j \in DOMAIN gs : i < j => gs[i].id < gs[j].id /\ gs[i].first <= gs[j].first

\* The notifications kept are good ones, in order, and none is of the future.
GroupsInv ==
  /\ groups \in Seq(Note) /\ nseq \in Nat /\ seq \in Nat /\ now \in Nat
  /\ Ascending(groups)
  /\ \A i \in DOMAIN groups : groups[i].id <= nseq /\ groups[i].first <= now
  /\ \A i \in DOMAIN groups : Good(groups[i], log, seq)

\* A post that is kept, and the notifications gs.
Named(c, p, gs) ==
  \A i \in DOMAIN gs : gs[i].id = p.group <=> [channel |-> c, post |-> p.seq] \in gs[i].posts

\* Every post kept is named by the notifications kept as it names them.
ChannelsInv ==
  /\ channels \in [Channels -> Seq(Kept)]
  /\ \A c \in Channels : \A k \in DOMAIN channels[c] :
       /\ channels[c][k].seq <= seq /\ channels[c][k].group <= nseq
       /\ Named(c, channels[c][k], groups)

\* What is logged was of a dispatch there was, with its message.
LogInv ==
  /\ log \in Seq(Stored)
  /\ \A j \in DOMAIN log : /\ log[j].group <= nseq /\ log[j].whose <= dispatches
                           /\ log[j].whose = 0 <=> log[j].key = NoKey
                           /\ (log[j].whose = dispatches /\ dispatches > 0) => log[j].key = message

\* An output that is not done yet is in its dispatch's budget.
ClientInv ==
  /\ dispatches \in Nat /\ begun \in Nat /\ begun <= now /\ message \in Keys
  /\ pc \in [Outputs -> {"ready", "asking", "done", "failed"}]
  /\ tries \in [Outputs -> 0..Attempts]
  /\ dispatches > 0 => message \in Messages
  /\ \A o \in Outputs : pc[o] \in {"ready", "asking"} => dispatches > 0 /\ now <= Deadline
  /\ \A o \in Outputs : pc[o] = "ready" => tries[o] < Attempts
  /\ others \in Nat /\ faults \in [Channels -> [status : BOOLEAN, delay : Nat, count : Nat]]

\* All that one dispatch posts is of one message.
RequestsInv ==
  /\ requests \subseteq Request
  /\ \A r \in requests :
       /\ r.whose <= dispatches
       /\ r.whose = 0 <=> r.key = NoKey
       /\ r.whose = 0 => r.channel \in Hooks
       /\ (r.whose = dispatches /\ dispatches > 0) => r.key = message
       /\ \A s \in requests : s.whose = r.whose => s.key = r.key
       /\ \A j \in DOMAIN log : log[j].whose = r.whose => log[j].key = r.key

\* Everything in the notification n is of dispatch d.
Only(n, d, lg) == \A j \in DOMAIN lg : lg[j].group = n.id => lg[j].whose = d

\* A notification that a dispatch made alone is no older than the dispatch, so
\* that the budget of a request of that dispatch ends at most a budget after it.
Aged(n, lg) ==
  /\ (dispatches > 0 /\ Only(n, dispatches, lg)) => begun <= n.first
  /\ \A r \in requests : (r.whose # 0 /\ Only(n, r.whose, lg)) => r.by <= n.first + Budget

AgeInv ==
  /\ \A r \in requests : r.whose # 0 => r.by <= now + Budget
  /\ \A i \in DOMAIN groups : Aged(groups[i], log)

\* The grouping: of a log so far clean, of posts in time, and notifications none
\* of which was dropped, the entries of one dispatch are those of one notification.  Clean of
\* the last entry includes that the dispatches before were complete.
OursOf(lg) == {i \in DOMAIN lg : lg[i].whose # 0}
CleanSoFar(lg) ==
  /\ \A i, j \in OursOf(lg) : lg[i].whose = lg[j].whose /\ lg[i].channel = lg[j].channel => i = j
  /\ \A i, j \in OursOf(lg) : i < j => lg[i].whose <= lg[j].whose
  /\ \A i \in OursOf(lg), o \in Outputs : \A d \in 1..(lg[i].whose - 1) :
       \E k \in OursOf(lg) : lg[k].whose = d /\ lg[k].channel = o
AllKept(lg, gs) == \A j \in OursOf(lg) : \E i \in DOMAIN gs : gs[i].id = lg[j].group
Apart(lg) == \A i, j \in OursOf(lg) : lg[i].whose = lg[j].whose <=> lg[i].group = lg[j].group

GroupingInv ==
  /\ late \in BOOLEAN
  /\ (CleanSoFar(log) /\ ~late /\ AllKept(log, groups)) => Apart(log)

\* The page's queue is what it has not shown yet.
ViewerInv ==
  /\ viewer \in [on : BOOLEAN, queue : Seq(Nat), shown : Nat, missed : BOOLEAN]
  /\ Len(viewer.queue) <= Buffer
  /\ (viewer.on /\ ~viewer.missed) => viewer.shown <= Len(log)
  /\ ~viewer.on => viewer.queue = << >>
  /\ ViewerMissesNothing
BoundsInv == Len(groups) <= MaxGroups /\ \A c \in Channels : Len(channels[c]) <= Capacity

Inv == /\ GroupsInv /\ ChannelsInv /\ LogInv /\ ClientInv /\ RequestsInv /\ AgeInv
       /\ GroupingInv /\ ViewerInv /\ BoundsInv
-----------------------------------------------------------------------------
(* One notification *)

\* What is stored of another notification leaves this one alone.
LEMMA GoodOther ==
  ASSUME NEW n \in Note, NEW lg \in Seq(Stored), NEW e \in Stored, e.group # n.id,
         NEW sq \in Nat, NEW sr \in Nat, sq <= sr, Good(n, lg, sq)
  PROVE  Good(n, Append(lg, e), sr)
<1> DEFINE lh == Append(lg, e)
<1>1. \A j \in DOMAIN lh : lh[j].group = n.id => j \in DOMAIN lg /\ lh[j] = lg[j]
  BY AppendIndex
<1>2. \A j \in DOMAIN lg : j \in DOMAIN lh /\ lh[j] = lg[j]
  BY AppendIs
<1> HIDE DEF lh
<1>3. \A p \in n.posts : p.post <= sr
  <2> SUFFICES ASSUME NEW p \in n.posts PROVE p.post <= sr
    OBVIOUS
  <2>1. p.post \in Nat /\ p.post <= sq
    BY DEF Good, Note, Post
  <2> QED BY <2>1
<1>4. \A j \in DOMAIN lh : lh[j].group = n.id => lh[j].key = n.key /\ Taken(n, lh[j].channel)
  BY <1>1 DEF Good
<1>5. \A o \in Outputs : Taken(n, o) => \E j \in DOMAIN lh : lh[j].group = n.id /\ lh[j].channel = o
  BY <1>2 DEF Good
<1>6. Good(n, lh, sr)
  BY <1>3, <1>4, <1>5 DEF Good
<1> QED BY <1>6 DEF lh

\* m is the notification n with a post of output o.
IsJoined(m, n, o, post, shows) ==
  /\ m \in Note /\ m.id = n.id /\ m.first = n.first /\ m.key = n.key /\ m.shows = shows
  /\ o = Inbox => m.posts = n.posts /\ m.inbox = TRUE
  /\ o # Inbox => m.posts = n.posts \cup {[channel |-> o, post |-> post]} /\ m.inbox = n.inbox
  /\ \A x \in Outputs : Taken(m, x) <=> Taken(n, x) \/ x = o

\* That is what joining makes of it.
LEMMA JoinedIs ==
  ASSUME NEW n \in Note, NEW o \in Outputs, NEW post \in Nat,
         NEW shows \in {"none", "card", "message"}
  PROVE  IsJoined(Joined(n, o, post, shows), n, o, post, shows)
<1> DEFINE m == Joined(n, o, post, shows)
<1>1. CASE o = Inbox
  <2>1. m = [n EXCEPT !.inbox = TRUE, !.shows = shows]
    BY <1>1 DEF Joined
  <2>2. m \in Note /\ m.id = n.id /\ m.first = n.first /\ m.key = n.key /\ m.shows = shows
        /\ m.posts = n.posts /\ m.inbox = TRUE
    BY <2>1 DEF Note
  <2> HIDE DEF m
  <2>3. ASSUME NEW x \in Outputs PROVE Taken(m, x) <=> Taken(n, x) \/ x = o
    BY <1>1, <2>2 DEF Taken
  <2>4. IsJoined(m, n, o, post, shows)
    BY <1>1, <2>2, <2>3 DEF IsJoined
  <2> QED BY <2>4 DEF m
<1>2. CASE o # Inbox
  <2> DEFINE p == [channel |-> o, post |-> post]
  <2>1. m = [n EXCEPT !.posts = n.posts \cup {p}, !.shows = shows]
    BY <1>2 DEF Joined
  <2>2. p \in Post /\ p.channel = o
    BY <1>2 DEF Post, Outputs
  <2> HIDE DEF p
  <2>3. m \in Note /\ m.id = n.id /\ m.first = n.first /\ m.key = n.key /\ m.shows = shows
        /\ m.posts = n.posts \cup {p} /\ m.inbox = n.inbox
    <3>1. n.posts \cup {p} \in SUBSET Post
      BY <2>2 DEF Note
    <3>2. PICK ps \in SUBSET Post : ps = n.posts \cup {p}
      BY <3>1
    <3>3. m = [n EXCEPT !.posts = ps, !.shows = shows]
      BY <2>1, <3>2
    <3>4. m \in Note
      BY <3>3 DEF Note
    <3>5. m.id = n.id /\ m.first = n.first /\ m.key = n.key /\ m.shows = shows
          /\ m.posts = ps /\ m.inbox = n.inbox
      BY <3>3 DEF Note
    <3> QED BY <3>2, <3>4, <3>5
  <2> HIDE DEF m
  <2>4. ASSUME NEW x \in Outputs PROVE Taken(m, x) <=> Taken(n, x) \/ x = o
    BY <1>2, <2>2, <2>3 DEF Taken
  <2>5. IsJoined(m, n, o, post, shows)
    BY <1>2, <2>3, <2>4 DEF IsJoined, p
  <2> QED BY <2>5 DEF m
<1> QED BY <1>1, <1>2

\* A post that joins a notification of its message which has none of its output.
LEMMA GoodJoined ==
  ASSUME NEW n \in Note, NEW lg \in Seq(Stored), NEW sq \in Nat, NEW sr \in Nat, sq <= sr,
         Good(n, lg, sq), NEW o \in Outputs, NEW e \in Stored, NEW post \in Nat,
         e.group = n.id, e.key = n.key, e.channel = o, n.key # NoKey, ~Taken(n, o),
         post <= sr
  PROVE  Good(Joined(n, o, post, Shown(n.shows, o)), Append(lg, e), sr)
<1> DEFINE lh == Append(lg, e)
           m == Joined(n, o, post, Shown(n.shows, o))
<1>1. Shown(n.shows, o) \in {"none", "card", "message"}
  BY DEF Shown
<1>2. /\ m \in Note /\ m.id = n.id /\ m.key = n.key /\ m.shows = Shown(n.shows, o)
      /\ o = Inbox => m.posts = n.posts /\ m.inbox = TRUE
      /\ o # Inbox => m.posts = n.posts \cup {[channel |-> o, post |-> post]} /\ m.inbox = n.inbox
      /\ \A x \in Outputs : Taken(m, x) <=> Taken(n, x) \/ x = o
  <2>1. IsJoined(m, n, o, post, Shown(n.shows, o))
    BY <1>1, JoinedIs
  <2> HIDE DEF m
  <2> QED BY <2>1 DEF IsJoined
<1>3. \A j \in DOMAIN lh : (j \in DOMAIN lg /\ lh[j] = lg[j]) \/ lh[j] = e
  BY AppendIndex
<1>4. /\ \A j \in DOMAIN lg : j \in DOMAIN lh /\ lh[j] = lg[j] /\ lg[j] \in Stored
      /\ \E j \in DOMAIN lh : lh[j] = e
  <2>1. \A j \in DOMAIN lg : lg[j] \in Stored
    BY AppendIs
  <2>2. Len(lg) + 1 \in DOMAIN lh /\ lh[Len(lg) + 1] = e
    BY AppendIs
  <2> QED BY <2>1, <2>2, AppendIs
<1> HIDE DEF lh, m
<1>5. \A p, q \in m.posts : p.channel = q.channel => p = q
  <2>1. CASE o = Inbox
    BY <1>2, <2>1 DEF Good
  <2>2. CASE o # Inbox
    <3>1. \A p \in n.posts : p.channel # o
      BY <2>2 DEF Taken
    <3>2. [channel |-> o, post |-> post].channel = o
      OBVIOUS
    <3> QED BY <1>2, <2>2, <3>1, <3>2 DEF Good
  <2> QED BY <2>1, <2>2
<1>6. \A p \in m.posts : p.post <= sr
  <2> SUFFICES ASSUME NEW p \in m.posts PROVE p.post <= sr
    OBVIOUS
  <2>1. CASE p \in n.posts
    <3>1. p.post \in Nat /\ p.post <= sq
      BY <2>1 DEF Good, Note, Post
    <3> QED BY <3>1
  <2>2. CASE p \notin n.posts
    <3>1. p = [channel |-> o, post |-> post]
      BY <1>2, <2>2
    <3> QED BY <3>1
  <2> QED BY <2>1, <2>2
<1>7. \A j \in DOMAIN lh : lh[j].group = m.id => lh[j].key = m.key /\ Taken(m, lh[j].channel)
  <2> SUFFICES ASSUME NEW j \in DOMAIN lh, lh[j].group = m.id
               PROVE  lh[j].key = m.key /\ Taken(m, lh[j].channel)
    OBVIOUS
  <2>1. CASE j \in DOMAIN lg /\ lh[j] = lg[j]
    <3>1. lg[j].channel \in Outputs
      BY <1>4, <2>1 DEF Stored
    <3> QED BY <1>2, <2>1, <3>1 DEF Good
  <2>2. CASE lh[j] = e
    BY <1>2, <2>2
  <2> QED BY <1>3, <2>1, <2>2
<1>8. \A x \in Outputs : Taken(m, x) => \E j \in DOMAIN lh : lh[j].group = m.id /\ lh[j].channel = x
  BY <1>2, <1>4 DEF Good
<1>9. \E x \in Outputs : Taken(m, x)
  BY <1>2
<1>10. m.shows = Shows(m)
  <2>1. n.shows = IF n.inbox \/ \E p \in n.posts : p.channel \in Hooks THEN "message" ELSE "card"
    BY DEF Good, Shows
  <2>2. CASE o = Inbox
    <3>1. o \notin Cards
      BY <2>2 DEF Channels
    <3> QED BY <1>2, <2>2, <3>1 DEF Shown, Shows
  <2>3. CASE o \in Hooks
    <3>1. o # Inbox /\ o \notin Cards
      BY <2>3 DEF Channels
    <3>2. [channel |-> o, post |-> post] \in m.posts /\ [channel |-> o, post |-> post].channel \in Hooks
      BY <1>2, <2>3, <3>1
    <3> QED BY <1>2, <3>1, <3>2 DEF Shown, Shows
  <2>4. CASE o \in Cards
    <3>1. o # Inbox /\ o \notin Hooks
      BY <2>4 DEF Channels
    <3>2. m.posts = n.posts \cup {[channel |-> o, post |-> post]} /\ m.inbox = n.inbox
      BY <1>2, <3>1
    <3>3. [channel |-> o, post |-> post].channel \notin Hooks
      BY <3>1
    <3>4. (\E p \in m.posts : p.channel \in Hooks) <=> (\E p \in n.posts : p.channel \in Hooks)
      BY <3>2, <3>3
    <3>5. m.shows = IF n.shows = "message" THEN "message" ELSE "card"
      BY <1>2, <2>4 DEF Shown
    <3> QED BY <1>2, <2>1, <3>2, <3>4, <3>5 DEF Shows
  <2> QED BY <2>2, <2>3, <2>4 DEF Outputs, Channels
<1>11. Good(m, lh, sr)
  BY <1>2, <1>5, <1>6, <1>7, <1>8, <1>9, <1>10 DEF Good
<1> QED BY <1>11 DEF m, lh

\* A notification of one post that nothing was logged of before.
FreshNote(id, at, key) == [id |-> id, first |-> at, key |-> key, posts |-> {}, inbox |-> FALSE,
                           shows |-> "none"]

Unlogged(id, lg) == \A j \in DOMAIN lg : lg[j].group # id

IsNew(m, id, at, key, o, post) ==
  /\ m \in Note /\ m.id = id /\ m.first = at /\ m.key = key
  /\ m.posts \subseteq {[channel |-> o, post |-> post]}
  /\ o # Inbox => [channel |-> o, post |-> post] \in m.posts

LEMMA GoodFresh ==
  ASSUME NEW id \in Nat, NEW at \in Nat, NEW key \in Keys, NEW lg \in Seq(Stored),
         NEW sr \in Nat, NEW o \in Outputs, NEW e \in Stored, NEW post \in Nat, post <= sr,
         e.group = id, e.key = key, e.channel = o, key = NoKey => o # Inbox, Unlogged(id, lg),
         NEW shows, shows = IF key = NoKey THEN "none" ELSE Shown("none", o)
  PROVE  /\ IsNew(Joined(FreshNote(id, at, key), o, post, shows), id, at, key, o, post)
         /\ Good(Joined(FreshNote(id, at, key), o, post, shows), Append(lg, e), sr)
<1> DEFINE lh == Append(lg, e)
           n == FreshNote(id, at, key)
           m == Joined(n, o, post, shows)
           p == [channel |-> o, post |-> post]
<1>1. n \in Note /\ n.id = id /\ n.first = at /\ n.key = key /\ n.posts = {} /\ n.inbox = FALSE
  BY DEF FreshNote, Note
<1>2. shows \in {"none", "card", "message"}
  BY DEF Shown
<1>3. \A x \in Outputs : ~Taken(n, x)
  BY <1>1 DEF Taken
<1> HIDE DEF n
<1>4. /\ m \in Note /\ m.id = id /\ m.first = at /\ m.key = key /\ m.shows = shows
      /\ o = Inbox => m.posts = n.posts /\ m.inbox = TRUE
      /\ o # Inbox => m.posts = n.posts \cup {p} /\ m.inbox = n.inbox
      /\ \A x \in Outputs : Taken(m, x) <=> Taken(n, x) \/ x = o
  <2>1. IsJoined(m, n, o, post, shows)
    BY <1>1, <1>2, JoinedIs
  <2> HIDE DEF m
  <2> QED BY <1>1, <2>1 DEF IsJoined
<1>5. \A j \in DOMAIN lh : lh[j].group = id => lh[j] = e
  BY AppendIndex DEF Unlogged
<1>6. \E j \in DOMAIN lh : lh[j] = e
  BY AppendIs
<1>7. p.channel = o /\ p.post = post /\ (o # Inbox => p \in Post)
  BY DEF Post, Outputs
<1> HIDE DEF lh, m, p
<1>8. m.posts \subseteq {p} /\ (o # Inbox => m.posts = {p})
  BY <1>1, <1>4
<1>9. m.shows = Shows(m)
  <2>1. CASE key = NoKey
    BY <1>4, <2>1 DEF Shows
  <2>2. CASE key # NoKey /\ o \in Cards
    <3>1. o # Inbox /\ o \notin Hooks
      BY <2>2 DEF Channels
    <3>2. m.inbox = FALSE /\ \A q \in m.posts : q.channel \notin Hooks
      BY <1>1, <1>4, <1>7, <1>8, <3>1
    <3> QED BY <1>4, <2>2, <3>2 DEF Shows, Shown
  <2>3. CASE key # NoKey /\ o \in Hooks
    <3>1. o # Inbox /\ o \notin Cards
      BY <2>3 DEF Channels
    <3>2. \E q \in m.posts : q.channel \in Hooks
      BY <1>7, <1>8, <2>3, <3>1
    <3> QED BY <1>4, <2>3, <3>1, <3>2 DEF Shows, Shown
  <2>4. CASE key # NoKey /\ o = Inbox
    <3>1. o \notin Cards /\ m.inbox = TRUE
      BY <1>4, <2>4 DEF Channels
    <3> QED BY <1>4, <2>4, <3>1 DEF Shows, Shown
  <2> QED BY <2>1, <2>2, <2>3, <2>4 DEF Outputs, Channels
<1>10. m.key = NoKey => ~m.inbox /\ \E q \in Post : m.posts = {q}
  BY <1>1, <1>4, <1>7, <1>8
<1>11. /\ \A q, r \in m.posts : q.channel = r.channel => q = r
       /\ \A q \in m.posts : q.post <= sr
  BY <1>7, <1>8
<1>12. /\ \A j \in DOMAIN lh : lh[j].group = m.id => lh[j].key = m.key /\ Taken(m, lh[j].channel)
       /\ \A x \in Outputs : Taken(m, x) => \E j \in DOMAIN lh : lh[j].group = m.id /\ lh[j].channel = x
       /\ \E x \in Outputs : Taken(m, x)
  BY <1>3, <1>4, <1>5, <1>6
<1>13. Good(m, lh, sr)
  BY <1>9, <1>10, <1>11, <1>12 DEF Good
<1>14. IsNew(m, id, at, key, o, post)
  BY <1>4, <1>8 DEF IsNew, p
<1> QED BY <1>13, <1>14 DEF lh, n, m
-----------------------------------------------------------------------------
(* One post stored *)

Entry(o, key, post, id, whose) ==
  [channel |-> o, key |-> key, post |-> post, group |-> id, whose |-> whose]

\* Store, unfolded: it joins the newest notification that matches or adds one.
LEMMA StoreIs ==
  ASSUME NEW o, NEW key, NEW whose, Store(o, key, whose)
  PROVE  \E post, id :
           /\ post = IF o = Inbox THEN 0 ELSE seq + 1
           /\ log' = Append(log, Entry(o, key, post, id, whose))
           /\ viewer' = Published(Len(log) + 1)
           /\ IF o = Inbox THEN UNCHANGED <<channels, seq>>
              ELSE /\ seq' = post
                   /\ channels' = [channels EXCEPT ![o] =
                                     Trim(Append(@, [seq |-> post, group |-> id]), Capacity)]
           /\ \/ /\ Matching(key, o) # {}
                 /\ id = groups[Max(Matching(key, o))].id /\ nseq' = nseq
                 /\ groups' = [groups EXCEPT ![Max(Matching(key, o))] =
                                 Joined(@, o, post, IF key = NoKey THEN @.shows ELSE Shown(@.shows, o))]
              \/ /\ Matching(key, o) = {} /\ id = nseq + 1 /\ nseq' = nseq + 1
                 /\ groups' = Trim(Append(groups, Joined(FreshNote(nseq + 1, now, key), o, post,
                                     IF key = NoKey THEN "none" ELSE Shown("none", o))), MaxGroups)
<1>1. CASE Matching(key, o) # {}
  BY <1>1 DEF Store, Entry
<1>2. CASE Matching(key, o) = {}
  BY <1>2 DEF Store, Entry, FreshNote, FreshId
<1> QED BY <1>1, <1>2

\* Of what matches, Max is one; it is of the message, recent, and without the output.
LEMMA MatchIs ==
  ASSUME GroupsInv, NEW o \in Outputs, NEW key \in Keys, Matching(key, o) # {}
  PROVE  /\ Max(Matching(key, o)) \in Matching(key, o)
         /\ \A i \in Matching(key, o) : /\ i \in DOMAIN groups /\ key # NoKey
                                        /\ groups[i].key = key /\ ~Taken(groups[i], o)
<1> DEFINE M == Matching(key, o)
<1>1. Len(groups) \in Nat /\ DOMAIN groups = 1..Len(groups)
  BY DEF GroupsInv
<1>2. M \in SUBSET (1..Len(groups))
  BY <1>1 DEF Matching
<1>3. \A i \in M : i \in DOMAIN groups /\ key # NoKey /\ groups[i].key = key /\ ~Taken(groups[i], o)
  BY DEF Matching
<1> HIDE DEF M
<1>4. PICK m \in M : \A k \in M : k <= m
  BY <1>1, <1>2, GreatestNumber DEF M
<1>5. \E x \in M : \A y \in M : x >= y
  BY <1>1, <1>2, <1>4
<1>6. Max(M) \in M
  BY <1>5 DEF Max
<1> QED BY <1>3, <1>6 DEF M

\* n is the notification that holds the post now; every other is one of before.
Grew(o, key, post, id, n) ==
  /\ n \in Note /\ n.id = id /\ n.first <= now
  /\ groups' \in Seq(Note) /\ Ascending(groups')
  /\ Len(groups) <= MaxGroups => Len(groups') <= MaxGroups
  /\ \A k \in DOMAIN groups' :
       groups'[k] = n \/ (groups'[k].id # id /\ \E i \in DOMAIN groups : groups'[k] = groups[i])
  /\ \/ \E i \in Matching(key, o) : /\ IsJoined(n, groups[i], o, post, n.shows)
                                    /\ nseq' = nseq /\ id = groups[i].id
     \/ /\ Matching(key, o) = {} /\ nseq' = nseq + 1 /\ id = nseq + 1 /\ n.first = now
        /\ n.posts \subseteq {[channel |-> o, post |-> post]}
        /\ o # Inbox => [channel |-> o, post |-> post] \in n.posts

\* When it joins one ...
LEMMA GrewByJoining ==
  ASSUME GroupsInv, LogInv, NEW o \in Outputs, NEW key \in Keys, NEW post \in Nat, post <= seq',
         seq' \in Nat, seq <= seq', NEW whose \in Nat, NEW i \in Matching(key, o), Matching(key, o) # {},
         nseq' = nseq, log' = Append(log, Entry(o, key, post, groups[i].id, whose)),
         groups' = [groups EXCEPT ![i] =
                      Joined(@, o, post, IF key = NoKey THEN @.shows ELSE Shown(@.shows, o))]
  PROVE  \E n \in Note : Grew(o, key, post, groups[i].id, n) /\ Good(n, log', seq')
<1>1. i \in DOMAIN groups /\ key # NoKey /\ groups[i].key = key /\ ~Taken(groups[i], o)
  BY MatchIs
<1>2. groups[i] \in Note /\ Good(groups[i], log, seq)
  BY <1>1 DEF GroupsInv
<1>3. PICK g \in Note : g = groups[i]
  BY <1>2
<1>4. PICK sh \in {"none", "card", "message"} : sh = Shown(g.shows, o)
  BY DEF Shown
<1>5. PICK n : n = Joined(g, o, post, sh)
  OBVIOUS
<1>6. IsJoined(n, g, o, post, sh)
  BY <1>5, JoinedIs
<1>7. groups' = [groups EXCEPT ![i] = n]
  BY <1>1, <1>3, <1>4, <1>5
<1>8. n \in Note /\ n.id = g.id /\ n.first = g.first /\ n.shows = sh
  BY <1>6 DEF IsJoined
<1>9. /\ groups \in Seq(Note) /\ groups' \in Seq(Note) /\ DOMAIN groups' = DOMAIN groups
      /\ \A k \in DOMAIN groups : groups'[k] = IF k = i THEN n ELSE groups[k]
  BY <1>1, <1>7, <1>8 DEF GroupsInv
<1>10. Ascending(groups')
  <2> SUFFICES ASSUME NEW a \in DOMAIN groups', NEW b \in DOMAIN groups', a < b
               PROVE  groups'[a].id < groups'[b].id /\ groups'[a].first <= groups'[b].first
    BY DEF Ascending
  <2>1. /\ groups'[a].id = groups[a].id /\ groups'[b].id = groups[b].id
        /\ groups'[a].first = groups[a].first /\ groups'[b].first = groups[b].first
    BY <1>3, <1>8, <1>9
  <2>2. groups[a].id < groups[b].id /\ groups[a].first <= groups[b].first
    BY <1>9 DEF GroupsInv, Ascending
  <2> QED BY <2>1, <2>2
<1>11. ASSUME NEW k \in DOMAIN groups'
       PROVE  groups'[k] = n \/ (groups'[k].id # g.id /\ \E j \in DOMAIN groups : groups'[k] = groups[j])
  <2>1. CASE k = i
    BY <1>1, <1>9, <2>1
  <2>2. CASE k # i
    <3>1. k \in DOMAIN groups /\ groups'[k] = groups[k]
      BY <1>9, <2>2
    <3>2. groups[k].id # groups[i].id
      <4>1. k \in Nat /\ i \in Nat /\ groups[k].id \in Nat /\ groups[i].id \in Nat
        <5>1. groups[k] \in Note /\ groups[i] \in Note
          BY <1>1, <1>9, <3>1
        <5>2. DOMAIN groups = 1..Len(groups)
          BY <1>9
        <5> QED BY <1>1, <3>1, <5>1, <5>2 DEF Note
      <4>2. k < i \/ i < k
        BY <2>2, <4>1
      <4> QED BY <1>1, <3>1, <4>1, <4>2 DEF GroupsInv, Ascending
    <3> QED BY <1>3, <3>1, <3>2
  <2> QED BY <2>1, <2>2
<1>12. g.first <= now
  BY <1>1, <1>3 DEF GroupsInv
<1>13. Grew(o, key, post, g.id, n)
  <2>1. Len(groups') = Len(groups)
    BY <1>9
  <2> QED BY <2>1, <1>3, <1>6, <1>8, <1>9, <1>10, <1>11, <1>12 DEF Grew
<1>14. Good(n, log', seq')
  <2> DEFINE e == Entry(o, key, post, g.id, whose)
  <2>1. /\ e \in Stored /\ e.group = g.id /\ e.key = key /\ e.channel = o
    BY <1>3 DEF Entry, Stored, Note, Keys
  <2>2. log' = Append(log, e) /\ log \in Seq(Stored) /\ seq \in Nat
    BY <1>3 DEF LogInv, GroupsInv
  <2> HIDE DEF e
  <2>3. /\ g.key = e.key /\ g.key # NoKey /\ ~Taken(g, o) /\ Good(g, log, seq)
    BY <1>1, <1>2, <1>3, <2>1
  <2>4. Good(Joined(g, o, post, Shown(g.shows, o)), Append(log, e), seq')
    BY <2>1, <2>2, <2>3, GoodJoined
  <2> QED BY <1>4, <1>5, <2>2, <2>4
<1> QED BY <1>3, <1>8, <1>13, <1>14

\* ... and when it adds one.
LEMMA GrewByAdding ==
  ASSUME GroupsInv, LogInv, NEW o \in Outputs, NEW key \in Keys, key = NoKey => o # Inbox,
         NEW post \in Nat, post <= seq', seq' \in Nat, NEW whose \in Nat, Matching(key, o) = {},
         nseq' = nseq + 1, log' = Append(log, Entry(o, key, post, nseq + 1, whose)),
         groups' = Trim(Append(groups, Joined(FreshNote(nseq + 1, now, key), o, post,
                          IF key = NoKey THEN "none" ELSE Shown("none", o))), MaxGroups)
  PROVE  \E n \in Note : Grew(o, key, post, nseq + 1, n) /\ Good(n, log', seq')
<1> DEFINE e == Entry(o, key, post, nseq + 1, whose)
<1>1. PICK id \in Nat : id = nseq + 1
  BY DEF GroupsInv
<1>2. PICK sh : sh = IF key = NoKey THEN "none" ELSE Shown("none", o)
  OBVIOUS
<1>3. PICK n : n = Joined(FreshNote(id, now, key), o, post, sh)
  OBVIOUS
<1>4. e \in Stored /\ e.group = id /\ e.key = key /\ e.channel = o
  BY <1>1 DEF Entry, Stored, Keys
<1>5. now \in Nat /\ log \in Seq(Stored) /\ log' = Append(log, e)
  BY DEF GroupsInv, LogInv
<1>6. \A j \in DOMAIN log : log[j].group # id
  <2> SUFFICES ASSUME NEW j \in DOMAIN log PROVE log[j].group # id
    OBVIOUS
  <2>1. log[j] \in Stored /\ log[j].group <= nseq /\ nseq \in Nat
    BY DEF LogInv, GroupsInv
  <2>2. log[j].group \in Nat
    BY <2>1 DEF Stored
  <2> QED BY <1>1, <2>1, <2>2
<1> HIDE DEF e
<1>7. /\ n \in Note /\ n.id = id /\ n.first = now
      /\ n.posts \subseteq {[channel |-> o, post |-> post]}
      /\ o # Inbox => [channel |-> o, post |-> post] \in n.posts
      /\ Good(n, log', seq')
  <2>1. Unlogged(id, log)
    BY <1>6 DEF Unlogged
  <2>2. IsNew(n, id, now, key, o, post) /\ Good(n, Append(log, e), seq')
    BY <1>2, <1>3, <1>4, <1>5, <2>1, GoodFresh
  <2> QED BY <1>5, <2>2 DEF IsNew
<1>8. groups' = Trim(Append(groups, n), MaxGroups)
  BY <1>1, <1>2, <1>3
<1>9. PICK gs : gs = Append(groups, n)
  OBVIOUS
<1>10. /\ gs \in Seq(Note) /\ DOMAIN gs = 1..(Len(groups) + 1) /\ DOMAIN groups = 1..Len(groups)
       /\ Len(groups) \in Nat /\ Len(gs) = Len(groups) + 1 /\ gs[Len(groups) + 1] = n
       /\ \A i \in DOMAIN groups : gs[i] = groups[i]
  BY <1>7, <1>9, AppendIs DEF GroupsInv
<1>11. PICK k \in Nat : /\ Len(groups') = Len(gs) - k
                        /\ \A i \in 1..(Len(gs) - k) : i + k \in 1..Len(gs) /\ groups'[i] = gs[i + k]
  <2>1. groups' = Trim(gs, MaxGroups) /\ MaxGroups \in Nat
    BY <1>8, <1>9
  <2>2. PICK k \in Nat : Behind(groups', gs, k)
    BY <1>10, <2>1, TrimIs
  <2> QED BY <2>2 DEF Behind
<1>12. groups' \in Seq(Note)
  <2>1. groups' = Trim(gs, MaxGroups) /\ MaxGroups \in Nat
    BY <1>8, <1>9
  <2> QED BY <1>10, <2>1, TrimIs
<1>13. DOMAIN groups' = 1..(Len(gs) - k)
  BY <1>11, <1>12
<1>14. \A a \in DOMAIN groups : /\ groups[a].id \in Nat /\ groups[a].id < id
                                /\ groups[a].first \in Nat /\ groups[a].first <= now
  <2> SUFFICES ASSUME NEW a \in DOMAIN groups
               PROVE  /\ groups[a].id \in Nat /\ groups[a].id < id
                      /\ groups[a].first \in Nat /\ groups[a].first <= now
    OBVIOUS
  <2>1. groups[a] \in Note /\ groups[a].id <= nseq /\ nseq \in Nat /\ groups[a].first <= now
    BY DEF GroupsInv
  <2> QED BY <1>1, <2>1 DEF Note
<1>15. Ascending(gs)
  <2> SUFFICES ASSUME NEW a \in DOMAIN gs, NEW b \in DOMAIN gs, a < b
               PROVE  gs[a].id < gs[b].id /\ gs[a].first <= gs[b].first
    BY DEF Ascending
  <2>1. a \in DOMAIN groups
    BY <1>10
  <2>2. CASE b \in DOMAIN groups
    BY <1>10, <2>1, <2>2 DEF GroupsInv, Ascending
  <2>3. CASE b \notin DOMAIN groups
    <3>1. gs[b] = n
      BY <1>10, <2>3
    <3> QED BY <1>7, <1>10, <1>14, <2>1, <3>1
  <2> QED BY <2>2, <2>3
<1>16. Ascending(groups')
  <2> SUFFICES ASSUME NEW a \in DOMAIN groups', NEW b \in DOMAIN groups', a < b
               PROVE  groups'[a].id < groups'[b].id /\ groups'[a].first <= groups'[b].first
    BY DEF Ascending
  <2>1. /\ a + k \in DOMAIN gs /\ b + k \in DOMAIN gs /\ a + k < b + k
        /\ groups'[a] = gs[a + k] /\ groups'[b] = gs[b + k]
    <3>1. a \in 1..(Len(gs) - k) /\ b \in 1..(Len(gs) - k) /\ Len(gs) \in Nat
      BY <1>10, <1>13
    <3>2. DOMAIN gs = 1..Len(gs)
      BY <1>10
    <3>3. a + k < b + k
      BY <3>1
    <3>4. /\ a + k \in DOMAIN gs /\ groups'[a] = gs[a + k]
          /\ b + k \in DOMAIN gs /\ groups'[b] = gs[b + k]
      BY <1>11, <3>1, <3>2
    <3> QED BY <3>3, <3>4
  <2> QED BY <1>15, <2>1 DEF Ascending
<1>17. ASSUME NEW a \in DOMAIN groups'
       PROVE  groups'[a] = n \/ (groups'[a].id # id /\ \E i \in DOMAIN groups : groups'[a] = groups[i])
  <2>1. a + k \in 1..Len(gs) /\ groups'[a] = gs[a + k]
    BY <1>11, <1>13
  <2>2. CASE a + k \in DOMAIN groups
    <3>1. groups'[a] = groups[a + k]
      BY <1>10, <2>1, <2>2
    <3>2. groups[a + k].id # id
      BY <1>14, <2>2
    <3> QED BY <2>2, <3>1, <3>2
  <2>3. CASE a + k \notin DOMAIN groups
    <3>1. a + k = Len(groups) + 1
      BY <1>10, <2>1, <2>3
    <3> QED BY <1>10, <2>1, <3>1
  <2> QED BY <2>2, <2>3
<1>18. Grew(o, key, post, id, n)
  <2>1. groups' = Trim(gs, MaxGroups) /\ MaxGroups \in Nat
    BY <1>8, <1>9
  <2>2. Len(groups') <= MaxGroups
    BY <1>10, <2>1, TrimIs
  <2> QED BY <1>1, <1>5, <1>7, <1>12, <1>16, <1>17, <2>2 DEF Grew
<1> QED BY <1>1, <1>7, <1>18

\* What Store does to the lists, whether it joins or adds.
Placed(o, key, whose, post, id, n) ==
  /\ post \in Nat /\ id \in Nat /\ Grew(o, key, post, id, n) /\ Good(n, log', seq')
  /\ log' = Append(log, Entry(o, key, post, id, whose))
  /\ viewer' = Published(Len(log) + 1)
  /\ o = Inbox => channels' = channels /\ seq' = seq
  /\ o # Inbox => /\ post = seq + 1 /\ seq' = post
                  /\ channels' = [channels EXCEPT ![o] =
                                    Trim(Append(@, [seq |-> post, group |-> id]), Capacity)]

LEMMA StorePlaces ==
  ASSUME GroupsInv, LogInv, NEW o \in Outputs, NEW key \in Keys, key = NoKey => o # Inbox,
         NEW whose \in Nat, Store(o, key, whose)
  PROVE  \E post, id, n : Placed(o, key, whose, post, id, n)
<1>1. seq \in Nat /\ nseq \in Nat
  BY DEF GroupsInv
<1>2. PICK post, id :
        /\ post = IF o = Inbox THEN 0 ELSE seq + 1
        /\ log' = Append(log, Entry(o, key, post, id, whose))
        /\ viewer' = Published(Len(log) + 1)
        /\ IF o = Inbox THEN UNCHANGED <<channels, seq>>
           ELSE /\ seq' = post
                /\ channels' = [channels EXCEPT ![o] =
                                  Trim(Append(@, [seq |-> post, group |-> id]), Capacity)]
        /\ \/ /\ Matching(key, o) # {}
              /\ id = groups[Max(Matching(key, o))].id /\ nseq' = nseq
              /\ groups' = [groups EXCEPT ![Max(Matching(key, o))] =
                              Joined(@, o, post, IF key = NoKey THEN @.shows ELSE Shown(@.shows, o))]
           \/ /\ Matching(key, o) = {} /\ id = nseq + 1 /\ nseq' = nseq + 1
              /\ groups' = Trim(Append(groups, Joined(FreshNote(nseq + 1, now, key), o, post,
                                  IF key = NoKey THEN "none" ELSE Shown("none", o))), MaxGroups)
  BY StoreIs
<1>3. /\ post \in Nat /\ seq' \in Nat /\ seq <= seq' /\ post <= seq'
      /\ o = Inbox => channels' = channels /\ seq' = seq
      /\ o # Inbox => /\ post = seq + 1 /\ seq' = post
                      /\ channels' = [channels EXCEPT ![o] =
                                        Trim(Append(@, [seq |-> post, group |-> id]), Capacity)]
  BY <1>1, <1>2
<1>4. \E n : id \in Nat /\ Grew(o, key, post, id, n) /\ Good(n, log', seq')
  <2>1. CASE Matching(key, o) # {}
    <3>1. PICK i \in Matching(key, o) : i = Max(Matching(key, o))
      BY <2>1, MatchIs
    <3>2. id = groups[i].id /\ nseq' = nseq
      BY <1>2, <2>1, <3>1
    <3>3. groups' = [groups EXCEPT ![i] =
                       Joined(@, o, post, IF key = NoKey THEN @.shows ELSE Shown(@.shows, o))]
      BY <1>2, <2>1, <3>1
    <3>4. log' = Append(log, Entry(o, key, post, groups[i].id, whose))
      BY <1>2, <3>2
    <3>5. \E n \in Note : Grew(o, key, post, groups[i].id, n) /\ Good(n, log', seq')
      BY <1>3, <2>1, <3>2, <3>3, <3>4, GrewByJoining
    <3>6. id \in Nat
      <4>1. i \in DOMAIN groups
        BY <2>1, MatchIs
      <4>2. groups[i] \in Note
        BY <4>1 DEF GroupsInv
      <4> QED BY <3>2, <4>2 DEF Note
    <3> QED BY <3>2, <3>5, <3>6
  <2>2. CASE Matching(key, o) = {}
    <3>1. id = nseq + 1 /\ nseq' = nseq + 1
      BY <1>2, <2>2
    <3>2. groups' = Trim(Append(groups, Joined(FreshNote(nseq + 1, now, key), o, post,
                           IF key = NoKey THEN "none" ELSE Shown("none", o))), MaxGroups)
      BY <1>2, <2>2
    <3>3. log' = Append(log, Entry(o, key, post, nseq + 1, whose))
      BY <1>2, <3>1
    <3>4. \E n \in Note : Grew(o, key, post, nseq + 1, n) /\ Good(n, log', seq')
      BY <1>3, <2>2, <3>1, <3>2, <3>3, GrewByAdding
    <3> QED BY <1>1, <3>1, <3>4
  <2> QED BY <2>1, <2>2
<1>5. PICK n : id \in Nat /\ Grew(o, key, post, id, n) /\ Good(n, log', seq')
  BY <1>4
<1>6. Placed(o, key, whose, post, id, n)
  BY <1>2, <1>3, <1>5 DEF Placed
<1> QED BY <1>6

\* The parameters of a post that is stored.
LEMMA EntryIs ==
  ASSUME NEW o \in Outputs, NEW key \in Keys, NEW post \in Nat, NEW id \in Nat, NEW whose \in Nat
  PROVE  /\ Entry(o, key, post, id, whose) \in Stored
         /\ Entry(o, key, post, id, whose).channel = o /\ Entry(o, key, post, id, whose).key = key
         /\ Entry(o, key, post, id, whose).group = id /\ Entry(o, key, post, id, whose).whose = whose
BY DEF Entry, Stored, Keys

LEMMA GroupsStored ==
  ASSUME GroupsInv, LogInv, NEW o \in Outputs, NEW key \in Keys, NEW whose \in Nat,
         NEW post, NEW id, NEW n, Placed(o, key, whose, post, id, n), now' = now
  PROVE  GroupsInv'
<1>1. /\ post \in Nat /\ id \in Nat /\ Good(n, log', seq')
      /\ log' = Append(log, Entry(o, key, post, id, whose))
      /\ seq \in Nat /\ seq' \in Nat /\ seq <= seq' /\ nseq \in Nat /\ now \in Nat
  BY DEF Placed, GroupsInv
<1>2. /\ n \in Note /\ n.id = id /\ n.first <= now
      /\ groups' \in Seq(Note) /\ Ascending(groups')
      /\ \A k \in DOMAIN groups' :
           groups'[k] = n \/ (groups'[k].id # id /\ \E i \in DOMAIN groups : groups'[k] = groups[i])
  BY DEF Placed, Grew
<1>3. nseq' \in Nat /\ nseq <= nseq' /\ id <= nseq'
  <2>1. CASE nseq' = nseq + 1 /\ id = nseq + 1
    BY <1>1, <2>1
  <2>2. CASE \E i \in Matching(key, o) : nseq' = nseq /\ id = groups[i].id
    <3>1. PICK i \in DOMAIN groups : nseq' = nseq /\ id = groups[i].id
      BY <2>2 DEF Matching
    <3> QED BY <1>1, <3>1 DEF GroupsInv
  <2> QED BY <2>1, <2>2 DEF Placed, Grew
<1>4. PICK e \in Stored : e = Entry(o, key, post, id, whose) /\ e.group = id
  BY <1>1, EntryIs
<1>5. ASSUME NEW k \in DOMAIN groups'
      PROVE  groups'[k].id <= nseq' /\ groups'[k].first <= now /\ Good(groups'[k], log', seq')
  <2>1. CASE groups'[k] = n
    BY <1>1, <1>2, <1>3, <2>1
  <2>2. CASE groups'[k].id # id /\ \E i \in DOMAIN groups : groups'[k] = groups[i]
    <3>1. PICK i \in DOMAIN groups : groups'[k] = groups[i]
      BY <2>2
    <3>2. PICK g \in Note : g = groups[i]
      BY DEF GroupsInv
    <3>3. g.id <= nseq /\ g.first <= now /\ Good(g, log, seq) /\ g.id \in Nat
      BY <3>2 DEF GroupsInv, Note
    <3>4. log \in Seq(Stored) /\ e.group # g.id
      BY <1>4, <2>2, <3>1, <3>2 DEF LogInv
    <3>5. Good(g, Append(log, e), seq')
      BY <1>1, <3>3, <3>4, GoodOther
    <3> QED BY <1>1, <1>3, <1>4, <3>1, <3>2, <3>3, <3>5
  <2> QED BY <1>2, <2>1, <2>2
<1> QED BY <1>1, <1>2, <1>3, <1>5 DEF GroupsInv

\* A post of before keeps its name, the new one gets it.
LEMMA NamedBefore ==
  ASSUME GroupsInv, NEW o \in Outputs, NEW key \in Keys, NEW whose \in Nat, NEW post, NEW id, NEW n,
         Placed(o, key, whose, post, id, n), NEW c \in Channels, NEW p \in Kept,
         p.seq <= seq, p.group <= nseq, Named(c, p, groups)
  PROVE  Named(c, p, groups')
<1> DEFINE x == [channel |-> c, post |-> p.seq]
<1>1. x # [channel |-> o, post |-> post]
  <2>1. c # Inbox /\ p.seq \in Nat /\ seq \in Nat
    BY DEF Kept, GroupsInv
  <2>2. CASE o = Inbox
    BY <2>1, <2>2
  <2>3. CASE o # Inbox
    <3>1. post # p.seq
      BY <2>1, <2>3 DEF Placed
    <3> QED BY <3>1
  <2> QED BY <2>2, <2>3
<1> HIDE DEF x
<1>2. \A i \in DOMAIN groups : groups[i].id = p.group <=> x \in groups[i].posts
  BY DEF Named, x
<1>3. n.id = id /\ p.group \in Nat /\ nseq \in Nat
  BY DEF Placed, Grew, Kept, GroupsInv
<1>4. n.id = p.group <=> x \in n.posts
  <2>1. ASSUME NEW i \in Matching(key, o), IsJoined(n, groups[i], o, post, n.shows)
        PROVE  n.id = p.group <=> x \in n.posts
    <3>1. i \in DOMAIN groups
      BY DEF Matching
    <3>2. n.id = groups[i].id /\ (x \in n.posts <=> x \in groups[i].posts)
      BY <1>1, <2>1 DEF IsJoined
    <3> QED BY <1>2, <3>1, <3>2
  <2>2. CASE id = nseq + 1 /\ n.posts \subseteq {[channel |-> o, post |-> post]}
    <3>1. n.id # p.group
      BY <1>3, <2>2
    <3>2. x \notin n.posts
      BY <1>1, <2>2
    <3> QED BY <3>1, <3>2
  <2> QED BY <2>1, <2>2 DEF Placed, Grew
<1>5. ASSUME NEW k \in DOMAIN groups' PROVE groups'[k].id = p.group <=> x \in groups'[k].posts
  <2>1. CASE groups'[k] = n
    BY <1>4, <2>1
  <2>2. CASE \E i \in DOMAIN groups : groups'[k] = groups[i]
    BY <1>2, <2>2
  <2> QED BY <2>1, <2>2 DEF Placed, Grew
<1> QED BY <1>5 DEF Named, x

LEMMA NamedNow ==
  ASSUME GroupsInv, NEW o \in Channels, NEW key \in Keys, NEW whose \in Nat, NEW post, NEW id, NEW n,
         Placed(o, key, whose, post, id, n)
  PROVE  Named(o, [seq |-> post, group |-> id], groups')
<1> DEFINE x == [channel |-> o, post |-> post]
<1>1. o # Inbox /\ seq \in Nat /\ post = seq + 1 /\ n.id = id
  BY DEF Placed, Grew, GroupsInv
<1>2. x.post = post
  OBVIOUS
<1>3. x \in n.posts
  <2>1. ASSUME NEW i \in Matching(key, o), IsJoined(n, groups[i], o, post, n.shows)
        PROVE  x \in n.posts
    BY <1>1, <2>1 DEF IsJoined
  <2> QED BY <1>1, <2>1 DEF Placed, Grew
<1> HIDE DEF x
<1>4. ASSUME NEW k \in DOMAIN groups' PROVE groups'[k].id = id <=> x \in groups'[k].posts
  <2>1. CASE groups'[k] = n
    BY <1>1, <1>3, <2>1
  <2>2. CASE groups'[k].id # id /\ \E i \in DOMAIN groups : groups'[k] = groups[i]
    <3>1. PICK i \in DOMAIN groups : groups'[k] = groups[i]
      BY <2>2
    <3>2. x \in groups[i].posts => x.post <= seq
      BY DEF GroupsInv, Good
    <3>3. x \notin groups[i].posts
      BY <1>1, <1>2, <3>2
    <3> QED BY <2>2, <3>1, <3>3
  <2> QED BY <2>1, <2>2 DEF Placed, Grew
<1> QED BY <1>4 DEF Named, x

LEMMA ChannelsStored ==
  ASSUME GroupsInv, GroupsInv', ChannelsInv, NEW o \in Outputs, NEW key \in Keys, NEW whose \in Nat,
         NEW post, NEW id, NEW n, Placed(o, key, whose, post, id, n)
  PROVE  ChannelsInv'
<1>1. /\ post \in Nat /\ id \in Nat /\ seq \in Nat /\ seq' \in Nat /\ seq <= seq' /\ nseq \in Nat
      /\ nseq' \in Nat /\ nseq <= nseq' /\ id <= nseq'
  <2>1. post \in Nat /\ id \in Nat /\ seq \in Nat /\ seq' \in Nat /\ seq <= seq' /\ nseq \in Nat
    BY DEF Placed, GroupsInv
  <2>2. CASE nseq' = nseq + 1 /\ id = nseq + 1
    BY <2>1, <2>2
  <2>3. CASE \E i \in Matching(key, o) : nseq' = nseq /\ id = groups[i].id
    <3>1. PICK i \in DOMAIN groups : nseq' = nseq /\ id = groups[i].id
      BY <2>3 DEF Matching
    <3> QED BY <2>1, <3>1 DEF GroupsInv
  <2> QED BY <2>1, <2>2, <2>3 DEF Placed, Grew
<1>2. ASSUME NEW c \in Channels, NEW p \in Kept, p.seq <= seq, p.group <= nseq, Named(c, p, groups)
      PROVE  p.seq <= seq' /\ p.group <= nseq' /\ Named(c, p, groups')
  <2>1. p.seq \in Nat /\ p.group \in Nat
    BY DEF Kept
  <2>2. Named(c, p, groups')
    BY <1>2, NamedBefore
  <2> QED BY <1>1, <1>2, <2>1, <2>2
<1>3. ASSUME NEW c \in Channels, channels'[c] = channels[c]
      PROVE  /\ channels'[c] \in Seq(Kept)
             /\ \A k \in DOMAIN channels'[c] :
                  /\ channels'[c][k].seq <= seq' /\ channels'[c][k].group <= nseq'
                  /\ Named(c, channels'[c][k], groups')
  <2>1. channels[c] \in Seq(Kept)
    BY DEF ChannelsInv
  <2>2. ASSUME NEW k \in DOMAIN channels[c]
        PROVE  /\ channels[c][k].seq <= seq' /\ channels[c][k].group <= nseq'
               /\ Named(c, channels[c][k], groups')
    <3>1. PICK p \in Kept : p = channels[c][k]
      BY <2>1
    <3>2. p.seq <= seq /\ p.group <= nseq /\ Named(c, p, groups)
      BY <3>1 DEF ChannelsInv
    <3>3. p.seq <= seq' /\ p.group <= nseq' /\ Named(c, p, groups')
      BY <1>2, <3>2
    <3> QED BY <3>1, <3>3
  <2> QED BY <1>3, <2>1, <2>2
<1>4. ASSUME o # Inbox
      PROVE  /\ channels'[o] \in Seq(Kept)
             /\ \A k \in DOMAIN channels'[o] :
                  /\ channels'[o][k].seq <= seq' /\ channels'[o][k].group <= nseq'
                  /\ Named(o, channels'[o][k], groups')
  <2>1. o \in Channels
    BY <1>4 DEF Outputs
  <2>2. PICK q \in Kept : q = [seq |-> post, group |-> id]
    BY <1>1 DEF Kept
  <2>3. PICK s : s = Append(channels[o], q)
    OBVIOUS
  <2>4. channels[o] \in Seq(Kept) /\ s \in Seq(Kept)
    BY <2>1, <2>3 DEF ChannelsInv
  <2>5. channels'[o] = Trim(s, Capacity)
    BY <1>4, <2>1, <2>2, <2>3 DEF Placed, ChannelsInv
  <2>6. channels'[o] \in Seq(Kept)
    BY <2>4, <2>5, TrimIs
  <2>7. PICK k \in Nat : Behind(channels'[o], s, k)
    BY <2>4, <2>5, TrimIs
  <2>8. ASSUME NEW i \in DOMAIN s
        PROVE  s[i] \in Kept /\ s[i].seq <= seq' /\ s[i].group <= nseq' /\ Named(o, s[i], groups')
    <3>1. CASE i \in DOMAIN channels[o] /\ s[i] = channels[o][i]
      <4>1. PICK p \in Kept : p = s[i]
        BY <2>4, <3>1
      <4>2. p.seq <= seq /\ p.group <= nseq /\ Named(o, p, groups)
        BY <2>1, <3>1, <4>1 DEF ChannelsInv
      <4> QED BY <1>2, <2>1, <4>1, <4>2
    <3>2. CASE s[i] = q
      <4>1. Named(o, q, groups')
        BY <2>1, <2>2, NamedNow
      <4>2. q.seq = post /\ q.group = id /\ seq' = post
        BY <1>4, <2>2 DEF Placed
      <4> QED BY <1>1, <3>2, <4>1, <4>2
    <3> QED BY <2>3, <2>4, <3>1, <3>2, AppendIndex
  <2>9. ASSUME NEW j \in DOMAIN channels'[o] PROVE \E i \in DOMAIN s : channels'[o][j] = s[i]
    <3>1. j \in 1..Len(channels'[o]) /\ DOMAIN s = 1..Len(s)
      BY <2>4, <2>6
    <3> QED BY <2>7, <3>1 DEF Behind
  <2> QED BY <2>6, <2>8, <2>9
<1>5. ASSUME NEW c \in Channels
      PROVE  /\ channels'[c] \in Seq(Kept)
             /\ \A k \in DOMAIN channels'[c] :
                  /\ channels'[c][k].seq <= seq' /\ channels'[c][k].group <= nseq'
                  /\ Named(c, channels'[c][k], groups')
  <2>1. CASE o # Inbox /\ c = o
    BY <1>4, <2>1
  <2>2. CASE ~(o # Inbox /\ c = o)
    <3>1. channels'[c] = channels[c]
      BY <2>2 DEF Placed, ChannelsInv
    <3> QED BY <1>3, <3>1
  <2> QED BY <2>1, <2>2
<1>6. DOMAIN channels' = Channels /\ channels' = [c \in Channels |-> channels'[c]]
  <2>1. CASE o = Inbox
    BY <2>1 DEF Placed, ChannelsInv
  <2>2. CASE o # Inbox
    BY <2>2 DEF Placed, ChannelsInv
  <2> QED BY <2>1, <2>2
<1>7. channels' \in [Channels -> Seq(Kept)]
  BY <1>5, <1>6
<1> QED BY <1>5, <1>7 DEF ChannelsInv

\* The log gets an entry of a dispatch there was, with its message.
LEMMA LogStored ==
  ASSUME GroupsInv, GroupsInv', LogInv, NEW o \in Outputs, NEW key \in Keys, NEW whose \in Nat,
         NEW post, NEW id, NEW n, Placed(o, key, whose, post, id, n), dispatches \in Nat,
         whose <= dispatches, whose = 0 <=> key = NoKey,
         whose = dispatches /\ dispatches > 0 => key = message,
         dispatches' = dispatches, message' = message
  PROVE  LogInv'
<1>1. /\ post \in Nat /\ id \in Nat /\ nseq \in Nat /\ nseq' \in Nat /\ nseq <= nseq' /\ id <= nseq'
  <2>1. post \in Nat /\ id \in Nat /\ nseq \in Nat
    BY DEF Placed, GroupsInv
  <2>2. CASE nseq' = nseq + 1 /\ id = nseq + 1
    BY <2>1, <2>2
  <2>3. CASE \E i \in Matching(key, o) : nseq' = nseq /\ id = groups[i].id
    <3>1. PICK i \in DOMAIN groups : nseq' = nseq /\ id = groups[i].id
      BY <2>3 DEF Matching
    <3> QED BY <2>1, <3>1 DEF GroupsInv
  <2> QED BY <2>1, <2>2, <2>3 DEF Placed, Grew
<1>2. PICK e \in Stored : /\ e = Entry(o, key, post, id, whose)
                          /\ e.group = id /\ e.whose = whose /\ e.key = key
  BY <1>1, EntryIs
<1>3. log \in Seq(Stored) /\ log' = Append(log, e)
  BY <1>2 DEF LogInv, Placed
<1>4. log' \in Seq(Stored)
  BY <1>3
<1>5. ASSUME NEW j \in DOMAIN log'
      PROVE  /\ log'[j].group <= nseq' /\ log'[j].whose <= dispatches'
             /\ log'[j].whose = 0 <=> log'[j].key = NoKey
             /\ (log'[j].whose = dispatches' /\ dispatches' > 0) => log'[j].key = message'
  <2>1. CASE j \in DOMAIN log /\ log'[j] = log[j]
    <3>1. PICK f \in Stored : f = log[j]
      BY <1>3, <2>1
    <3>2. f.group \in Nat /\ f.group <= nseq
      BY <2>1, <3>1 DEF LogInv, Stored
    <3>3. f.group <= nseq'
      BY <1>1, <3>2
    <3> QED BY <2>1, <3>1, <3>3 DEF LogInv
  <2>2. CASE log'[j] = e
    BY <1>1, <1>2, <2>2
  <2> QED BY <1>3, <2>1, <2>2, AppendIndex
<1> QED BY <1>4, <1>5 DEF LogInv

\* The requests that are left are of their message still.
LEMMA RequestsStored ==
  ASSUME LogInv, RequestsInv, NEW r \in requests, NEW post \in Nat, NEW id \in Nat,
         log' = Append(log, Entry(r.channel, r.key, post, id, r.whose)),
         requests' = requests \ {r},
         dispatches' = dispatches, message' = message, now' = now, begun' = begun
  PROVE  RequestsInv'
<1>1. r.channel \in Outputs /\ r.key \in Keys /\ r.whose \in Nat
  BY DEF RequestsInv, Request, Keys
<1>2. PICK e \in Stored : /\ e = Entry(r.channel, r.key, post, id, r.whose)
                          /\ e.whose = r.whose /\ e.key = r.key
  BY <1>1, EntryIs
<1>3. log \in Seq(Stored) /\ log' = Append(log, e)
  BY <1>2 DEF LogInv
<1>4. ASSUME NEW s \in requests, NEW j \in DOMAIN log', log'[j].whose = s.whose
      PROVE  log'[j].key = s.key
  <2>1. CASE j \in DOMAIN log /\ log'[j] = log[j]
    BY <1>4, <2>1 DEF RequestsInv
  <2>2. CASE log'[j] = e
    BY <1>2, <1>4, <2>2 DEF RequestsInv
  <2> QED BY <1>3, <2>1, <2>2, AppendIndex
<1> QED BY <1>4 DEF RequestsInv, Deadline

\* The queue q holds what the page has not shown of a log of len events.
Follows(q, len, s) == q = [i \in 1..(len - s) |-> s + i]

\* The page's channel gets the event, or misses it when it is full.
LEMMA ViewerStored ==
  ASSUME LogInv, ViewerInv, NEW e \in Stored, log' = Append(log, e),
         viewer' = Published(Len(log) + 1)
  PROVE  ViewerInv'
<1>1. Len(log) \in Nat /\ Len(log') = Len(log) + 1
  BY DEF LogInv
<1>2. PICK len \in Nat : len = Len(log) /\ Len(log') = len + 1
  BY <1>1
<1>3. PICK q \in Seq(Nat) : q = viewer.queue
  BY DEF ViewerInv
<1>4. PICK s \in Nat : s = viewer.shown
  BY DEF ViewerInv
<1>5. Buffer \in Nat /\ (viewer.on /\ ~viewer.missed => s <= len) /\ Len(q) <= Buffer /\ Len(q) \in Nat
  BY <1>2, <1>3, <1>4 DEF ViewerInv
<1>6. ViewerMissesNothing <=>
        (viewer.on /\ ~viewer.missed => Follows(viewer.queue, Len(log), viewer.shown))
  BY DEF ViewerMissesNothing, Follows
<1>7. ViewerMissesNothing' <=>
        (viewer'.on /\ ~viewer'.missed => Follows(viewer'.queue, Len(log'), viewer'.shown))
  BY DEF ViewerMissesNothing, Follows
<1>8. CASE ~viewer.on
  <2>1. viewer' = viewer
    BY <1>8 DEF Published
  <2>2. ViewerMissesNothing'
    BY <1>8, <1>7, <2>1
  <2> QED BY <1>8, <2>1, <2>2 DEF ViewerInv
<1>9. CASE viewer.on /\ Len(viewer.queue) < Buffer
  <2>1. PICK q2 : q2 = Append(q, len + 1)
    OBVIOUS
  <2>2. q2 \in Seq(Nat) /\ Len(q2) = Len(q) + 1 /\ Len(q2) <= Buffer
    BY <1>3, <1>5, <1>9, <2>1
  <2>3. viewer' = [viewer EXCEPT !.queue = q2]
    BY <1>2, <1>3, <1>9, <2>1 DEF Published
  <2>4. /\ viewer' \in [on : BOOLEAN, queue : Seq(Nat), shown : Nat, missed : BOOLEAN]
        /\ viewer'.on = viewer.on /\ viewer'.queue = q2 /\ viewer'.shown = s
        /\ viewer'.missed = viewer.missed
    BY <1>4, <2>2, <2>3 DEF ViewerInv
  <2>5. ~viewer.missed => s <= len /\ viewer'.shown <= Len(log')
    BY <1>2, <1>5, <1>9, <2>4
  <2>6. ASSUME ~viewer.missed PROVE Follows(q2, len + 1, s)
    <3>0. Follows(q, len, s)
      BY <1>6, <1>2, <1>3, <1>4, <1>9, <2>6 DEF ViewerInv
    <3>1. q = [i \in 1..(len - s) |-> s + i]
      BY <3>0 DEF Follows
    <3>2. Len(q) = len - s /\ DOMAIN q = 1..(len - s)
      BY <1>5, <2>5, <2>6, <3>1
    <3>3. DOMAIN q2 = 1..(len + 1 - s)
      BY <1>5, <2>5, <2>6, <2>2, <3>2
    <3>4. ASSUME NEW i \in 1..(len + 1 - s) PROVE q2[i] = s + i
      <4>1. CASE i \in 1..(len - s)
        <5>1. q2[i] = q[i]
          BY <2>1, <3>2, <4>1
        <5> QED BY <3>1, <4>1, <5>1
      <4>2. CASE i = len + 1 - s
        <5>1. i = Len(q) + 1
          BY <1>5, <2>5, <2>6, <3>2, <4>2
        <5>2. q2[i] = len + 1
          BY <2>1, <5>1
        <5> QED BY <1>5, <2>5, <2>6, <4>2, <5>2
      <4> QED BY <1>5, <2>5, <2>6, <3>4, <4>1, <4>2
    <3> QED BY <2>2, <3>3, <3>4 DEF Follows
  <2>7. ViewerMissesNothing'
    BY <1>7, <1>2, <2>4, <2>6
  <2> QED BY <1>9, <2>2, <2>4, <2>5, <2>7 DEF ViewerInv
<1>10. CASE viewer.on /\ ~(Len(viewer.queue) < Buffer)
  <2>1. viewer' = [viewer EXCEPT !.missed = TRUE]
    BY <1>10 DEF Published
  <2>2. /\ viewer' \in [on : BOOLEAN, queue : Seq(Nat), shown : Nat, missed : BOOLEAN]
        /\ viewer'.on = viewer.on /\ viewer'.queue = q /\ viewer'.shown = s
        /\ viewer'.missed = TRUE
    BY <1>3, <1>4, <2>1 DEF ViewerInv
  <2>3. ViewerMissesNothing'
    BY <1>7, <2>2
  <2> QED BY <1>5, <1>10, <2>2, <2>3 DEF ViewerInv
<1> QED BY <1>8, <1>9, <1>10

\* No list outgrows its capacity.
LEMMA BoundsStored ==
  ASSUME GroupsInv, ChannelsInv, BoundsInv, NEW o \in Outputs, NEW key \in Keys, NEW whose \in Nat,
         NEW post, NEW id, NEW n, Placed(o, key, whose, post, id, n)
  PROVE  BoundsInv'
<1>1. Len(groups') <= MaxGroups
  BY DEF Placed, Grew, BoundsInv
<1>2. ASSUME NEW c \in Channels PROVE Len(channels'[c]) <= Capacity
  <2>1. CASE o # Inbox /\ c = o
    <3>1. PICK q \in Kept : q = [seq |-> post, group |-> id]
      BY DEF Placed, Kept
    <3>2. PICK s : s = Append(channels[o], q)
      OBVIOUS
    <3>3. s \in Seq(Kept) /\ channels'[o] = Trim(s, Capacity)
      BY <2>1, <3>1, <3>2 DEF ChannelsInv, Placed
    <3> QED BY <2>1, <3>3, TrimIs
  <2>2. CASE ~(o # Inbox /\ c = o)
    <3>1. channels'[c] = channels[c]
      BY <2>2 DEF Placed, ChannelsInv
    <3> QED BY <3>1 DEF BoundsInv
  <2> QED BY <2>1, <2>2
<1> QED BY <1>1, <1>2 DEF BoundsInv

\* A notification that was, is at least as young as before by what is logged
\* of it; one that is new is from now.
LEMMA AgeStored ==
  ASSUME GroupsInv, LogInv, RequestsInv, ClientInv, AgeInv,
         NEW o \in Outputs, NEW key \in Keys, NEW whose \in Nat, NEW post, NEW id, NEW n,
         Placed(o, key, whose, post, id, n), requests' \subseteq requests,
         dispatches' = dispatches, begun' = begun, now' = now
  PROVE  AgeInv'
<1>1. post \in Nat /\ id \in Nat /\ now \in Nat /\ begun \in Nat /\ begun <= now
  BY DEF Placed, GroupsInv, ClientInv
<1>2. PICK e \in Stored : e = Entry(o, key, post, id, whose)
  BY <1>1, EntryIs
<1>3. log \in Seq(Stored) /\ log' = Append(log, e)
  BY <1>2 DEF LogInv, Placed
<1>4. ASSUME NEW m, NEW i \in DOMAIN groups, m.id = groups[i].id, NEW d, Only(m, d, log')
      PROVE  Only(groups[i], d, log)
  <2>1. \A j \in DOMAIN log : j \in DOMAIN log' /\ log'[j] = log[j]
    BY <1>3, AppendIs
  <2> QED BY <1>4, <2>1 DEF Only
<1>5. ASSUME NEW m, NEW i \in DOMAIN groups, m.id = groups[i].id, m.first = groups[i].first
      PROVE  Aged(m, log')
  BY <1>4, <1>5 DEF AgeInv, Aged
<1>6. ASSUME NEW m, m.first = now PROVE Aged(m, log')
  BY <1>1, <1>6 DEF AgeInv, Aged
<1>7. ASSUME NEW k \in DOMAIN groups' PROVE Aged(groups'[k], log')
  <2>1. CASE groups'[k] # n
    <3>1. PICK i \in DOMAIN groups : groups'[k] = groups[i]
      BY <2>1 DEF Placed, Grew
    <3> QED BY <1>5, <3>1
  <2>2. CASE groups'[k] = n
    <3>1. CASE n.first = now
      BY <1>6, <2>2, <3>1
    <3>2. CASE \E i \in Matching(key, o) : IsJoined(n, groups[i], o, post, n.shows)
      <4>1. PICK i \in DOMAIN groups : n.id = groups[i].id /\ n.first = groups[i].first
        BY <3>2 DEF Matching, IsJoined
      <4> QED BY <1>5, <2>2, <4>1
    <3> QED BY <3>1, <3>2 DEF Placed, Grew
  <2> QED BY <2>1, <2>2
<1> QED BY <1>7 DEF AgeInv, Aged
-----------------------------------------------------------------------------
(* One notification for each dispatch *)

\* What is clean with an entry more was clean without it.
LEMMA CleanBefore ==
  ASSUME NEW lg \in Seq(Stored), NEW e \in Stored, CleanSoFar(Append(lg, e))
  PROVE  CleanSoFar(lg)
<1> DEFINE lh == Append(lg, e)
<1>1. \A j \in DOMAIN lg : j \in DOMAIN lh /\ lh[j] = lg[j] /\ lg[j] \in Stored
  BY AppendIs
<1>2. \A j \in DOMAIN lh : (j \in DOMAIN lg /\ lh[j] = lg[j]) \/ (j = Len(lg) + 1 /\ lh[j] = e)
  BY AppendIndex
<1>3. DOMAIN lg = 1..Len(lg) /\ Len(lg) \in Nat
  BY AppendIs
<1>4. CleanSoFar(lh)
  OBVIOUS
<1> HIDE DEF lh
<1>5. \A i \in OursOf(lg) : i \in OursOf(lh) /\ i \in DOMAIN lg /\ lh[i] = lg[i] /\ lg[i].whose \in Nat
  BY <1>1 DEF OursOf, Stored
<1>6. \A i, j \in OursOf(lg) : lg[i].whose = lg[j].whose /\ lg[i].channel = lg[j].channel => i = j
  BY <1>4, <1>5 DEF CleanSoFar
<1>7. \A i, j \in OursOf(lg) : i < j => lg[i].whose <= lg[j].whose
  BY <1>4, <1>5 DEF CleanSoFar
<1>8. ASSUME NEW i \in OursOf(lg), NEW o \in Outputs, NEW d \in 1..(lg[i].whose - 1)
      PROVE  \E k \in OursOf(lg) : lg[k].whose = d /\ lg[k].channel = o
  <2>1. PICK w \in Nat : w = lg[i].whose /\ w = lh[i].whose
    BY <1>5
  <2>2. d \in 1..(lh[i].whose - 1)
    BY <2>1
  <2>3. PICK k \in OursOf(lh) : lh[k].whose = d /\ lh[k].channel = o
    BY <1>4, <1>5, <2>2 DEF CleanSoFar
  <2>4. CASE k \in DOMAIN lg /\ lh[k] = lg[k]
    BY <2>3, <2>4 DEF OursOf
  <2>5. CASE k = Len(lg) + 1
    <3>1. i < k
      <4>1. i \in 1..Len(lg)
        BY <1>3, <1>5
      <4> QED BY <1>3, <2>5, <4>1
    <3>2. lh[i].whose <= lh[k].whose
      BY <1>4, <1>5, <3>1 DEF CleanSoFar
    <3>3. w <= d /\ d < w /\ d \in Nat
      BY <2>1, <2>3, <3>2
    <3> QED BY <2>1, <3>3
  <2> QED BY <1>2, <2>3, <2>4, <2>5 DEF OursOf
<1> QED BY <1>6, <1>7, <1>8 DEF CleanSoFar

\* Nor was a notification dropped before, if none is now.
LEMMA KeptBefore ==
  ASSUME GroupsInv, LogInv, NEW o \in Outputs, NEW key \in Keys, NEW whose \in Nat,
         NEW post, NEW id, NEW n, Placed(o, key, whose, post, id, n), AllKept(log', groups')
  PROVE  AllKept(log, groups)
<1>1. PICK e \in Stored : e = Entry(o, key, post, id, whose)
  BY EntryIs DEF Placed
<1>2. log \in Seq(Stored) /\ log' = Append(log, e)
  BY <1>1 DEF LogInv, Placed
<1>3. ASSUME NEW j \in OursOf(log) PROVE \E i \in DOMAIN groups : groups[i].id = log[j].group
  <2>1. j \in DOMAIN log /\ j \in DOMAIN log' /\ log'[j] = log[j]
    BY <1>2, AppendIs DEF OursOf
  <2>2. PICK k \in DOMAIN groups' : groups'[k].id = log[j].group
    BY <2>1 DEF AllKept, OursOf
  <2>3. CASE groups'[k] # n
    BY <2>2, <2>3 DEF Placed, Grew
  <2>4. CASE groups'[k] = n
    <3>1. n.id = id
      BY DEF Placed, Grew
    <3>2. CASE \E i \in Matching(key, o) : id = groups[i].id
      BY <2>2, <2>4, <3>1, <3>2 DEF Matching
    <3>3. CASE id = nseq + 1
      <4>1. log[j] \in Stored /\ log[j].group <= nseq /\ nseq \in Nat
        BY <1>2, <2>1 DEF LogInv, GroupsInv
      <4>2. log[j].group \in Nat
        BY <4>1 DEF Stored
      <4> QED BY <2>2, <2>4, <3>1, <3>3, <4>1, <4>2
    <3> QED BY <3>2, <3>3 DEF Placed, Grew
  <2> QED BY <2>3, <2>4
<1> QED BY <1>3 DEF AllKept

\* A notification is recent if it is of the dispatch that stores in time: the
\* dispatch takes no longer than the window.
LEMMA RecentIs ==
  ASSUME GroupsInv, RequestsInv, AgeInv, NEW r \in requests, r.whose # 0, now <= r.by, NEW i \in DOMAIN groups,
         Only(groups[i], r.whose, log)
  PROVE  Recent(i)
<1>1. groups \in Seq(Note) /\ now \in Nat
  BY DEF GroupsInv
<1>2. ASSUME NEW j \in DOMAIN groups PROVE groups[j].first \in Nat
  <2>1. groups[j] \in Note
    BY <1>1
  <2> QED BY <2>1 DEF Note
<1>3. now - groups[i].first <= Budget /\ Budget <= Window /\ Budget \in Nat /\ Window \in Nat
  <2>1. r.by <= groups[i].first + Budget
    BY DEF AgeInv, Aged
  <2>2. r.by \in Nat
    BY DEF RequestsInv, Request
  <2>3. PICK a \in Nat, b \in Nat : a = groups[i].first /\ b = r.by
    BY <1>2, <2>2
  <2> QED BY <1>1, <2>1, <2>3
<1>4. ASSUME NEW j \in i..Len(groups) PROVE now - groups[j].first <= Window
  <2>1. i \in Nat /\ j \in Nat /\ j \in DOMAIN groups /\ i <= j
    BY <1>1
  <2>2. groups[i].first <= groups[j].first
    <3>1. CASE i = j
      BY <1>2, <2>1, <3>1
    <3>2. CASE i # j
      BY <2>1, <3>2 DEF GroupsInv, Ascending
    <3> QED BY <3>1, <3>2
  <2>3. PICK a \in Nat, b \in Nat : a = groups[i].first /\ b = groups[j].first
    BY <1>2, <2>1
  <2>4. now - a <= Budget /\ a <= b
    BY <1>3, <2>2, <2>3
  <2>5. now - b <= Window
    BY <1>1, <1>3, <2>3, <2>4
  <2> QED BY <2>3, <2>5
<1> QED BY <1>4 DEF Recent

\* If the log is clean with the new entry and no notification was dropped, the
\* post goes to the notification of its dispatch, and to no other.
LEMMA ApartStored ==
  ASSUME GroupsInv, LogInv, RequestsInv, AgeInv, NEW r \in requests, r.whose # 0, now <= r.by,
         NEW post, NEW id, NEW n, Placed(r.channel, r.key, r.whose, post, id, n),
         CleanSoFar(log'), Apart(log), AllKept(log, groups)
  PROVE  Apart(log')
<1>1. PICK d \in Nat, o \in Outputs, key \in Keys :
        d = r.whose /\ o = r.channel /\ key = r.key /\ d # 0 /\ key # NoKey
  BY DEF RequestsInv, Request, Keys
<1>2. PICK e \in Stored : /\ e = Entry(o, key, post, id, d)
                          /\ e.group = id /\ e.channel = o /\ e.whose = d
  <2>1. post \in Nat /\ id \in Nat
    BY DEF Placed
  <2> QED BY <2>1, EntryIs
<1>3. log \in Seq(Stored) /\ log' = Append(log, e)
  BY <1>1, <1>2 DEF LogInv, Placed
<1>4. PICK last \in Nat : last = Len(log) + 1
  BY <1>3
<1>5. /\ \A j \in OursOf(log) : /\ j \in DOMAIN log /\ j \in OursOf(log') /\ log'[j] = log[j]
                                /\ j < last
      /\ last \in OursOf(log') /\ log'[last] = e
      /\ \A j \in OursOf(log') : j \in OursOf(log) \/ j = last
  <2>1. DOMAIN log = 1..Len(log) /\ DOMAIN log' = 1..last /\ Len(log) \in Nat
    BY <1>3, <1>4, AppendIs
  <2>2. log'[last] = e /\ \A j \in DOMAIN log : log'[j] = log[j]
    BY <1>3, <1>4, AppendIs
  <2>3. \A j \in DOMAIN log' : j \in DOMAIN log \/ j = last
    BY <1>4, <2>1
  <2>4. \A j \in DOMAIN log : j \in DOMAIN log' /\ j < last
    BY <1>4, <2>1
  <2>5. last \in DOMAIN log'
    BY <1>4, <2>1
  <2> QED BY <1>1, <1>2, <2>2, <2>3, <2>4, <2>5 DEF OursOf
<1>6. ASSUME NEW i \in DOMAIN groups, NEW j \in DOMAIN log, groups[i].key = key,
             log[j].group = groups[i].id
      PROVE  j \in OursOf(log)
  <2>1. log[j].key = key
    BY <1>6 DEF GroupsInv, Good
  <2> QED BY <1>1, <2>1 DEF LogInv, OursOf
<1>7. ASSUME NEW i \in Matching(key, o)
      PROVE  i \in DOMAIN groups /\ groups[i].key = key /\ ~Taken(groups[i], o)
  BY DEF Matching
<1>8. ASSUME NEW i \in Matching(key, o), NEW j \in OursOf(log), log[j].group = groups[i].id
      PROVE  log[j].whose = d
  <2> SUFFICES ASSUME log[j].whose # d PROVE FALSE
    OBVIOUS
  <2>1. PICK w \in Nat : w = log[j].whose /\ w # 0
    <3>1. log[j] \in Stored /\ log[j].whose # 0
      BY <1>3, <1>5 DEF OursOf
    <3> QED BY <3>1 DEF Stored
  <2>2. w <= d
    BY <1>2, <1>5, <2>1 DEF CleanSoFar
  <2>3. w \in 1..(d - 1)
    BY <2>1, <2>2
  <2>4. PICK k \in OursOf(log') : log'[k].whose = w /\ log'[k].channel = o
    BY <1>2, <1>5, <2>3 DEF CleanSoFar
  <2>5. k \in OursOf(log) /\ log[k].whose = w /\ log[k].channel = o
    BY <1>2, <1>5, <2>1, <2>4
  <2>6. log[k].group = groups[i].id
    BY <1>8, <2>1, <2>5 DEF Apart
  <2>7. Taken(groups[i], o)
    BY <1>5, <1>7, <2>5, <2>6 DEF GroupsInv, Good
  <2> QED BY <1>7, <2>7
<1>9. ASSUME NEW j \in OursOf(log), log[j].whose = d
      PROVE  \E i \in Matching(key, o) : groups[i].id = log[j].group
  <2>1. PICK i \in DOMAIN groups : groups[i].id = log[j].group
    BY DEF AllKept
  <2>2. log[j].key = key /\ groups[i].key = key
    <3>1. j \in DOMAIN log /\ log[j].whose = r.whose
      BY <1>1, <1>5, <1>9
    <3>2. log[j].key = key
      BY <1>1, <3>1 DEF RequestsInv
    <3> QED BY <2>1, <3>1, <3>2 DEF GroupsInv, Good
  <2>3. ~Taken(groups[i], o)
    <3> SUFFICES ASSUME Taken(groups[i], o) PROVE FALSE
      OBVIOUS
    <3>1. PICK k \in DOMAIN log : log[k].group = groups[i].id /\ log[k].channel = o
      BY DEF GroupsInv, Good
    <3>2. k \in OursOf(log) /\ log[k].whose = d
      BY <1>6, <1>9, <2>1, <2>2, <3>1 DEF Apart
    <3>3. k \in OursOf(log') /\ log'[k].whose = d /\ log'[k].channel = o /\ k < last
      BY <1>5, <3>1, <3>2
    <3>4. k = last
      BY <1>2, <1>5, <3>3 DEF CleanSoFar
    <3> QED BY <1>4, <3>3, <3>4
  <2>4. Only(groups[i], d, log)
    BY <1>6, <1>9, <2>1, <2>2 DEF Only, Apart
  <2>5. Recent(i)
    BY <1>1, <2>4, RecentIs
  <2> QED BY <1>1, <2>1, <2>2, <2>3, <2>5 DEF Matching
<1>10. ASSUME NEW j \in OursOf(log), log[j].group = id PROVE log[j].whose = d
  <2>1. CASE \E i \in Matching(key, o) : id = groups[i].id
    BY <1>8, <1>10, <2>1
  <2>2. CASE id = nseq + 1
    <3>1. log[j] \in Stored /\ log[j].group <= nseq /\ nseq \in Nat
      <4>1. j \in DOMAIN log
        BY <1>5
      <4>2. log[j] \in Stored
        BY <1>3, <4>1
      <4> QED BY <4>1, <4>2 DEF LogInv, GroupsInv
    <3>2. log[j].group \in Nat
      BY <3>1 DEF Stored
    <3> QED BY <1>10, <2>2, <3>1, <3>2
  <2> QED BY <1>1, <2>1, <2>2 DEF Placed, Grew
<1>11. ASSUME NEW j \in OursOf(log), log[j].whose = d PROVE log[j].group = id
  <2>1. Matching(key, o) # {}
    BY <1>9, <1>11
  <2>2. PICK x \in Matching(key, o) : id = groups[x].id
    BY <1>1, <2>1 DEF Placed, Grew
  <2>3. PICK y \in Outputs : Taken(groups[x], y)
    BY <1>7 DEF GroupsInv, Good
  <2>4. PICK k \in DOMAIN log : log[k].group = groups[x].id
    BY <1>7, <2>3 DEF GroupsInv, Good
  <2>5. k \in OursOf(log) /\ log[k].whose = d
    BY <1>6, <1>7, <1>8, <2>4
  <2>6. log[k].group = log[j].group
    BY <1>11, <2>5 DEF Apart
  <2> QED BY <2>2, <2>4, <2>6
<1>12. ASSUME NEW i \in OursOf(log'), NEW j \in OursOf(log')
       PROVE  log'[i].whose = log'[j].whose <=> log'[i].group = log'[j].group
  <2>1. CASE i \in OursOf(log) /\ j \in OursOf(log)
    BY <1>5, <2>1 DEF Apart
  <2>2. CASE i \in OursOf(log) /\ j = last
    BY <1>2, <1>5, <1>10, <1>11, <2>2
  <2>3. CASE i = last /\ j \in OursOf(log)
    BY <1>2, <1>5, <1>10, <1>11, <2>3
  <2>4. CASE i = last /\ j = last
    BY <2>4
  <2> QED BY <1>5, <2>1, <2>2, <2>3, <2>4
<1> QED BY <1>12 DEF Apart

\* A stranger's entry changes nothing.
LEMMA ApartBeside ==
  ASSUME NEW lg \in Seq(Stored), NEW e \in Stored, e.whose = 0, Apart(lg)
  PROVE  Apart(Append(lg, e))
<1> DEFINE lh == Append(lg, e)
<1>1. \A j \in DOMAIN lh : (j \in DOMAIN lg /\ lh[j] = lg[j]) \/ lh[j] = e
  BY AppendIndex
<1> HIDE DEF lh
<1>2. \A j \in OursOf(lh) : j \in OursOf(lg) /\ lh[j] = lg[j]
  BY <1>1 DEF OursOf
<1>3. Apart(lh)
  BY <1>2 DEF Apart
<1> QED BY <1>3 DEF lh

LEMMA GroupingStored ==
  ASSUME GroupsInv, LogInv, RequestsInv, AgeInv, GroupingInv, NEW r \in requests,
         NEW post, NEW id, NEW n, Placed(r.channel, r.key, r.whose, post, id, n),
         late' = (late \/ (r.whose # 0 /\ now > r.by))
  PROVE  GroupingInv'
<1>0. late' \in BOOLEAN /\ (~late' => ~late /\ (r.whose # 0 => now <= r.by))
  <2>1. now \in Nat /\ r.by \in Nat
    BY DEF GroupsInv, RequestsInv, Request
  <2>2. late \in BOOLEAN
    BY DEF GroupingInv
  <2>3. CASE r.whose # 0 /\ now > r.by
    <3>1. late' = TRUE
      BY <2>3
    <3> QED BY <3>1
  <2>4. CASE ~(r.whose # 0 /\ now > r.by)
    <3>1. late' = late
      BY <2>2, <2>4
    <3>2. r.whose # 0 => now <= r.by
      BY <2>1, <2>4
    <3> QED BY <2>2, <3>1, <3>2
  <2> QED BY <2>3, <2>4
<1> SUFFICES ASSUME CleanSoFar(log'), ~late', AllKept(log', groups') PROVE Apart(log')
  BY <1>0 DEF GroupingInv
<1>1. r.channel \in Outputs /\ r.key \in Keys /\ r.whose \in Nat
  BY DEF RequestsInv, Request, Keys
<1>2. PICK e \in Stored : e = Entry(r.channel, r.key, post, id, r.whose) /\ e.whose = r.whose
  BY <1>1, EntryIs DEF Placed
<1>3. log \in Seq(Stored) /\ log' = Append(log, e)
  BY <1>2 DEF LogInv, Placed
<1>4. CleanSoFar(log)
  BY <1>3, CleanBefore
<1>5. AllKept(log, groups)
  BY <1>1, KeptBefore
<1>6. Apart(log)
  BY <1>0, <1>4, <1>5 DEF GroupingInv
<1>7. CASE r.whose = 0
  BY <1>2, <1>3, <1>6, <1>7, ApartBeside
<1>8. CASE r.whose # 0
  BY <1>0, <1>5, <1>6, <1>8, ApartStored
<1> QED BY <1>7, <1>8
-----------------------------------------------------------------------------
(* The steps *)

LEMMA InitInv == Init => Inv
<1> SUFFICES ASSUME Init PROVE Inv
  OBVIOUS
<1>1. GroupsInv
  BY DEF Init, GroupsInv, Ascending
<1>2. ChannelsInv
  <2>1. << >> \in Seq(Kept) /\ DOMAIN << >> = {}
    OBVIOUS
  <2>2. \A c \in Channels : channels[c] = << >>
    BY DEF Init
  <2>3. channels \in [Channels -> Seq(Kept)]
    BY <2>1 DEF Init
  <2> QED BY <2>1, <2>2, <2>3 DEF ChannelsInv
<1>3. LogInv /\ RequestsInv /\ AgeInv
  BY DEF Init, LogInv, RequestsInv, AgeInv
<1>4. ClientInv
  BY DEF Init, ClientInv, NoFault, Keys
<1>5. ViewerInv
  BY DEF Init, ViewerInv, ViewerMissesNothing
<1>6. BoundsInv
  BY DEF Init, BoundsInv
<1>7. GroupingInv
  <2>1. log = << >> /\ late = FALSE
    BY DEF Init
  <2>2. OursOf(log) = {}
    BY <2>1 DEF OursOf
  <2> QED BY <2>1, <2>2 DEF GroupingInv, Apart
<1> QED BY <1>1, <1>2, <1>3, <1>4, <1>5, <1>6, <1>7 DEF Inv

\* Time passes, the store rests.
LEMMA StoreRests ==
  ASSUME Inv, UNCHANGED store, now' \in Nat, now <= now'
  PROVE  GroupsInv' /\ ChannelsInv' /\ GroupingInv' /\ ViewerInv' /\ BoundsInv'
<1>1. GroupsInv'
  <2>1. \A i \in DOMAIN groups : groups[i].first <= now'
    <3> SUFFICES ASSUME NEW i \in DOMAIN groups PROVE groups[i].first <= now'
      OBVIOUS
    <3>1. groups[i] \in Note /\ groups[i].first <= now /\ now \in Nat
      BY DEF Inv, GroupsInv
    <3>2. groups[i].first \in Nat
      BY <3>1 DEF Note
    <3> QED BY <3>1, <3>2
  <2> QED BY <2>1 DEF Inv, GroupsInv, Ascending, store
<1>2. ChannelsInv'
  BY DEF Inv, ChannelsInv, Named, store
<1>3. GroupingInv'
  BY DEF Inv, GroupingInv, store
<1>4. ViewerInv'
  BY DEF Inv, ViewerInv, ViewerMissesNothing, store
<1>5. BoundsInv'
  BY DEF Inv, BoundsInv, store
<1> QED BY <1>1, <1>2, <1>3, <1>4, <1>5

\* The dispatch is the same, and no request came.
LEMMA NoRequest ==
  ASSUME Inv, requests' \subseteq requests,
         UNCHANGED <<dispatches, message, begun, now, log, nseq, groups>>
  PROVE  LogInv' /\ RequestsInv' /\ AgeInv'
<1>1. LogInv'
  BY DEF Inv, LogInv
<1>2. RequestsInv'
  BY DEF Inv, RequestsInv, Deadline
<1>3. AgeInv'
  BY DEF Inv, AgeInv, Aged
<1> QED BY <1>1, <1>2, <1>3

LEMMA FailStep ==
  ASSUME Inv, NEW o \in Outputs, pc[o] = "asking", Fail(o), others' \in Nat,
         UNCHANGED <<dispatches, message, begun, now, tries, faults>>
  PROVE  ClientInv'
<1>1. PICK s \in {"ready", "failed"} :
        pc' = [pc EXCEPT ![o] = s] /\ (s = "ready" => tries[o] < Attempts)
  BY DEF Fail
<1>2. pc \in [Outputs -> {"ready", "asking", "done", "failed"}]
  BY DEF Inv, ClientInv
<1>3. /\ pc' \in [Outputs -> {"ready", "asking", "done", "failed"}]
      /\ pc'[o] = s /\ \A x \in Outputs \ {o} : pc'[x] = pc[x]
  BY <1>1, <1>2
<1>4. \A x \in Outputs : pc'[x] \in {"ready", "asking"} => dispatches > 0 /\ now <= Deadline
  BY <1>3 DEF Inv, ClientInv
<1>5. \A x \in Outputs : pc'[x] = "ready" => tries[x] < Attempts
  BY <1>1, <1>3 DEF Inv, ClientInv
<1> QED BY <1>3, <1>4, <1>5 DEF Inv, ClientInv, Deadline

\* An output is done with its part of the dispatch.
LEMMA EndStep ==
  ASSUME Inv, NEW o \in Outputs, NEW s \in {"done", "failed"}, pc' = [pc EXCEPT ![o] = s],
         others' = others, UNCHANGED <<dispatches, message, begun, now, tries, faults>>
  PROVE  ClientInv'
<1>1. pc \in [Outputs -> {"ready", "asking", "done", "failed"}]
  BY DEF Inv, ClientInv
<1>2. /\ pc' \in [Outputs -> {"ready", "asking", "done", "failed"}]
      /\ pc'[o] = s /\ \A x \in Outputs \ {o} : pc'[x] = pc[x]
  BY <1>1
<1>3. \A x \in Outputs : pc'[x] \in {"ready", "asking"} => dispatches > 0 /\ now <= Deadline
  BY <1>2 DEF Inv, ClientInv
<1>4. \A x \in Outputs : pc'[x] = "ready" => tries[x] < Attempts
  BY <1>2 DEF Inv, ClientInv
<1> QED BY <1>2, <1>3, <1>4 DEF Inv, ClientInv, Deadline

LEMMA ClientRests ==
  ASSUME Inv, others' \in Nat, UNCHANGED <<dispatches, message, begun, now, tries, pc>>,
         faults' \in [Channels -> [status : BOOLEAN, delay : Nat, count : Nat]]
  PROVE  ClientInv'
BY DEF Inv, ClientInv, Deadline

\* What happens besides is counted.
LEMMA OthersGrow == ASSUME Inv, others' = others + 1 PROVE others' \in Nat
BY DEF Inv, ClientInv

\* The store gets the post of a request.
LEMMA AcceptStep ==
  ASSUME Inv, NEW r \in requests, Accept(r)
  PROVE  Inv'
<1>1. /\ r.channel \in Outputs /\ r.key \in Keys /\ r.whose \in Nat
      /\ r.whose <= dispatches /\ (r.whose = 0 <=> r.key = NoKey)
      /\ (r.whose = 0 => r.channel \in Hooks)
      /\ (r.whose = dispatches /\ dispatches > 0 => r.key = message)
  BY DEF Inv, RequestsInv, Request, Keys
<1>2. r.key = NoKey => r.channel # Inbox
  BY <1>1 DEF Channels
<1>3. /\ requests' = requests \ {r} /\ Store(r.channel, r.key, r.whose)
      /\ late' = (late \/ (r.whose # 0 /\ now > r.by))
      /\ pc' = IF Awaited(r) THEN [pc EXCEPT ![r.channel] = "done"] ELSE pc
      /\ UNCHANGED <<now, faults, message, begun, dispatches, tries, others>>
  BY DEF Accept
<1>4. GroupsInv /\ ChannelsInv /\ LogInv /\ ClientInv /\ RequestsInv /\ AgeInv
      /\ GroupingInv /\ ViewerInv /\ BoundsInv
  BY DEF Inv
<1>5. PICK post, id, n : Placed(r.channel, r.key, r.whose, post, id, n)
  BY <1>1, <1>2, <1>3, <1>4, StorePlaces
<1>6. post \in Nat /\ id \in Nat
  BY <1>5 DEF Placed
<1>7. GroupsInv'
  BY <1>1, <1>3, <1>4, <1>5, GroupsStored
<1>8. ChannelsInv'
  BY <1>1, <1>4, <1>5, <1>7, ChannelsStored
<1>9. LogInv'
  BY <1>1, <1>3, <1>4, <1>5, <1>7, LogStored DEF ClientInv
<1>10. RequestsInv'
  <2>1. log' = Append(log, Entry(r.channel, r.key, post, id, r.whose))
    BY <1>5 DEF Placed
  <2> QED BY <1>3, <1>4, <1>6, <2>1, RequestsStored
<1>11. AgeInv'
  <2>1. requests' \subseteq requests
    BY <1>3
  <2> QED BY <1>1, <1>3, <1>4, <1>5, <2>1, AgeStored
<1>12. GroupingInv'
  BY <1>3, <1>4, <1>5, GroupingStored
<1>13. ViewerInv'
  <2>1. PICK e \in Stored : e = Entry(r.channel, r.key, post, id, r.whose)
    BY <1>1, <1>6, EntryIs
  <2>2. log' = Append(log, e) /\ viewer' = Published(Len(log) + 1)
    BY <1>5, <2>1 DEF Placed
  <2> QED BY <1>4, <2>2, ViewerStored
<1>14. BoundsInv'
  BY <1>1, <1>4, <1>5, BoundsStored
<1>15. ClientInv'
  <2>1. CASE Awaited(r)
    <3>1. pc' = [pc EXCEPT ![r.channel] = "done"]
      BY <1>3, <2>1
    <3> QED BY <1>1, <1>3, <3>1, EndStep
  <2>2. CASE ~Awaited(r)
    <3>1. pc' = pc
      BY <1>3, <2>2
    <3> QED BY <1>3, <1>4, <3>1 DEF ClientInv, Deadline
  <2> QED BY <2>1, <2>2
<1> QED BY <1>7, <1>8, <1>9, <1>10, <1>11, <1>12, <1>13, <1>14, <1>15 DEF Inv

LEMMA ClearStep ==
  ASSUME Inv, NEW some, NEW all \in BOOLEAN, Clear(some, all)
  PROVE  Inv'
<1>1. /\ others' = others + 1 /\ groups' = IF all THEN << >> ELSE groups
      /\ channels' = [c \in Channels |-> IF c \in some THEN << >> ELSE channels[c]]
      /\ UNCHANGED <<now, nseq, seq, viewer, log, late, faults, requests, client>>
  BY DEF Clear
<1>2. groups' \in Seq(Note) /\ (groups' = groups \/ groups' = << >>)
  BY <1>1 DEF Inv, GroupsInv
<1>3. GroupsInv'
  <2>1. CASE groups' = groups
    BY <1>1, <2>1 DEF Inv, GroupsInv, Ascending
  <2>2. CASE groups' = << >>
    <3>1. DOMAIN groups' = {}
      BY <2>2
    <3> QED BY <1>1, <1>2, <3>1 DEF Inv, GroupsInv, Ascending
  <2> QED BY <1>2, <2>1, <2>2
<1>4. \A c \in Channels : channels'[c] = << >> \/ channels'[c] = channels[c]
  BY <1>1
<1>5. ChannelsInv'
  <2>1. channels' \in [Channels -> Seq(Kept)]
    <3>1. << >> \in Seq(Kept)
      OBVIOUS
    <3>2. \A c \in Channels : channels[c] \in Seq(Kept)
      BY DEF Inv, ChannelsInv
    <3> QED BY <1>1, <3>1, <3>2
  <2>2. ASSUME NEW c \in Channels, NEW k \in DOMAIN channels'[c]
        PROVE  /\ channels'[c][k].seq <= seq' /\ channels'[c][k].group <= nseq'
               /\ Named(c, channels'[c][k], groups')
    <3>1. channels'[c] = channels[c]
      <4>1. channels'[c] # << >>
        BY <2>2
      <4> QED BY <1>4, <4>1
    <3>2. /\ channels[c][k].seq <= seq /\ channels[c][k].group <= nseq
          /\ Named(c, channels[c][k], groups)
      BY <2>2, <3>1 DEF Inv, ChannelsInv
    <3>3. Named(c, channels[c][k], groups')
      <4>1. CASE groups' = groups
        BY <3>2, <4>1
      <4>2. CASE groups' = << >>
        BY <4>2 DEF Named
      <4> QED BY <1>2, <4>1, <4>2
    <3> QED BY <1>1, <3>1, <3>2, <3>3
  <2> QED BY <2>1, <2>2 DEF ChannelsInv
<1>6. LogInv' /\ RequestsInv'
  <2>1. LogInv'
    BY <1>1 DEF Inv, LogInv, client
  <2>2. RequestsInv'
    BY <1>1 DEF Inv, RequestsInv, Deadline, client
  <2> QED BY <2>1, <2>2
<1>7. AgeInv'
  <2>1. CASE groups' = groups
    BY <1>1, <2>1 DEF Inv, AgeInv, Aged, client
  <2>2. CASE groups' = << >>
    BY <1>1, <2>2 DEF Inv, AgeInv
  <2> QED BY <1>2, <2>1, <2>2
<1>8. ClientInv'
  BY <1>1, OthersGrow, ClientRests DEF Inv, ClientInv, client
<1>9. GroupingInv'
  <2>1. CASE groups' = groups
    BY <1>1, <2>1 DEF Inv, GroupingInv
  <2>2. CASE groups' = << >>
    <3>1. AllKept(log, groups') => OursOf(log) = {}
      BY <2>2 DEF AllKept
    <3>2. OursOf(log) = {} => Apart(log)
      BY DEF Apart
    <3> QED BY <1>1, <3>1, <3>2 DEF Inv, GroupingInv
  <2> QED BY <1>2, <2>1, <2>2
<1>10. ViewerInv'
  BY <1>1 DEF Inv, ViewerInv, ViewerMissesNothing
<1>11. BoundsInv'
  <2>1. Len(groups') <= MaxGroups
    BY <1>2 DEF Inv, BoundsInv
  <2>2. \A c \in Channels : Len(channels'[c]) <= Capacity
    BY <1>4 DEF Inv, BoundsInv
  <2> QED BY <2>1, <2>2 DEF BoundsInv
<1> QED BY <1>3, <1>5, <1>6, <1>7, <1>8, <1>9, <1>10, <1>11 DEF Inv

\* The page comes, goes, and shows the next event.
LEMMA PageStep ==
  ASSUME Inv, Subscribe \/ Unsubscribe \/ Show
  PROVE  Inv'
<1>1. /\ UNCHANGED <<now, groups, nseq, channels, seq, log, late, faults, requests, client>>
      /\ others' \in Nat
  BY DEF Subscribe, Unsubscribe, Show, Inv, ClientInv
<1>2. GroupsInv' /\ ChannelsInv' /\ GroupingInv' /\ BoundsInv'
  BY <1>1 DEF Inv, GroupsInv, Ascending, ChannelsInv, Named, GroupingInv, BoundsInv
<1>3. LogInv' /\ RequestsInv' /\ AgeInv'
  BY <1>1, NoRequest DEF client
<1>4. ClientInv'
  BY <1>1, ClientRests DEF Inv, ClientInv, client
<1>5. ViewerMissesNothing' <=>
        (viewer'.on /\ ~viewer'.missed => Follows(viewer'.queue, Len(log'), viewer'.shown))
  BY DEF ViewerMissesNothing, Follows
<1>6. PICK len \in Nat : len = Len(log) /\ len = Len(log')
  BY <1>1 DEF Inv, LogInv
<1>7. Buffer \in Nat
  OBVIOUS
<1>8. ASSUME Subscribe PROVE ViewerInv'
  <2>1. viewer' = [on |-> TRUE, queue |-> << >>, shown |-> len, missed |-> FALSE]
    BY <1>6, <1>8 DEF Subscribe
  <2>2. Follows(<< >>, len, len)
    <3>1. 1..(len - len) = {}
      OBVIOUS
    <3> QED BY <3>1 DEF Follows
  <2>3. << >> \in Seq(Nat) /\ Len(<< >>) <= Buffer
    BY <1>7
  <2>4. ViewerMissesNothing'
    BY <1>5, <1>6, <2>1, <2>2
  <2>5. /\ viewer' \in [on : BOOLEAN, queue : Seq(Nat), shown : Nat, missed : BOOLEAN]
        /\ viewer'.on = TRUE /\ viewer'.queue = << >> /\ viewer'.shown = len
    BY <2>1, <2>3
  <2>6. len <= len
    OBVIOUS
  <2> QED BY <1>6, <2>3, <2>4, <2>5, <2>6 DEF ViewerInv
<1>9. ASSUME Unsubscribe PROVE ViewerInv'
  <2>1. viewer' = [on |-> FALSE, queue |-> << >>, shown |-> 0, missed |-> FALSE]
    BY <1>9 DEF Unsubscribe
  <2>2. << >> \in Seq(Nat) /\ Len(<< >>) <= Buffer
    BY <1>7
  <2>3. ViewerMissesNothing'
    BY <1>5, <2>1
  <2>4. /\ viewer' \in [on : BOOLEAN, queue : Seq(Nat), shown : Nat, missed : BOOLEAN]
        /\ viewer'.on = FALSE /\ viewer'.queue = << >>
    BY <2>1, <2>2
  <2> QED BY <2>2, <2>3, <2>4 DEF ViewerInv
<1>10. ASSUME Show PROVE ViewerInv'
  <2>1. PICK q \in Seq(Nat) : q = viewer.queue
    BY DEF Inv, ViewerInv
  <2>2. PICK s \in Nat : s = viewer.shown
    BY DEF Inv, ViewerInv
  <2>3. q # << >> /\ Len(q) \in Nat \ {0} /\ Len(q) <= Buffer
    BY <1>10, <2>1 DEF Show, Inv, ViewerInv
  <2>4. PICK t \in Seq(Nat) : t = Tail(q)
    <3>1. Tail(q) \in Seq(Nat)
      BY <2>3
    <3> QED BY <3>1
  <2>5. PICK h \in Nat : h = Head(q) /\ h = q[1]
    BY <2>3
  <2>6. viewer' = [viewer EXCEPT !.queue = t, !.shown = h]
    BY <1>10, <2>1, <2>4, <2>5 DEF Show
  <2>7. /\ viewer' \in [on : BOOLEAN, queue : Seq(Nat), shown : Nat, missed : BOOLEAN]
        /\ viewer'.on = viewer.on /\ viewer'.queue = t /\ viewer'.shown = h
        /\ viewer'.missed = viewer.missed
    BY <2>6 DEF Inv, ViewerInv
  <2>8. Len(t) = Len(q) - 1 /\ \A i \in 1..Len(t) : t[i] = q[i + 1]
    BY <2>3, <2>4
  <2>9. viewer.on
    <3>1. viewer.queue # << >>
      BY <2>1, <2>3
    <3> QED BY <3>1 DEF Inv, ViewerInv
  <2>10. ASSUME ~viewer.missed PROVE h <= len /\ Follows(t, len, h)
    <3>1. q = [i \in 1..(len - s) |-> s + i] /\ s <= len
      <4>1. Follows(viewer.queue, Len(log), viewer.shown)
        BY <2>9, <2>10 DEF Inv, ViewerInv, ViewerMissesNothing, Follows
      <4>2. Follows(q, len, s)
        BY <1>6, <2>1, <2>2, <4>1
      <4>3. s <= len
        BY <1>6, <2>2, <2>9, <2>10 DEF Inv, ViewerInv
      <4> QED BY <4>2, <4>3 DEF Follows
    <3>2. DOMAIN q = 1..(len - s) /\ Len(q) = len - s
      BY <3>1
    <3>3. h = s + 1
      BY <2>3, <2>5, <3>1, <3>2
    <3>4. h <= len /\ Len(t) = len - h
      BY <2>3, <2>8, <3>1, <3>2, <3>3
    <3>5. ASSUME NEW i \in 1..(len - h) PROVE t[i] = h + i
      <4>1. t[i] = q[i + 1] /\ i + 1 \in 1..(len - s)
        <5>1. i \in 1..Len(t) /\ i + 1 \in 1..(len - s)
          BY <3>3, <3>4
        <5> QED BY <2>8, <5>1
      <4>2. q[i + 1] = s + (i + 1)
        BY <3>1, <4>1
      <4> QED BY <3>3, <4>1, <4>2
    <3>6. DOMAIN t = 1..(len - h)
      BY <2>4, <3>4
    <3>7. t = [i \in 1..(len - h) |-> h + i]
      <4>1. t \in Seq(Nat)
        OBVIOUS
      <4> QED BY <3>5, <3>6, <4>1
    <3> QED BY <3>4, <3>7 DEF Follows
  <2>11. ViewerMissesNothing'
    BY <1>5, <1>6, <2>7, <2>10
  <2>12. (viewer'.on /\ ~viewer'.missed) => viewer'.shown <= Len(log')
    BY <1>6, <2>7, <2>10
  <2>13. Len(viewer'.queue) <= Buffer
    BY <2>3, <2>7, <2>8
  <2>14. (viewer'.on /\ ~viewer'.missed => viewer'.shown <= Len(log'))
         /\ (~viewer'.on => viewer'.queue = << >>)
    BY <2>7, <2>9, <2>12
  <2> QED BY <2>7, <2>11, <2>13, <2>14 DEF ViewerInv
<1> QED BY <1>2, <1>3, <1>4, <1>8, <1>9, <1>10 DEF Inv

\* The faults that are left are faults.
LEMMA FaultsTaken ==
  ASSUME Inv, NEW C, TakeFaults(C)
  PROVE  faults' \in [Channels -> [status : BOOLEAN, delay : Nat, count : Nat]]
<1> DEFINE F == [status : BOOLEAN, delay : Nat, count : Nat]
<1>1. ASSUME NEW f \in F PROVE CountedDown(f) \in F
  <2>1. CASE f.count = 0
    BY <2>1 DEF CountedDown
  <2>2. CASE f.count = 1
    BY <2>2 DEF CountedDown, NoFault
  <2>3. CASE f.count # 0 /\ f.count # 1
    <3>1. PICK n \in Nat : n = f.count - 1
      BY <2>3
    <3>2. CountedDown(f) = [f EXCEPT !.count = n]
      BY <2>3, <3>1 DEF CountedDown
    <3> QED BY <3>2
  <2> QED BY <2>1, <2>2, <2>3
<1>2. faults \in [Channels -> F]
  BY DEF Inv, ClientInv
<1> HIDE DEF F
<1>3. faults' = [c \in Channels |-> IF c \in C THEN CountedDown(faults[c]) ELSE faults[c]]
  BY DEF TakeFaults
<1>4. \A c \in Channels : faults'[c] \in F
  BY <1>1, <1>2, <1>3
<1>5. faults' \in [Channels -> F]
  BY <1>3, <1>4
<1> QED BY <1>5 DEF F

\* A request that is new.
LEMMA ReceivedIs ==
  ASSUME Inv, NEW O \in SUBSET Outputs, NEW key \in Keys, NEW whose \in Nat, NEW try \in Nat,
         NEW by \in Nat, Received(O, key, whose, try, by)
  PROVE  /\ \A r \in requests' : r \in requests \/
              (r \in Request /\ r.channel \in O /\ r.key = key /\ r.whose = whose /\ r.by = by)
         /\ TakeFaults(O \ {Inbox})
<1>1. now \in Nat /\ faults \in [Channels -> [status : BOOLEAN, delay : Nat, count : Nat]]
  BY DEF Inv, ClientInv, GroupsInv
<1>2. ASSUME NEW o \in O
      PROVE  FaultAt(o).status \in BOOLEAN /\ now + FaultAt(o).delay \in Nat
  <2>1. CASE o = Inbox
    BY <1>1, <2>1 DEF FaultAt, NoFault
  <2>2. CASE o # Inbox
    <3>1. o \in Channels
      BY <2>2 DEF Outputs
    <3>2. PICK f \in [status : BOOLEAN, delay : Nat, count : Nat] : f = FaultAt(o)
      BY <1>1, <2>2, <3>1 DEF FaultAt
    <3> QED BY <1>1, <3>2
  <2> QED BY <2>1, <2>2
<1>3. ASSUME NEW r \in requests', r \notin requests
      PROVE  r \in Request /\ r.channel \in O /\ r.key = key /\ r.whose = whose /\ r.by = by
  <2>1. PICK o \in O : r = [channel |-> o, key |-> key, whose |-> whose, try |-> try, by |-> by,
                            refuse |-> FaultAt(o).status, until |-> now + FaultAt(o).delay]
    BY <1>3 DEF Received
  <2>2. PICK ref \in BOOLEAN, till \in Nat : ref = FaultAt(o).status /\ till = now + FaultAt(o).delay
    BY <1>2
  <2>3. r = [channel |-> o, key |-> key, whose |-> whose, try |-> try, by |-> by,
            refuse |-> ref, until |-> till]
    BY <2>1, <2>2
  <2>4. r \in Request
    BY <2>3 DEF Request, Keys
  <2> QED BY <2>3, <2>4
<1> QED BY <1>3 DEF Received

LEMMA DispatchStep ==
  ASSUME Inv, NEW m \in Messages, Dispatch(m)
  PROVE  Inv'
<1>1. /\ dispatches' = dispatches + 1 /\ message' = m /\ begun' = now
      /\ Received(Outputs, m, dispatches + 1, 1, now + Budget)
      /\ pc' = [o \in Outputs |-> "asking"] /\ tries' = [o \in Outputs |-> 1]
      /\ UNCHANGED <<now, store, others>>
  BY DEF Dispatch
<1>2. PICK d \in Nat : d = dispatches /\ dispatches' = d + 1
  BY <1>1 DEF Inv, ClientInv
<1>3. now \in Nat /\ now' = now /\ log' = log /\ groups' = groups /\ nseq' = nseq
  BY <1>1 DEF Inv, GroupsInv, store
<1>4. GroupsInv' /\ ChannelsInv' /\ GroupingInv' /\ ViewerInv' /\ BoundsInv'
  BY <1>1, <1>3, StoreRests
<1>5. /\ \A r \in requests' : r \in requests \/
           (r \in Request /\ r.key = m /\ r.whose = d + 1 /\ r.channel \in Outputs
            /\ r.by = now + Budget)
      /\ TakeFaults(Outputs \ {Inbox})
  <2>1. m \in Keys /\ d + 1 \in Nat /\ 1 \in Nat /\ now + Budget \in Nat /\ Outputs \in SUBSET Outputs
    BY <1>3 DEF Keys
  <2>2. Received(Outputs, m, d + 1, 1, now + Budget)
    BY <1>1, <1>2
  <2>3. /\ \A r \in requests' : r \in requests \/
              (r \in Request /\ r.channel \in Outputs /\ r.key = m /\ r.whose = d + 1
               /\ r.by = now + Budget)
        /\ TakeFaults(Outputs \ {Inbox})
    BY <2>1, <2>2, ReceivedIs
  <2> QED BY <2>3
<1>6. \A j \in DOMAIN log : log[j].whose # d + 1 /\ log[j].whose \in Nat
  <2> SUFFICES ASSUME NEW j \in DOMAIN log PROVE log[j].whose # d + 1 /\ log[j].whose \in Nat
    OBVIOUS
  <2>1. log[j] \in Stored /\ log[j].whose <= d
    BY <1>2 DEF Inv, LogInv
  <2>2. log[j].whose \in Nat
    BY <2>1 DEF Stored
  <2> QED BY <2>1, <2>2
<1>7. \A r \in requests : r \in Request /\ r.whose \in Nat /\ r.whose <= d /\ r.whose # d + 1
  <2> SUFFICES ASSUME NEW r \in requests
               PROVE  r \in Request /\ r.whose \in Nat /\ r.whose <= d /\ r.whose # d + 1
    OBVIOUS
  <2>1. r \in Request /\ r.whose <= d
    BY <1>2 DEF Inv, RequestsInv
  <2>2. r.whose \in Nat
    BY <2>1 DEF Request
  <2> QED BY <2>1, <2>2
<1>8. LogInv'
  <2>1. ASSUME NEW j \in DOMAIN log
        PROVE  /\ log[j].group <= nseq /\ log[j].whose <= d + 1
               /\ log[j].whose = 0 <=> log[j].key = NoKey
    <3>1. log[j].whose <= d /\ log[j].whose \in Nat
      BY <1>2, <1>6 DEF Inv, LogInv
    <3>2. log[j].whose <= d + 1
      BY <3>1
    <3> QED BY <3>2 DEF Inv, LogInv
  <2>2. log \in Seq(Stored)
    BY DEF Inv, LogInv
  <2> QED BY <1>2, <1>3, <1>6, <2>1, <2>2 DEF LogInv
<1>9. RequestsInv'
  <2>1. requests' \subseteq Request
    BY <1>5, <1>7
  <2>3. ASSUME NEW r \in requests', r \in requests
        PROVE  /\ r.whose <= d + 1 /\ (r.whose = 0 <=> r.key = NoKey)
               /\ (r.whose = 0 => r.channel \in Hooks) /\ r.whose # d + 1
               /\ \A s \in requests' : s.whose = r.whose => s.key = r.key
               /\ \A j \in DOMAIN log : log[j].whose = r.whose => log[j].key = r.key
    <3>1. r.whose <= d + 1
      BY <1>7, <2>3
    <3>2. \A s \in requests' : s.whose = r.whose => s \in requests
      BY <1>5, <1>7, <2>3
    <3> QED BY <1>7, <2>3, <3>1, <3>2 DEF Inv, RequestsInv
  <2>4. ASSUME NEW r \in requests', r.key = m, r.whose = d + 1
        PROVE  /\ r.whose <= d + 1 /\ (r.whose = 0 <=> r.key = NoKey)
               /\ (r.whose = 0 => r.channel \in Hooks)
               /\ \A s \in requests' : s.whose = r.whose => s.key = r.key
               /\ \A j \in DOMAIN log : log[j].whose = r.whose => log[j].key = r.key
    <3>1. \A s \in requests' : s.whose = r.whose => s.key = m
      BY <1>5, <1>7, <2>4
    <3>2. m # NoKey /\ d + 1 # 0
      OBVIOUS
    <3> QED BY <1>6, <2>4, <3>1, <3>2
  <2>5. ASSUME NEW r \in requests'
        PROVE  /\ r.whose <= d + 1 /\ (r.whose = 0 <=> r.key = NoKey)
               /\ (r.whose = 0 => r.channel \in Hooks)
               /\ (r.whose = d + 1 => r.key = m)
               /\ \A s \in requests' : s.whose = r.whose => s.key = r.key
               /\ \A j \in DOMAIN log : log[j].whose = r.whose => log[j].key = r.key
    BY <1>5, <2>3, <2>4
  <2> QED BY <1>1, <1>2, <1>3, <2>1, <2>5 DEF RequestsInv
<1>10. AgeInv'
  <2>1. ASSUME NEW i \in DOMAIN groups, Only(groups[i], d + 1, log) PROVE FALSE
    <3>1. \E j \in DOMAIN log : log[j].group = groups[i].id
      BY DEF Inv, GroupsInv, Good
    <3> QED BY <1>6, <2>1, <3>1 DEF Only
  <2>2. now + Budget <= now + Budget
    BY <1>3
  <2> QED BY <1>2, <1>3, <1>5, <2>1, <2>2 DEF Inv, AgeInv, Aged
<1>11. ClientInv'
  <2>1. faults' \in [Channels -> [status : BOOLEAN, delay : Nat, count : Nat]]
    BY <1>5, FaultsTaken
  <2>2. tries' \in [Outputs -> 0..Attempts]
    BY <1>1
  <2>3. /\ pc' \in [Outputs -> {"ready", "asking", "done", "failed"}]
        /\ \A o \in Outputs : pc'[o] = "asking"
    BY <1>1
  <2>4. Deadline' = now + Budget /\ now <= now + Budget
    BY <1>1, <1>3 DEF Deadline
  <2>5. d + 1 > 0 /\ d + 1 \in Nat /\ m \in Keys /\ now <= now /\ others' \in Nat
    BY <1>1, <1>3 DEF Keys, Inv, ClientInv
  <2> QED BY <1>1, <1>2, <1>3, <2>1, <2>2, <2>3, <2>4, <2>5 DEF ClientInv
<1> QED BY <1>4, <1>8, <1>9, <1>10, <1>11 DEF Inv

LEMMA ResendStep ==
  ASSUME Inv, NEW o \in Outputs, Resend(o)
  PROVE  Inv'
<1>1. /\ pc[o] = "ready" /\ now < Deadline
      /\ Received({o}, message, dispatches, tries[o] + 1, Deadline)
      /\ pc' = [pc EXCEPT ![o] = "asking"] /\ tries' = [tries EXCEPT ![o] = @ + 1]
      /\ UNCHANGED <<now, store, message, begun, dispatches, others>>
  BY DEF Resend
<1>2. /\ dispatches \in Nat /\ dispatches > 0 /\ message \in Messages /\ tries[o] \in Nat
      /\ tries[o] + 1 \in 0..Attempts
  BY <1>1 DEF Inv, ClientInv
<1>3. now \in Nat /\ begun \in Nat /\ now' = now /\ log' = log /\ groups' = groups
  BY <1>1 DEF Inv, GroupsInv, ClientInv, store
<1>4. GroupsInv' /\ ChannelsInv' /\ GroupingInv' /\ ViewerInv' /\ BoundsInv'
  BY <1>1, <1>3, StoreRests
<1>5. /\ \A r \in requests' : r \in requests \/
           (r \in Request /\ r.channel \in {o} /\ r.key = message /\ r.whose = dispatches
            /\ r.by = Deadline)
      /\ TakeFaults({o} \ {Inbox})
  <2>1. message \in Keys /\ tries[o] + 1 \in Nat /\ Deadline \in Nat /\ {o} \in SUBSET Outputs
    BY <1>2, <1>3 DEF Keys, Deadline
  <2> QED BY <1>1, <1>2, <2>1, ReceivedIs
<1>6. LogInv'
  BY <1>1 DEF Inv, LogInv, store
<1>7. RequestsInv'
  <2>1. requests' \subseteq Request
    BY <1>5 DEF Inv, RequestsInv
  <2>3. message # NoKey /\ dispatches # 0
    BY <1>2
  <2>4. \A r \in requests' : r.whose = dispatches => r.key = message
    BY <1>2, <1>5 DEF Inv, RequestsInv
  <2>5. ASSUME NEW r \in requests'
        PROVE  /\ r.whose <= dispatches /\ (r.whose = 0 <=> r.key = NoKey)
               /\ (r.whose = 0 => r.channel \in Hooks)
               /\ \A s \in requests' : s.whose = r.whose => s.key = r.key
               /\ \A j \in DOMAIN log : log[j].whose = r.whose => log[j].key = r.key
    <3>1. CASE r.whose = dispatches
      <4>1. r.key = message
        BY <2>4, <3>1
      <4>2. \A j \in DOMAIN log : log[j].whose = r.whose => log[j].key = r.key
        BY <1>2, <3>1, <4>1 DEF Inv, LogInv
      <4>3. \A s \in requests' : s.whose = r.whose => s.key = r.key
        BY <2>4, <3>1, <4>1
      <4>4. r.whose <= dispatches
        BY <1>2, <3>1
      <4> QED BY <2>3, <3>1, <4>1, <4>2, <4>3, <4>4
    <3>2. CASE r.whose # dispatches
      <4>1. r \in requests /\ \A s \in requests' : s.whose = r.whose => s \in requests
        BY <1>5, <3>2
      <4> QED BY <4>1 DEF Inv, RequestsInv
    <3> QED BY <3>1, <3>2
  <2> QED BY <1>1, <1>3, <2>1, <2>4, <2>5 DEF RequestsInv
<1>8. AgeInv'
  <2>1. ASSUME NEW i \in DOMAIN groups, Only(groups[i], dispatches, log)
        PROVE  Deadline <= groups[i].first + Budget
    <3>1. begun <= groups[i].first
      BY <1>2, <2>1 DEF Inv, AgeInv, Aged
    <3>2. groups[i] \in Note
      BY DEF Inv, GroupsInv
    <3>3. PICK f \in Nat : f = groups[i].first
      BY <3>2 DEF Note
    <3> QED BY <1>1, <1>3, <3>1, <3>3 DEF Deadline
  <2>2. Deadline <= now + Budget
    BY <1>3 DEF Deadline, Inv, ClientInv
  <2> QED BY <1>1, <1>3, <1>5, <2>1, <2>2 DEF Inv, AgeInv, Aged
<1>9. ClientInv'
  <2>1. faults' \in [Channels -> [status : BOOLEAN, delay : Nat, count : Nat]]
    BY <1>5, FaultsTaken
  <2>2. /\ tries' \in [Outputs -> 0..Attempts]
        /\ \A x \in Outputs \ {o} : tries'[x] = tries[x]
    <3>1. PICK t \in 0..Attempts : t = tries[o] + 1
      BY <1>2
    <3>2. tries \in [Outputs -> 0..Attempts] /\ tries' = [tries EXCEPT ![o] = t]
      BY <1>1, <3>1 DEF Inv, ClientInv
    <3> QED BY <3>2
  <2>3. /\ pc' \in [Outputs -> {"ready", "asking", "done", "failed"}]
        /\ pc'[o] = "asking" /\ \A x \in Outputs \ {o} : pc'[x] = pc[x]
    BY <1>1 DEF Inv, ClientInv
  <2>4. now <= Deadline /\ Deadline' = Deadline
    BY <1>1, <1>3 DEF Deadline
  <2>5. \A x \in Outputs : pc'[x] \in {"ready", "asking"} => dispatches > 0 /\ now <= Deadline
    BY <1>2, <2>4
  <2>6. \A x \in Outputs : pc'[x] = "ready" => tries'[x] < Attempts
    BY <2>2, <2>3 DEF Inv, ClientInv
  <2> QED BY <1>1, <2>1, <2>2, <2>3, <2>4, <2>5, <2>6 DEF Inv, ClientInv
<1> QED BY <1>4, <1>6, <1>7, <1>8, <1>9 DEF Inv

LEMMA StrangerStep ==
  ASSUME Inv, NEW c \in Hooks, StrangerPosts(c)
  PROVE  Inv'
<1>1. /\ others' = others + 1 /\ Received({c}, NoKey, 0, others, now)
      /\ UNCHANGED <<now, store, client>>
  BY DEF StrangerPosts
<1>2. /\ now \in Nat /\ dispatches \in Nat /\ others \in Nat
      /\ now' = now /\ log' = log /\ groups' = groups /\ dispatches' = dispatches
  BY <1>1 DEF Inv, GroupsInv, ClientInv, store, client
<1>3. GroupsInv' /\ ChannelsInv' /\ GroupingInv' /\ ViewerInv' /\ BoundsInv'
  BY <1>1, <1>2, StoreRests
<1>4. /\ \A r \in requests' : r \in requests \/
           (r \in Request /\ r.channel \in {c} /\ r.key = NoKey /\ r.whose = 0)
      /\ TakeFaults({c} \ {Inbox})
  <2>1. NoKey \in Keys /\ {c} \in SUBSET Outputs /\ 0 \in Nat
    BY DEF Keys, Outputs, Channels
  <2>2. Received({c}, NoKey, 0, others, now) /\ others \in Nat /\ now \in Nat
    BY <1>1, <1>2
  <2>3. /\ \A r \in requests' : r \in requests \/
              (r \in Request /\ r.channel \in {c} /\ r.key = NoKey /\ r.whose = 0 /\ r.by = now)
        /\ TakeFaults({c} \ {Inbox})
    BY <2>1, <2>2, ReceivedIs
  <2> QED BY <2>3
<1>5. LogInv'
  BY <1>1 DEF Inv, LogInv, store, client
<1>6. RequestsInv'
  <2>1. requests' \subseteq Request
    BY <1>4 DEF Inv, RequestsInv
  <2>2. \A r \in requests' : r.whose = 0 <=> r.key = NoKey
    BY <1>4 DEF Inv, RequestsInv
  <2>3. \A j \in DOMAIN log : log[j].whose = 0 => log[j].key = NoKey
    BY DEF Inv, LogInv
  <2>4. ASSUME NEW r \in requests'
        PROVE  /\ r.whose <= dispatches /\ (r.whose = 0 => r.channel \in Hooks)
               /\ (r.whose = dispatches /\ dispatches > 0 => r.key = message)
               /\ \A s \in requests' : s.whose = r.whose => s.key = r.key
               /\ \A j \in DOMAIN log : log[j].whose = r.whose => log[j].key = r.key
    <3>1. CASE r.whose = 0
      <4>1. r.channel \in Hooks
        BY <1>4, <3>1 DEF Inv, RequestsInv
      <4> QED BY <1>2, <2>2, <2>3, <3>1, <4>1
    <3>2. CASE r.whose # 0
      <4>1. r \in requests /\ \A s \in requests' : s.whose = r.whose => s \in requests
        BY <1>4, <3>2
      <4> QED BY <4>1 DEF Inv, RequestsInv
    <3> QED BY <3>1, <3>2
  <2> QED BY <1>1, <1>2, <2>1, <2>2, <2>4 DEF RequestsInv, client
<1>7. AgeInv'
  BY <1>1, <1>2, <1>4 DEF Inv, AgeInv, Aged, client
<1>8. ClientInv'
  <2>1. faults' \in [Channels -> [status : BOOLEAN, delay : Nat, count : Nat]]
    BY <1>4, FaultsTaken
  <2> QED BY <1>1, <2>1, OthersGrow, ClientRests DEF store, client
<1> QED BY <1>3, <1>5, <1>6, <1>7, <1>8 DEF Inv

\* Time stops for what is due: a dispatch that waits is in its budget.
LEMMA TickStep ==
  ASSUME Inv, Tick
  PROVE  Inv'
<1>1. /\ Over \/ now < Deadline
      /\ now' = now + 1
      /\ UNCHANGED <<store, faults, requests, client, others>>
  BY DEF Tick
<1>2. /\ now \in Nat /\ now + 1 \in Nat /\ now <= now + 1 /\ begun \in Nat /\ begun <= now
      /\ Deadline' = Deadline /\ Deadline \in Nat
  BY <1>1 DEF Inv, GroupsInv, ClientInv, client, Deadline
<1>3. GroupsInv' /\ ChannelsInv' /\ GroupingInv' /\ ViewerInv' /\ BoundsInv'
  BY <1>1, <1>2, StoreRests
<1>4. LogInv'
  BY <1>1 DEF Inv, LogInv, store, client
<1>5. ASSUME NEW o \in Outputs, pc[o] \in {"ready", "asking"} PROVE now' <= Deadline
  <2>1. ~Over
    BY <1>5 DEF Over
  <2> QED BY <1>1, <1>2, <2>1
<1>7. RequestsInv'
  BY <1>1 DEF Inv, RequestsInv, store, client
<1>8. AgeInv'
  <2>1. ASSUME NEW r \in requests, r.whose # 0 PROVE r.by <= now' + Budget
    <3>1. r.by <= now + Budget /\ r.by \in Nat
      BY <2>1 DEF Inv, AgeInv, RequestsInv, Request
    <3> QED BY <1>1, <1>2, <3>1
  <2> QED BY <1>1, <2>1 DEF Inv, AgeInv, Aged, store, client
<1>9. ClientInv'
  <2>1. begun <= now'
    BY <1>1, <1>2
  <2> QED BY <1>1, <1>2, <1>5, <2>1 DEF Inv, ClientInv, client
<1> QED BY <1>3, <1>4, <1>7, <1>8, <1>9 DEF Inv

\* Steps that neither post nor store.
LEMMA QuietStep ==
  ASSUME Inv, UNCHANGED <<now, store, dispatches, message, begun>>, requests' \subseteq requests,
         ClientInv'
  PROVE  Inv'
<1>1. GroupsInv' /\ ChannelsInv' /\ GroupingInv' /\ ViewerInv' /\ BoundsInv'
  BY StoreRests DEF Inv, GroupsInv
<1>2. LogInv' /\ RequestsInv' /\ AgeInv'
  BY NoRequest DEF store
<1> QED BY <1>1, <1>2 DEF Inv

LEMMA ClientSteps ==
  ASSUME Inv, NEW o \in Outputs, GiveUp(o) \/ Expire(o)
  PROVE  Inv'
<1>1. ClientInv'
  <2>1. CASE GiveUp(o)
    BY <2>1, OthersGrow, FailStep DEF GiveUp
  <2>2. CASE Expire(o)
    BY <2>2, EndStep DEF Expire
  <2> QED BY <2>1, <2>2
<1> QED BY <1>1, QuietStep DEF GiveUp, Expire

LEMMA RequestSteps ==
  ASSUME Inv, NEW r \in requests, Refuse(r) \/ Abandon(r)
  PROVE  Inv'
<1>1. ClientInv'
  <2>1. CASE Refuse(r) /\ Awaited(r)
    <3>1. r.channel \in Outputs /\ pc[r.channel] = "asking" /\ Fail(r.channel)
      BY <2>1 DEF Refuse, Awaited, Inv, RequestsInv, Request
    <3>2. others' \in Nat /\ UNCHANGED <<dispatches, message, begun, now, tries, faults>>
      BY <2>1 DEF Refuse, Inv, ClientInv
    <3> QED BY <3>1, <3>2, FailStep
  <2>2. CASE (Refuse(r) /\ ~Awaited(r)) \/ Abandon(r)
    BY <2>2, ClientRests DEF Refuse, Abandon, client, Inv, ClientInv
  <2> QED BY <2>1, <2>2
<1> QED BY <1>1, QuietStep DEF Refuse, Abandon, client

LEMMA FaultSteps ==
  ASSUME Inv, NEW c \in Channels, ClearFault(c) \/ \E f \in Faults : SetFault(c, f)
  PROVE  Inv'
<1>1. PICK f \in [status : BOOLEAN, delay : Nat, count : Nat] : faults' = [faults EXCEPT ![c] = f]
  BY DEF ClearFault, SetFault, NoFault
<1>2. faults' \in [Channels -> [status : BOOLEAN, delay : Nat, count : Nat]]
  BY <1>1 DEF Inv, ClientInv
<1>3. others' = others + 1 /\ UNCHANGED <<now, store, requests, client>>
  BY DEF ClearFault, SetFault
<1>4. ClientInv'
  BY <1>2, <1>3, OthersGrow, ClientRests DEF client
<1> QED BY <1>3, <1>4, QuietStep DEF client

LEMMA InvStep == Inv /\ [Next]_vars => Inv'
<1> SUFFICES ASSUME Inv, [Next]_vars PROVE Inv'
  OBVIOUS
<1>1. CASE \E m \in Messages : Dispatch(m)
  BY <1>1, DispatchStep
<1>2. CASE \E o \in Outputs : Resend(o) \/ GiveUp(o) \/ Expire(o)
  BY <1>2, ResendStep, ClientSteps
<1>3. CASE \E c \in Hooks : StrangerPosts(c)
  BY <1>3, StrangerStep
<1>4. CASE ServerStep
  BY <1>4, AcceptStep, RequestSteps DEF ServerStep
<1>5. CASE \E c \in Channels : ClearFault(c) \/ \E f \in Faults : SetFault(c, f)
  BY <1>5, FaultSteps
<1>6. CASE (\E some \in {{c} : c \in Channels} \cup {Cards, Hooks} : Clear(some, FALSE))
           \/ Clear(Channels, TRUE)
  BY <1>6, ClearStep
<1>7. CASE Subscribe \/ Unsubscribe \/ Show
  BY <1>7, PageStep
<1>8. CASE Tick
  BY <1>8, TickStep
<1>9. CASE UNCHANGED vars
  <2>1. UNCHANGED <<now, store, dispatches, message, begun, requests>>
    BY <1>9 DEF vars, client
  <2>2. ClientInv'
    BY <1>9, ClientRests DEF vars, client, Inv, ClientInv
  <2> QED BY <2>1, <2>2, QuietStep
<1> QED BY <1>1, <1>2, <1>3, <1>4, <1>5, <1>6, <1>7, <1>8, <1>9 DEF Next

LEMMA InvHolds == Spec => []Inv
BY InitInv, InvStep, PTL DEF Spec
-----------------------------------------------------------------------------
(* The theorems *)

\* Every variable has its type, the lists stay within their capacities, and
\* ids and times grow along the notifications.
THEOREM TypeCorrect == Spec => []TypeOK
<1>1. Inv => TypeOK
  <2> SUFFICES ASSUME Inv PROVE TypeOK
    OBVIOUS
  <2>1. now \in Nat /\ nseq \in Nat /\ seq \in Nat /\ Ascending(groups)
    BY DEF Inv, GroupsInv
  <2>2. Len(groups) <= MaxGroups /\ \A c \in Channels : Len(channels[c]) <= Capacity
    BY DEF Inv, BoundsInv
  <2>3. Len(viewer.queue) <= Buffer /\ requests \subseteq Request /\ log \in Seq(Stored)
    BY DEF Inv, ViewerInv, RequestsInv, LogInv
  <2>4. /\ pc \in [Outputs -> {"ready", "asking", "done", "failed"}]
        /\ tries \in [Outputs -> 0..Attempts]
    BY DEF Inv, ClientInv
  <2>5. late \in BOOLEAN
    BY DEF Inv, GroupingInv
  <2> QED BY <2>1, <2>2, <2>3, <2>4, <2>5 DEF TypeOK, Ascending
<1> QED BY <1>1, InvHolds, PTL

\* The page misses no event as long as its channel never was full: publish
\* drops an event only when it is.
THEOREM PageMissesNothing == Spec => []ViewerMissesNothing
<1>1. Inv => ViewerMissesNothing
  BY DEF Inv, ViewerInv
<1> QED BY <1>1, InvHolds, PTL

\* However posts are repeated, retried, late or dropped, a notification is of
\* one message, has each channel once and shows what its posts call for, and
\* every post that is kept names the notification that lists it.
THEOREM OneMessageHolds == Spec => []OneMessageEach
<1>1. Inv => OneMessageEach
  <2> SUFFICES ASSUME Inv PROVE OneMessageEach
    OBVIOUS
  <2>1. ASSUME NEW i \in DOMAIN groups, NEW n, n = groups[i]
        PROVE  /\ \A p, q \in n.posts : p.channel = q.channel => p = q
               /\ \A j \in DOMAIN log : log[j].group = n.id => log[j].key = n.key
               /\ n.key = NoKey => Cardinality(n.posts) = 1 /\ ~n.inbox
               /\ n.shows = Shows(n)
    <3>1. Good(n, log, seq)
      BY <2>1 DEF Inv, GroupsInv
    <3>2. n.key = NoKey => Cardinality(n.posts) = 1
      BY <3>1, FS_Singleton DEF Good
    <3> QED BY <3>1, <3>2 DEF Good
  <2>2. \A c \in Channels : \A k \in DOMAIN channels[c] : Named(c, channels[c][k], groups)
    BY DEF Inv, ChannelsInv
  <2> QED BY <2>1, <2>2 DEF OneMessageEach, Shows, Named
<1> QED BY <1>1, InvHolds, PTL

\* Each dispatch becomes one notification of its own, whatever order and
\* retries its posts came in, if every post was stored once, before the budget
\* of its dispatch was over, and no notification was dropped: the window is no
\* shorter than the budget.
THEOREM NotificationsHold == Spec => []NotificationPerDispatch
<1>1. Inv => NotificationPerDispatch
  <2> SUFFICES ASSUME Inv, Clean, \A i \in Ours : log[i].group \in KeptIds
               PROVE  \A i, j \in Ours : log[i].whose = log[j].whose <=> log[i].group = log[j].group
    BY DEF NotificationPerDispatch
  <2>1. log \in Seq(Stored) /\ Ours = OursOf(log) /\ dispatches \in Nat
    BY DEF Inv, LogInv, ClientInv, Ours, OursOf
  <2>2. AllKept(log, groups)
    BY <2>1 DEF AllKept, KeptIds
  <2>3. ASSUME NEW i \in OursOf(log)
        PROVE  i \in DOMAIN log /\ log[i].channel \in Outputs /\ log[i].whose \in 1..dispatches
    <3>1. log[i] \in Stored /\ log[i].whose # 0 /\ log[i].whose <= dispatches
      BY <2>1 DEF OursOf, Inv, LogInv
    <3>2. log[i].whose \in Nat /\ log[i].channel \in Outputs
      BY <3>1 DEF Stored
    <3> QED BY <2>1, <3>1, <3>2 DEF OursOf
  <2>4. \A d \in 1..dispatches, o \in Outputs : IsFiniteSet(Stores(d, o))
    <3>1. IsFiniteSet(DOMAIN log)
      BY <2>1, FS_Interval
    <3> QED BY <3>1, FS_Subset DEF Stores
  <2>5. ASSUME NEW i \in OursOf(log), NEW j \in OursOf(log), log[i].whose = log[j].whose,
               log[i].channel = log[j].channel
        PROVE  i = j
    <3>1. PICK d \in 1..dispatches, o \in Outputs : d = log[i].whose /\ o = log[i].channel
      BY <2>3
    <3>2. i \in Stores(d, o) /\ j \in Stores(d, o)
      BY <2>3, <2>5, <3>1 DEF Stores
    <3>3. Cardinality(Stores(d, o)) = 1
      BY <3>2 DEF Clean
    <3>4. PICK x : Stores(d, o) = {x}
      BY <2>4, <3>3, FS_Singleton
    <3> QED BY <3>2, <3>4
  <2>6. ASSUME NEW i \in OursOf(log), NEW o \in Outputs, NEW d \in 1..(log[i].whose - 1)
        PROVE  \E k \in OursOf(log) : log[k].whose = d /\ log[k].channel = o
    <3>1. PICK w \in 1..dispatches : w = log[i].whose
      BY <2>3
    <3>2. d \in 1..dispatches /\ d # dispatches /\ d # 0
      BY <2>1, <3>1
    <3>3. Cardinality(Stores(d, o)) = 1
      BY <3>2 DEF Clean
    <3>4. PICK x : Stores(d, o) = {x}
      BY <2>4, <3>2, <3>3, FS_Singleton
    <3> QED BY <3>2, <3>4 DEF Stores, OursOf
  <2>7. CleanSoFar(log)
    BY <2>1, <2>5, <2>6 DEF Clean, CleanSoFar
  <2>8. ~late
    BY DEF Clean
  <2> QED BY <2>1, <2>2, <2>7, <2>8 DEF Inv, GroupingInv, Apart
<1> QED BY <1>1, InvHolds, PTL
-----------------------------------------------------------------------------
(* assert-card, which polls the sink's list (AssertCard.tla)                  *)

USE AssertAssumption DEF AssertAssumption

PollTypes ==
  /\ clock \in Nat /\ matching \in Nat /\ up \in BOOLEAN
  /\ phase \in {"asking", "listed", "pausing", "passed", "failed", "rejected"}
  /\ since \in Nat /\ listing \in Nat /\ polls \in Nat /\ found \in Nat
  /\ lastErr \in {"none", "sink", "deadline"}
  /\ goodSince \in Nat \cup {-1} /\ had \in BOOLEAN /\ blamed \in BOOLEAN

\* An action of the sink, of the client, or time.
LEMMA PollCases ==
  ASSUME PollTypes, [AssertNext]_assertVars
  PROVE  \/ \E m \in Nat, u \in BOOLEAN : SinkChanges(m, u)
         \/ Lists \/ Receive \/ Fails \/ CutOff \/ Reject
         \/ AskAgain \/ TimeOut \/ PassTime
         \/ UNCHANGED assertVars
<1>1. CASE Change
  <2>1. matching + 1 \in Nat /\ 0 \in Nat /\ (matching > 0 => matching - 1 \in Nat)
    BY DEF PollTypes
  <2>2. up \in BOOLEAN /\ (~up) \in BOOLEAN
    BY DEF PollTypes
  <2> QED BY <1>1, <2>1, <2>2 DEF Change, PollTypes
<1> QED BY <1>1 DEF AssertNext, Step

\* Every step keeps the types.
LEMMA PollTypesStep == PollTypes /\ [AssertNext]_assertVars => PollTypes'
<1> SUFFICES ASSUME PollTypes, [AssertNext]_assertVars PROVE PollTypes'
  OBVIOUS
<1>1. ASSUME NEW m \in Nat, NEW u \in BOOLEAN, SinkChanges(m, u) PROVE PollTypes'
  <2>1. goodSince' \in Nat \cup {-1}
    BY <1>1 DEF PollTypes, SinkChanges
  <2>2. had' \in BOOLEAN
    BY <1>1 DEF PollTypes, SinkChanges, Enough
  <2> QED BY <1>1, <2>1, <2>2 DEF PollTypes, SinkChanges, assertion
<1>2. CASE Lists
  BY <1>2 DEF PollTypes, Lists
<1>3. CASE Receive
  <2>1. polls' \in Nat /\ phase' \in {"passed", "pausing"} /\ since' \in Nat
    BY <1>3 DEF PollTypes, Receive
  <2>2. blamed' \in BOOLEAN /\ lastErr' = "none"
    BY <1>3 DEF Receive
  <2> QED BY <1>3, <2>1, <2>2 DEF PollTypes, Receive
<1>4. CASE Fails
  BY <1>4 DEF PollTypes, Fails, PollFailed, ErrorToReport
<1>5. CASE CutOff
  BY <1>5 DEF PollTypes, CutOff, PollFailed, ErrorToReport
<1>6. CASE Reject
  BY <1>6 DEF PollTypes, Reject
<1>7. CASE AskAgain
  BY <1>7 DEF PollTypes, AskAgain
<1>8. CASE TimeOut
  BY <1>8 DEF PollTypes, TimeOut
<1>9. CASE PassTime
  BY <1>9 DEF PollTypes, PassTime, assertion
<1>10. CASE UNCHANGED assertVars
  BY <1>10 DEF PollTypes, assertVars, assertion
<1> QED BY <1>1, <1>2, <1>3, <1>4, <1>5, <1>6, <1>7, <1>8, <1>9, <1>10, PollCases

\* Every behaviour keeps them.
LEMMA PollTypesHold == AssertSpec => []PollTypes
<1>1. AssertInit => PollTypes
  <2>1. AssertInit => had \in BOOLEAN /\ blamed \in BOOLEAN
    BY DEF AssertInit
  <2>2. AssertInit => clock \in Nat /\ goodSince \in Nat \cup {-1}
    BY DEF AssertInit
  <2> QED BY <2>1, <2>2 DEF AssertInit, PollTypes
<1> QED BY <1>1, PollTypesStep, PTL DEF AssertSpec
-----------------------------------------------------------------------------
(* PassIsReal *)

\* What the sink holds, and what an answer on its way holds, it had.
HadInv ==
  /\ Enough(matching) => had = TRUE
  /\ phase = "listed" /\ Enough(listing) => had = TRUE
  /\ phase = "passed" => had = TRUE

\* Every step keeps it.
LEMMA HadStep == PollTypes /\ HadInv /\ [AssertNext]_assertVars => HadInv'
<1> SUFFICES ASSUME PollTypes, HadInv, [AssertNext]_assertVars PROVE HadInv'
  OBVIOUS
<1> USE DEF HadInv, Enough, PollTypes
<1>1. ASSUME NEW m \in Nat, NEW u \in BOOLEAN, SinkChanges(m, u) PROVE HadInv'
  BY <1>1 DEF SinkChanges, assertion, Final
<1>2. CASE Lists
  BY <1>2 DEF Lists
<1>3. CASE Receive
  BY <1>3 DEF Receive, Matched
<1>4. CASE Fails \/ CutOff
  BY <1>4 DEF Fails, CutOff, PollFailed
<1>5. CASE Reject \/ AskAgain \/ TimeOut
  BY <1>5 DEF Reject, AskAgain, TimeOut
<1>6. CASE PassTime
  BY <1>6 DEF PassTime, assertion
<1>7. CASE UNCHANGED assertVars
  BY <1>7 DEF assertVars, assertion
<1> QED BY <1>1, <1>2, <1>3, <1>4, <1>5, <1>6, <1>7, PollCases

\* A pass is real: the sink had that many posts at the same moment.
THEOREM PassesAreReal == AssertSpec => []PassIsReal
<1>1. AssertInit => HadInv
  BY DEF AssertInit, HadInv, Enough
<1>2. HadInv => PassIsReal
  BY DEF HadInv, PassIsReal
<1> QED BY PollTypesHold, HadStep, <1>1, <1>2, PTL DEF AssertSpec
-----------------------------------------------------------------------------
(* FailsInTime *)

\* The error to report is the sink's exactly if it is to blame, and there is
\* one before the first list.
BlameInv ==
  /\ lastErr = "sink" <=> blamed = TRUE
  /\ phase \in {"pausing", "failed"} /\ polls = 0 => lastErr # "none"

\* goodSince is what it says.
GoodInv == goodSince >= 0 => goodSince <= clock /\ up = TRUE /\ Enough(matching)
GoneInv == goodSince < 0 => ~(up = TRUE /\ Enough(matching))

Limit == HttpTimeout + Interval + Latency

\* The clock, and for how long the sink can have been good: by phase.
ClockInv ==
  /\ since <= clock
  /\ ~Final => clock <= Timeout
  /\ phase = "pausing" => clock <= since + Interval
  /\ phase = "failed" => clock >= Timeout

GoodFor ==
  goodSince >= 0 =>
    /\ phase \in {"asking", "listed"} =>
         /\ since - goodSince <= HttpTimeout + Interval
         /\ clock <= since + Latency \/ clock = goodSince
    /\ phase = "listed" /\ ~Enough(listing) => since <= goodSince
    /\ phase = "pausing" =>
         \/ since - goodSince <= HttpTimeout
         \/ since >= Timeout /\ clock = since /\ clock - goodSince <= Limit
    /\ phase = "failed" => clock - goodSince <= Limit

TimeInv == BlameInv /\ GoodInv /\ GoneInv /\ ClockInv /\ GoodFor

\* Every step of the sink keeps it.
LEMMA TimeChange ==
  ASSUME PollTypes, TimeInv, NEW m \in Nat, NEW u \in BOOLEAN, SinkChanges(m, u)
  PROVE  TimeInv'
<1> USE DEF SinkChanges, assertion, PollTypes
<1>1. BlameInv'
  BY DEF TimeInv, BlameInv
<1>2. ClockInv'
  BY DEF TimeInv, ClockInv, Final
<1>3. CASE ~(u /\ Enough(m))
  <2>1. goodSince' = -1
    BY <1>3
  <2>2. ~(up' = TRUE /\ Enough(matching)')
    BY <1>3 DEF Enough
  <2> QED BY <1>1, <1>2, <2>1, <2>2 DEF TimeInv, GoodInv, GoneInv, GoodFor
<1>4. CASE u /\ Enough(m)
  <2>1. up' = TRUE /\ Enough(matching)'
    BY <1>4 DEF Enough
  <2>2. goodSince' = clock \/ (goodSince' = goodSince /\ goodSince >= 0)
    <3>1. goodSince' = IF goodSince = -1 THEN clock ELSE goodSince
      BY <1>4, Zenon
    <3> QED BY <3>1
  <2>3. goodSince' >= 0 /\ goodSince' <= clock'
    BY <2>2 DEF TimeInv, GoodInv
  <2>4. clock' = clock /\ since' = since /\ phase' = phase /\ listing' = listing /\ phase # "failed"
    BY DEF Final
  <2>5. ASSUME goodSince' = clock PROVE GoodFor'
    <3>1. since <= clock /\ since - clock <= HttpTimeout + Interval /\ since - clock <= HttpTimeout
      BY DEF TimeInv, ClockInv
    <3> HIDE DEF SinkChanges
    <3> QED BY <2>4, <2>5, <3>1 DEF GoodFor
  <2>6. ASSUME goodSince' = goodSince, goodSince >= 0 PROVE GoodFor'
    <3> HIDE DEF SinkChanges
    <3> QED BY <2>4, <2>6 DEF TimeInv, GoodFor, Limit, Enough
  <2>7. GoodFor'
    BY <2>2, <2>5, <2>6
  <2> QED BY <1>1, <1>2, <2>1, <2>3, <2>7 DEF TimeInv, GoodInv, GoneInv
<1> QED BY <1>3, <1>4

\* Every step of the client and of time keeps it.
LEMMA TimeStep ==
  ASSUME PollTypes, TimeInv, [AssertNext]_assertVars
  PROVE  TimeInv'
<1>1. ASSUME NEW m \in Nat, NEW u \in BOOLEAN, SinkChanges(m, u) PROVE TimeInv'
  BY <1>1, TimeChange
<1>2. CASE Lists
  BY <1>2
     DEF Lists, PollTypes, TimeInv, BlameInv, GoodInv, GoneInv, ClockInv, GoodFor,
         Final, Enough
<1>3. CASE Receive
  BY <1>3
     DEF Receive, PollTypes, TimeInv, BlameInv, GoodInv, GoneInv, ClockInv, GoodFor,
         Final, Enough, Matched
<1>4. CASE Fails
  <2>1. BlameInv'
    BY <1>4 DEF Fails, PollFailed, ErrorToReport, PollTypes, TimeInv, BlameInv
  <2> QED BY <1>4, <2>1
          DEF Fails, PollFailed, PollTypes, TimeInv, GoodInv, GoneInv, ClockInv,
              GoodFor, Final, Enough
<1>5. CASE CutOff
  <2>1. BlameInv'
    BY <1>5 DEF CutOff, PollFailed, ErrorToReport, PollTypes, TimeInv, BlameInv
  <2> QED BY <1>5, <2>1
          DEF CutOff, CtxOver, PollFailed, PollTypes, TimeInv, GoodInv, GoneInv,
              ClockInv, GoodFor, Final, Enough, Limit
<1>6. CASE Reject
  BY <1>6
     DEF Reject, PollTypes, TimeInv, BlameInv, GoodInv, GoneInv, ClockInv, GoodFor,
         Final, Enough
<1>7. CASE AskAgain
  BY <1>7
     DEF AskAgain, PollTypes, TimeInv, BlameInv, GoodInv, GoneInv, ClockInv, GoodFor,
         Final, Enough
<1>8. CASE TimeOut
  BY <1>8
     DEF TimeOut, CtxOver, PollTypes, TimeInv, BlameInv, GoodInv, GoneInv, ClockInv,
         GoodFor, Final, Enough, Limit
<1>9. CASE PassTime
  BY <1>9
     DEF PassTime, PauseEnds, CtxOver, assertion, PollTypes, TimeInv, BlameInv,
         GoodInv, GoneInv, ClockInv, GoodFor, Final, Enough
<1>10. CASE UNCHANGED assertVars
  BY <1>10
     DEF assertVars, assertion, PollTypes, TimeInv, BlameInv, GoodInv, GoneInv, ClockInv,
         GoodFor, Final, Enough, Limit
<1> QED BY <1>1, <1>2, <1>3, <1>4, <1>5, <1>6, <1>7, <1>8, <1>9, <1>10, PollCases

\* The sink is empty, and no poll has failed.
LEMMA InitTime == AssertInit => TimeInv
BY DEF AssertInit, TimeInv, BlameInv, GoodInv, GoneInv, ClockInv, GoodFor,
       Final, Enough

\* It ends at its deadline and with the sink's error; a sink that was good for
\* longer than a poll that hangs, a pause and one answer has been noticed.
THEOREM FailuresAreInTime == AssertSpec => []FailsInTime
<1>1. AssertInit => TimeInv
  BY InitTime
<1>2. PollTypes /\ TimeInv => FailsInTime
  BY DEF PollTypes, TimeInv, BlameInv, ClockInv, GoodFor, Limit, FailsInTime
<1>3. PollTypes /\ TimeInv /\ [AssertNext]_assertVars => TimeInv'
  BY TimeStep
<1> QED BY PollTypesHold, <1>1, <1>2, <1>3, PTL DEF AssertSpec
-----------------------------------------------------------------------------
(* TypeOK *)

\* The polls are counted as they should: one an interval.
PollsInv ==
  /\ phase \in {"asking", "listed"} => polls * Interval <= since
  /\ polls * Interval <= since + Interval
  /\ changes \in 0..Changes

\* One more poll takes one more interval.
LEMMA OneMore ==
  ASSUME NEW c \in Nat \ {0}, NEW p \in Nat
  PROVE  p * c \in Nat /\ (p + 1) * c = p * c + c
OBVIOUS

\* Every step keeps the distance of the polls.
LEMMA PollsStep ==
  PollTypes /\ TimeInv /\ PollsInv /\ [AssertNext]_assertVars => PollsInv'
<1> SUFFICES ASSUME PollTypes, TimeInv, PollsInv, [AssertNext]_assertVars PROVE PollsInv'
  OBVIOUS
<1>1. PICK n \in Nat : n = polls * Interval
  BY OneMore DEF PollTypes
<1>2. /\ phase \in {"asking", "listed"} => n <= since
      /\ n <= since + Interval /\ changes \in 0..Changes
  BY <1>1 DEF PollsInv
<1>3. since \in Nat /\ clock \in Nat /\ since <= clock /\ Interval \in Nat \ {0} /\ Changes \in Nat
  BY DEF PollTypes, TimeInv, ClockInv
<1>4. ASSUME polls' = polls, since' = since, phase' = phase, changes' \in 0..Changes PROVE PollsInv'
  BY <1>1, <1>2, <1>4 DEF PollsInv
<1>5. ASSUME polls' = polls, since' = clock, phase' \notin {"asking", "listed"}, changes' = changes
      PROVE PollsInv'
  BY <1>1, <1>2, <1>3, <1>5 DEF PollsInv
<1>6. ASSUME NEW m \in Nat, NEW u \in BOOLEAN, SinkChanges(m, u) PROVE PollsInv'
  BY <1>2, <1>3, <1>4, <1>6 DEF SinkChanges, assertion
<1>7. CASE Lists
  BY <1>1, <1>2, <1>7 DEF Lists, PollsInv
<1>8. CASE Receive
  <2>1. polls' = polls + 1 /\ since' = clock /\ phase' \notin {"asking", "listed"} /\ changes' = changes
        /\ phase = "listed"
    BY <1>8 DEF Receive
  <2>2. polls' * Interval = n + Interval
    BY <1>1, <1>3, <2>1, OneMore DEF PollTypes
  <2> QED BY <1>2, <1>3, <2>1, <2>2 DEF PollsInv
<1>9. CASE Fails \/ CutOff
  BY <1>5, <1>9 DEF Fails, CutOff, PollFailed
<1>10. CASE Reject \/ TimeOut
  BY <1>5, <1>10 DEF Reject, TimeOut
<1>11. CASE AskAgain
  BY <1>1, <1>2, <1>3, <1>11 DEF AskAgain, PollsInv
<1>12. CASE PassTime \/ UNCHANGED assertVars
  BY <1>2, <1>4, <1>12 DEF PassTime, assertVars, assertion
<1> QED BY <1>6, <1>7, <1>8, <1>9, <1>10, <1>11, <1>12, PollCases

\* A number is quotient and remainder.
LEMMA Division ==
  ASSUME NEW c \in Int, c > 0, NEW n \in Int
  PROVE  \E q, r \in Int : n = c * q + r /\ r < c /\ r >= 0 /\ q = n \div c
OBVIOUS

\* Polls an interval apart, the first at the start, are so many at most.
LEMMA PollsBound ==
  ASSUME NEW c \in Nat \ {0}, NEW n \in Nat, NEW p \in Nat, p * c <= n + c
  PROVE  p <= 1 + n \div c /\ n \div c \in Int
<1>1. PICK q \in Int, r \in Int : n = c * q + r /\ r < c /\ r >= 0 /\ q = n \div c
  BY Division
<1>2. ASSUME p > 1 + q PROVE FALSE
  <2>1. p * c >= (q + 2) * c
    BY <1>2
  <2>2. (q + 2) * c = c * q + c + c
    OBVIOUS
  <2>3. p * c \in Int /\ c * q \in Int
    OBVIOUS
  <2> QED BY <1>1, <2>1, <2>2, <2>3
<1> QED BY <1>1, <1>2

\* Every variable has its type, and assert-card does not ask more often than
\* once an interval, however often a poll fails.
THEOREM PollsAreTyped == AssertSpec => []AssertTypeOK
<1>1. AssertInit => PollsInv
  <2>1. 0 * Interval = 0
    OBVIOUS
  <2> QED BY <2>1 DEF AssertInit, PollsInv
<1>2. PollTypes /\ TimeInv /\ PollsInv => AssertTypeOK
  <2> SUFFICES ASSUME PollTypes, TimeInv, PollsInv PROVE AssertTypeOK
    OBVIOUS
  <2>1. since \in 0..clock /\ goodSince \in -1..clock
    BY DEF PollTypes, TimeInv, ClockInv, GoodInv
  <2>2. PICK n \in Nat : n = polls * Interval
    BY OneMore DEF PollTypes
  <2>3. n <= clock + Interval
    BY <2>1, <2>2 DEF PollsInv, PollTypes
  <2>4. polls <= 1 + clock \div Interval /\ clock \div Interval \in Int
    BY <2>2, <2>3, PollsBound DEF PollTypes
  <2>5. polls \in 0..(1 + clock \div Interval)
    BY <2>4 DEF PollTypes
  <2> QED BY <2>1, <2>5, Zenon DEF PollTypes, PollsInv, AssertTypeOK
<1> QED BY PollTypesHold, InitTime, TimeStep, PollsStep, <1>1, <1>2, PTL DEF AssertSpec
=============================================================================
