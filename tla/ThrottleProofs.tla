--------------------------- MODULE ThrottleProofs ---------------------------
(***************************************************************************)
(* For any keys, window, max and number of messages: the throttle's state  *)
(* has its types, admit decides as the whole history says, and every       *)
(* window that reached max has one summary that counts what it held back.  *)
(***************************************************************************)
EXTENDS Throttle, FiniteSetTheorems, WellFoundedInduction, TLAPS

\* A set of numbers has a least one.  (The library's rule of induction takes
\* the property as a parameter; the well-founded order of the initial segments
\* says as much of sets.)
LEMMA LeastNumber ==
  ASSUME NEW S \in SUBSET Nat, S # {}
  PROVE  \E n \in S : \A m \in S : n <= m
<1> DEFINE T == {0..n : n \in S}
           R == StrictSubsetOrdering(Nat)
<1>1. IsWellFoundedOn(R, FiniteSubsetsOf(Nat))
  BY FS_StrictSubsetOrderingWellFounded
<1>2. T \subseteq FiniteSubsetsOf(Nat) /\ T # {}
  <2>1. \A n \in S : 0..n \in SUBSET Nat /\ IsFiniteSet(0..n)
    BY FS_Interval
  <2> QED BY <2>1 DEF FiniteSubsetsOf
<1> HIDE DEF R
<1>3. PICK x \in T : \A y \in T : ~(<<y, x>> \in R)
  BY <1>1, <1>2, WFMin
<1>4. PICK n \in S : x = 0..n
  OBVIOUS
<1>5. ASSUME NEW m \in S, m < n PROVE FALSE
  <2>1. n \in 0..n /\ n \notin 0..m /\ (0..m) \subseteq (0..n)
    BY <1>5
  <2>2. <<0..m, 0..n>> \in R
    BY <2>1 DEF R, StrictSubsetOrdering
  <2> QED BY <1>3, <1>4, <2>2
<1>6. \A m \in S : ~(m < n) /\ m \in Nat /\ n \in Nat
  BY <1>5
<1> QED BY <1>6

\* And a bounded one has a greatest.
LEMMA GreatestNumber ==
  ASSUME NEW n \in Nat, NEW S \in SUBSET (1..n), S # {}
  PROVE  \E m \in S : \A k \in S : k <= m
<1> DEFINE B == {b \in 1..n : \A k \in S : k <= b}
<1>1. B \in SUBSET Nat /\ B # {}
  <2>1. PICK s \in S : TRUE
    OBVIOUS
  <2>2. n \in B
    BY <2>1
  <2> QED BY <2>2
<1>2. PICK b \in B : \A c \in B : b <= c
  BY <1>1, LeastNumber
<1>3. ASSUME b \notin S PROVE FALSE
  <2>1. \A k \in S : k < b
    BY <1>2, <1>3
  <2>2. PICK s \in S : TRUE
    OBVIOUS
  <2>3. b - 1 \in B
    BY <2>1, <2>2
  <2> QED BY <1>2, <2>3
<1> QED BY <1>2, <1>3
-----------------------------------------------------------------------------
(* The windows of the history *)

\* The firing arrivals of the history h before i, and the last of them.
Before(h, i)     == {j \in 1..(i - 1) : h[j].status = "firing"}
LastBefore(h, i) == CHOOSE j \in Before(h, i) : \A k \in Before(h, i) : k <= j

\* IsOver of the history h.
OverAt(h, t, i, j) ==
  \/ h[j].at - t >= Window
  \/ \E m \in (i + 1)..j : h[m].rolled # None /\ h[m].rolled - t >= Window

\* The window of arrival i, from the windows w of the arrivals before it.
WindowFrom(h, w, i) ==
  IF Before(h, i) # {} /\ ~OverAt(h, h[w[LastBefore(h, i)]].at, LastBefore(h, i), i)
  THEN w[LastBefore(h, i)]
  ELSE i

\* WindowOf of the history h.
Windows(h) == CHOOSE w : w = [i \in 1..Len(h) |-> WindowFrom(h, w, i)]

\* The windows of Throttle.tla, now and after a step.
LEMMA WindowOfIs == WindowOf = Windows(arrivals) /\ WindowOf' = Windows(arrivals')
BY DEF WindowOf, Firing, Windows, WindowFrom, Before, LastBefore, IsOver, FlushedSince, OverAt

\* The last firing arrival is the greatest index of one.
LEMMA LastBeforeIs ==
  ASSUME NEW h, NEW i \in Nat, Before(h, i) # {}
  PROVE  LastBefore(h, i) \in Before(h, i) /\ \A k \in Before(h, i) : k <= LastBefore(h, i)
<1>1. CASE i = 0
  BY <1>1 DEF Before
<1>2. CASE i # 0
  <2>1. i - 1 \in Nat /\ Before(h, i) \in SUBSET (1..(i - 1))
    BY <1>2 DEF Before
  <2>2. \E j \in Before(h, i) : \A k \in Before(h, i) : k <= j
    BY <2>1, GreatestNumber
  <2> QED BY <2>2 DEF LastBefore
<1> QED BY <1>1, <1>2

\* A function that is built from its own values at smaller arguments exists.
LEMMA WindowsExist ==
  ASSUME NEW h, NEW n \in Nat
  PROVE  \E w : w = [i \in 1..n |-> WindowFrom(h, w, i)]
<1> DEFINE P(m) == \E w : w = [i \in 1..m |-> WindowFrom(h, w, i)]
           T == {m \in Nat : ~P(m)}
<1> SUFFICES ASSUME T # {} PROVE FALSE
  OBVIOUS
<1>1. PICK m \in T : \A k \in T : m <= k
  BY LeastNumber
<1>2. P(0)
  <2> DEFINE w == [i \in 1..0 |-> 0]
  <2>1. w = [i \in 1..0 |-> WindowFrom(h, w, i)]
    OBVIOUS
  <2> QED BY <2>1
<1> HIDE DEF P
<1>3. m \in Nat /\ m # 0 /\ m - 1 \in Nat
  BY <1>1, <1>2
<1>4. P(m - 1)
  BY <1>1, <1>3
<1> USE DEF P
<1>5. PICK v : v = [i \in 1..(m - 1) |-> WindowFrom(h, v, i)]
  BY <1>4
<1> DEFINE w == [i \in 1..m |-> IF i = m THEN WindowFrom(h, v, m) ELSE v[i]]
<1>6. ASSUME NEW i \in 1..m PROVE WindowFrom(h, w, i) = WindowFrom(h, v, i)
  <2>1. Before(h, i) # {} => LastBefore(h, i) \in 1..(i - 1)
    BY LastBeforeIs DEF Before
  <2>2. Before(h, i) # {} => w[LastBefore(h, i)] = v[LastBefore(h, i)]
    BY <1>1, <2>1
  <2> QED BY <2>2 DEF WindowFrom
<1>7. \A i \in 1..m : w[i] = WindowFrom(h, w, i)
  <2> SUFFICES ASSUME NEW i \in 1..m PROVE w[i] = WindowFrom(h, v, i)
    BY <1>6
  <2>1. CASE i = m
    BY <2>1
  <2>2. CASE i # m
    <3>1. i \in 1..(m - 1)
      BY <1>1, <2>2
    <3> QED BY <1>5, <2>2, <3>1
  <2> QED BY <2>1, <2>2
<1>8. w = [i \in 1..m |-> WindowFrom(h, w, i)]
  BY <1>7
<1> QED BY <1>1, <1>8

\* So the recursive definition is its own unfolding.
LEMMA WindowsUnfold ==
  ASSUME NEW h, Len(h) \in Nat
  PROVE  Windows(h) = [i \in 1..Len(h) |-> WindowFrom(h, Windows(h), i)]
<1> DEFINE D(w) == [i \in 1..Len(h) |-> WindowFrom(h, w, i)]
<1>1. Windows(h) = CHOOSE w : w = D(w)
  BY DEF Windows
<1>2. \E w : w = D(w)
  BY WindowsExist
<1> HIDE DEF D
<1>3. (CHOOSE w : w = D(w)) = D(CHOOSE w : w = D(w))
  BY <1>2
<1> QED BY <1>1, <1>3 DEF D

\* A window is named by an arrival of the history, no later than its own.
LEMMA WindowsRange ==
  ASSUME NEW h, Len(h) \in Nat
  PROVE  \A i \in 1..Len(h) : Windows(h)[i] \in 1..i
<1> DEFINE w == Windows(h)
           n == Len(h)
           T == {i \in 1..n : w[i] \notin 1..i}
<1> SUFFICES ASSUME T # {} PROVE FALSE
  OBVIOUS
<1>1. w = [i \in 1..n |-> WindowFrom(h, w, i)]
  BY WindowsUnfold
<1> HIDE DEF w, n
<1>2. n \in Nat
  BY DEF n
<1>3. PICK i \in T : \A k \in T : i <= k
  <2>1. T \in SUBSET Nat
    OBVIOUS
  <2> QED BY <2>1, LeastNumber
<1>4. i \in 1..n /\ i \in Nat /\ i \in 1..i /\ w[i] = WindowFrom(h, w, i)
  <2>1. i \in 1..n /\ i \in Nat /\ i \in 1..i
    BY <1>2
  <2> QED BY <1>1, <2>1
<1>5. ASSUME Before(h, i) # {} PROVE w[LastBefore(h, i)] \in 1..i
  <2> DEFINE l == LastBefore(h, i)
  <2>1. l \in 1..(i - 1)
    BY <1>4, <1>5, LastBeforeIs DEF Before
  <2> HIDE DEF l
  <2>2. l \in 1..n /\ l < i /\ l \in Nat
    BY <1>2, <1>4, <2>1
  <2>3. w[l] \in 1..l
    BY <1>3, <2>2
  <2> QED BY <1>4, <2>2, <2>3 DEF l
<1> QED BY <1>3, <1>4, <1>5 DEF WindowFrom

\* What is over for an arrival stays so with another arrival.
LEMMA OverStable ==
  ASSUME NEW S, NEW h \in Seq(S), NEW x \in S, NEW t, NEW i \in Nat, NEW j \in 1..Len(h)
  PROVE  OverAt(Append(h, x), t, i, j) <=> OverAt(h, t, i, j)
<1> DEFINE g == Append(h, x)
           n == Len(h)
<1>1. n \in Nat /\ \A m \in 1..n : g[m] = h[m]
  OBVIOUS
<1> HIDE DEF g, n
<1>2. \A m \in (i + 1)..j : m \in 1..n
  BY <1>1 DEF n
<1>3. j \in 1..n
  BY DEF n
<1> QED BY <1>1, <1>2, <1>3 DEF OverAt, g

\* A later arrival moves no earlier one to another window.
LEMMA WindowsStable ==
  ASSUME NEW S, NEW h \in Seq(S), NEW x \in S
  PROVE  \A i \in 1..Len(h) : Windows(Append(h, x))[i] = Windows(h)[i]
<1> DEFINE g == Append(h, x)
           n == Len(h)
           T == {i \in 1..n : Windows(g)[i] # Windows(h)[i]}
<1> SUFFICES ASSUME T # {} PROVE FALSE
  OBVIOUS
<1>1. n \in Nat /\ Len(g) = n + 1 /\ \A i \in 1..n : g[i] = h[i]
  OBVIOUS
<1>2. \A i \in Nat : \A j \in 1..n : \A t : OverAt(g, t, i, j) <=> OverAt(h, t, i, j)
  BY OverStable
<1>3. \A i \in 1..n : Windows(h)[i] \in 1..i
  BY <1>1, WindowsRange
<1> HIDE DEF g, n
<1>4. PICK i \in T : \A k \in T : i <= k
  <2>1. T \in SUBSET Nat
    OBVIOUS
  <2> QED BY <2>1, LeastNumber
<1>5. i \in 1..n /\ i \in 1..(n + 1) /\ i \in Nat
  BY <1>1
<1>6. /\ Windows(g)[i] = WindowFrom(g, Windows(g), i)
      /\ Windows(h)[i] = WindowFrom(h, Windows(h), i)
  <2>1. Windows(g) = [k \in 1..(n + 1) |-> WindowFrom(g, Windows(g), k)]
    BY <1>1, WindowsUnfold
  <2>2. Windows(h) = [k \in 1..n |-> WindowFrom(h, Windows(h), k)]
    BY <1>1, WindowsUnfold DEF n
  <2> QED BY <1>5, <2>1, <2>2
<1>7. Before(g, i) = Before(h, i) /\ LastBefore(g, i) = LastBefore(h, i)
  <2>1. Before(g, i) = Before(h, i)
    BY <1>1, <1>5 DEF Before
  <2> QED BY <2>1 DEF LastBefore
<1>8. ASSUME Before(h, i) # {}
      PROVE  LET l == LastBefore(h, i)
             IN  /\ Windows(g)[l] = Windows(h)[l] /\ g[Windows(h)[l]].at = h[Windows(h)[l]].at
                 /\ \A t : OverAt(g, t, l, i) <=> OverAt(h, t, l, i)
  <2> DEFINE l == LastBefore(h, i)
  <2>1. l \in 1..(i - 1)
    BY <1>5, <1>8, LastBeforeIs DEF Before
  <2> HIDE DEF l
  <2>2. l \in 1..n /\ l < i /\ l \in Nat
    BY <1>1, <1>5, <2>1
  <2>3. Windows(g)[l] = Windows(h)[l]
    BY <1>4, <2>2
  <2>4. Windows(h)[l] \in 1..n
    BY <1>1, <1>3, <2>2
  <2> QED BY <1>1, <1>2, <1>5, <2>2, <2>3, <2>4 DEF l
<1>9. WindowFrom(g, Windows(g), i) = WindowFrom(h, Windows(h), i)
  BY <1>7, <1>8 DEF WindowFrom
<1> QED BY <1>4, <1>6, <1>9
-----------------------------------------------------------------------------
(* Types *)

Messages == [key : Keys, at : Nat, status : {"firing", "resolved"}, sent : BOOLEAN, rolled : Times]
OpenWindows == [start : Times, first : Nat, posts : 0..MostPosts, held : 0..MaxArrivals,
                capped : BOOLEAN, heldKeys : Counts]

\* A window has posted and held back no more than the n messages there were.
Bounded(w, n) == /\ w.posts + w.held <= n
                 /\ \A k \in Keys : w.heldKeys[k] <= w.held

\* While the worker holds a time it has read, there is room for its message.
BoundInv ==
  /\ TypeOK
  /\ Bounded(win, Len(arrivals))
  /\ Len(arrivals) <= MaxArrivals
  /\ workerAt # None => workerAt <= now /\ Len(arrivals) < MaxArrivals

\* A window that is not open has its types.
LEMMA NoWindowType ==
  NoWindow \in OpenWindows /\ \A n \in Nat : Bounded(NoWindow, n)
<1>1. [k \in Keys |-> 0] \in Counts /\ MostPosts \in Nat
  BY ThrottleAssumption DEF ThrottleAssumption, Counts, MostPosts
<1>2. NoWindow \in OpenWindows
  BY <1>1, ThrottleAssumption DEF ThrottleAssumption, NoWindow, OpenWindows, Times
<1> QED BY <1>2 DEF NoWindow, Bounded

\* What roll leaves has the types of what it takes.
LEMMA RolledTypes ==
  ASSUME BoundInv, NEW t \in Nat
  PROVE  /\ RolledWin(t) \in OpenWindows /\ Bounded(RolledWin(t), Len(arrivals))
         /\ RolledPending(t) \in Seq(Summaries)
         /\ RolledSent(t) \in [Keys -> Times]
<1>0. Len(arrivals) \in Nat
  BY DEF BoundInv, TypeOK
<1>1. win \in OpenWindows /\ Bounded(win, Len(arrivals))
  BY DEF BoundInv, TypeOK, OpenWindows
<1>2. RolledWin(t) \in OpenWindows /\ Bounded(RolledWin(t), Len(arrivals))
  BY <1>1, <1>0, NoWindowType DEF RolledWin
<1>3. Over(t) => Summary \in Summaries
  BY <1>1, ThrottleAssumption DEF ThrottleAssumption, Over, Summary, Summaries, OpenWindows, Times
<1>4. RolledPending(t) \in Seq(Summaries)
  BY <1>3 DEF BoundInv, TypeOK, RolledPending
<1>5. RolledSent(t) \in [Keys -> Times]
  BY DEF BoundInv, TypeOK, RolledSent, Times
<1> QED BY <1>2, <1>4, <1>5

\* The window a message of the worker falls into is open.
LEMMA OpenWinType ==
  ASSUME BoundInv, workerAt # None
  PROVE  OpenWin \in OpenWindows /\ Bounded(OpenWin, Len(arrivals)) /\ OpenWin.start \in Nat
<1> DEFINE w == RolledWin(workerAt)
<1>1. workerAt \in Nat /\ Len(arrivals) \in Nat
  BY DEF BoundInv, TypeOK, Times
<1>2. w \in OpenWindows /\ Bounded(w, Len(arrivals))
  BY <1>1, RolledTypes
<1>3. OpenWin = IF w.start = None THEN [w EXCEPT !.start = workerAt, !.first = Len(arrivals) + 1] ELSE w
  BY DEF OpenWin
<1> HIDE DEF w
<1>4. CASE w.start = None
  <2>1. OpenWin = [w EXCEPT !.start = workerAt, !.first = Len(arrivals) + 1]
    BY <1>3, <1>4
  <2>2. OpenWin \in OpenWindows /\ OpenWin.start = workerAt
    <3> DEFINE u == [w EXCEPT !.start = workerAt]
    <3>1. OpenWin = [u EXCEPT !.first = Len(arrivals) + 1]
      BY <1>2, <2>1 DEF OpenWindows
    <3>2. u \in OpenWindows /\ u.start = workerAt
      BY <1>1, <1>2 DEF OpenWindows, Times
    <3> HIDE DEF u
    <3>3. Len(arrivals) + 1 \in Nat
      BY <1>1
    <3> QED BY <3>1, <3>2, <3>3 DEF OpenWindows
  <2>3. OpenWin.posts = w.posts /\ OpenWin.held = w.held /\ OpenWin.heldKeys = w.heldKeys
    BY <1>2, <2>1 DEF OpenWindows
  <2> QED BY <1>1, <1>2, <2>2, <2>3 DEF Bounded
<1>5. CASE w.start # None
  <2>1. OpenWin = w
    BY <1>3, <1>5
  <2> QED BY <1>2, <1>5, <2>1 DEF OpenWindows, Times
<1> QED BY <1>4, <1>5

\* A message is added to the history.
LEMMA ArriveType ==
  ASSUME BoundInv, NEW key \in Keys, NEW status \in {"firing", "resolved"},
         NEW passed \in BOOLEAN, Arrive(key, status, passed)
  PROVE  /\ arrivals' \in Seq(Messages) /\ Len(arrivals') = Len(arrivals) + 1
         /\ Len(arrivals') <= MaxArrivals /\ Len(arrivals) \in Nat
         /\ workerAt \in Nat /\ workerAt # None /\ workerAt' = None /\ workerAt' \in Times
         /\ rolled' \in Times /\ now' = now /\ flusherAt' = flusherAt
         /\ flushed' = flushed /\ pending' \in Seq(Summaries)
<1>1. /\ arrivals \in Seq(Messages) /\ workerAt \in Nat /\ rolled \in Times
      /\ arrivals' = Append(arrivals, [key |-> key, at |-> workerAt, status |-> status,
                                       sent |-> passed, rolled |-> rolled])
  BY DEF BoundInv, TypeOK, Messages, Arrive, Times
<1>2. [key |-> key, at |-> workerAt, status |-> status, sent |-> passed, rolled |-> rolled] \in Messages
  BY <1>1 DEF Messages
<1>3. Len(arrivals) < MaxArrivals /\ MaxArrivals \in Nat
  BY ThrottleAssumption DEF ThrottleAssumption, Arrive, BoundInv
<1>4. pending' \in Seq(Summaries)
  BY <1>1, RolledTypes DEF Arrive
<1>5. None \in Times
  BY DEF Times
<1> QED BY <1>1, <1>2, <1>3, <1>4, <1>5 DEF Arrive

\* Held counts a message and its key.
LEMMA HeldType ==
  ASSUME NEW w \in OpenWindows, NEW key \in Keys, Bounded(w, Len(arrivals)), Len(arrivals) \in Nat,
         Len(arrivals') = Len(arrivals) + 1, Len(arrivals') <= MaxArrivals
  PROVE  Held(w, key) \in OpenWindows /\ Bounded(Held(w, key), Len(arrivals'))
<1>1. /\ w.posts \in Nat /\ w.held \in Nat /\ w.heldKeys \in [Keys -> Nat] /\ MaxArrivals \in Nat
      /\ w.posts + w.held <= Len(arrivals)
      /\ \A k \in Keys : w.heldKeys[k] <= w.held
  BY ThrottleAssumption DEF ThrottleAssumption, OpenWindows, Counts, Bounded, MostPosts
<1> DEFINE v == Held(w, key)
           f == [w.heldKeys EXCEPT ![key] = @ + 1]
           u == [w EXCEPT !.held = @ + 1]
<1>2. /\ v.held = w.held + 1 /\ v.posts = w.posts /\ v.heldKeys = f
      /\ v = [u EXCEPT !.heldKeys = f]
  BY DEF Held, OpenWindows
<1> HIDE DEF v
<1>3. \A k \in Keys : f[k] \in Nat /\ f[k] <= w.held + 1
  BY <1>1
<1>4. w.held + 1 \in 0..MaxArrivals
  BY <1>1
<1>5. f \in Counts
  BY <1>1, <1>3, <1>4 DEF Counts
<1> HIDE DEF f
<1>6. v \in OpenWindows
  <2>1. u \in OpenWindows
    BY <1>4 DEF OpenWindows
  <2> HIDE DEF u
  <2> QED BY <1>2, <1>5, <2>1 DEF OpenWindows
<1>7. v.posts + v.held <= Len(arrivals')
  BY <1>1, <1>2
<1> QED BY <1>2, <1>3, <1>6, <1>7 DEF v, Bounded

\* Every step keeps the types and the bounds of the counters.
LEMMA TypeStep == BoundInv /\ [Next]_vars => BoundInv'
<1> SUFFICES ASSUME BoundInv, [Next]_vars PROVE BoundInv'
  OBVIOUS
<1>0. /\ now \in Nat /\ flushed \in Seq(Summaries) /\ pending \in Seq(Summaries)
      /\ arrivals \in Seq(Messages) /\ Len(arrivals) \in Nat /\ Len(arrivals) <= MaxArrivals
      /\ MaxArrivals \in Nat /\ workerAt \in Times /\ flusherAt \in Times /\ rolled \in Times
      /\ None \in Times /\ now \in Times
  BY ThrottleAssumption DEF ThrottleAssumption, BoundInv, TypeOK, Messages, Times
\* The types after an arrival, from those of the parts.
<1>1. ASSUME NEW key \in Keys, NEW status \in {"firing", "resolved"}, NEW passed \in BOOLEAN,
             Arrive(key, status, passed),
             sent' \in [Keys -> Times], win' \in OpenWindows, Bounded(win', Len(arrivals'))
      PROVE  BoundInv'
  <2>1. /\ arrivals' \in Seq(Messages) /\ Len(arrivals') <= MaxArrivals /\ workerAt' = None
        /\ workerAt' \in Times /\ rolled' \in Times /\ now' = now /\ flusherAt' = flusherAt
        /\ flushed' = flushed /\ pending' \in Seq(Summaries)
    BY <1>1, ArriveType
  <2> QED BY <1>0, <1>1, <2>1 DEF BoundInv, TypeOK, OpenWindows, Messages
<1>2. CASE UNCHANGED vars
  BY <1>2 DEF vars, BoundInv, TypeOK, Bounded, Summaries, Counts
<1>3. CASE Tick
  <2>1. now' = now + 1 /\ UNCHANGED <<workerAt, flusherAt, sent, win, pending, arrivals, rolled, flushed>>
    BY <1>0, <1>3 DEF Tick
  <2>2. workerAt' # None => workerAt' <= now' /\ Len(arrivals') < MaxArrivals
    BY <1>0, <2>1 DEF BoundInv, Times
  <2>3. TypeOK'
    BY <1>0, <2>1 DEF BoundInv, TypeOK
  <2> QED BY <2>1, <2>2, <2>3 DEF BoundInv, Bounded
<1>4. CASE ReadForAdmit
  <2>1. /\ workerAt' = now /\ Len(arrivals) < MaxArrivals
        /\ UNCHANGED <<now, flusherAt, sent, win, pending, arrivals, rolled, flushed>>
    BY <1>4 DEF ReadForAdmit
  <2>2. workerAt' <= now' /\ Len(arrivals') < MaxArrivals
    BY <1>0, <2>1
  <2>3. TypeOK'
    BY <1>0, <2>1 DEF BoundInv, TypeOK
  <2> QED BY <2>1, <2>2, <2>3 DEF BoundInv, Bounded
<1>5. CASE ReadForDue
  <2>1. /\ flusherAt' = now
        /\ UNCHANGED <<now, workerAt, sent, win, pending, arrivals, rolled, flushed>>
    BY <1>5 DEF ReadForDue
  <2>2. TypeOK'
    BY <1>0, <2>1 DEF BoundInv, TypeOK
  <2> QED BY <2>1, <2>2 DEF BoundInv, Bounded
<1>6. CASE Due
  <2>1. flusherAt \in Nat
    BY <1>0, <1>6 DEF Due, Times
  <2>2. /\ RolledWin(flusherAt) \in OpenWindows /\ Bounded(RolledWin(flusherAt), Len(arrivals))
        /\ RolledPending(flusherAt) \in Seq(Summaries) /\ RolledSent(flusherAt) \in [Keys -> Times]
    BY <2>1, RolledTypes
  <2>3. /\ flushed' \in Seq(Summaries) /\ pending' \in Seq(Summaries)
        /\ win' = RolledWin(flusherAt) /\ sent' = RolledSent(flusherAt)
        /\ rolled' \in Times /\ flusherAt' \in Times
        /\ now' = now /\ workerAt' = workerAt /\ arrivals' = arrivals
    BY <1>0, <1>6, <2>2 DEF Due
  <2>4. TypeOK'
    BY <1>0, <2>2, <2>3 DEF TypeOK, OpenWindows, Messages
  <2>5. Bounded(win', Len(arrivals'))
    BY <2>2, <2>3
  <2> QED BY <2>3, <2>4, <2>5 DEF BoundInv
<1>7. ASSUME NEW key \in Keys, AdmitResolved(key) PROVE BoundInv'
  <2> DEFINE w == RolledWin(workerAt)
             s == RolledSent(workerAt)
  <2>1. win' = w /\ sent' = [s EXCEPT ![key] = None] /\ Arrive(key, "resolved", TRUE)
    BY <1>7 DEF AdmitResolved
  <2>2. workerAt \in Nat /\ Len(arrivals') = Len(arrivals) + 1
    BY <2>1, ArriveType
  <2>3. w \in OpenWindows /\ Bounded(w, Len(arrivals)) /\ s \in [Keys -> Times]
    BY <2>2, RolledTypes
  <2> HIDE DEF w, s
  <2>4. /\ w.posts \in Nat /\ w.held \in Nat /\ w.posts + w.held <= Len(arrivals)
        /\ \A k \in Keys : w.heldKeys[k] <= w.held
    BY <2>3, ThrottleAssumption DEF ThrottleAssumption, OpenWindows, Bounded, MostPosts
  <2>5. Bounded(win', Len(arrivals'))
    BY <1>0, <2>1, <2>2, <2>4 DEF Bounded
  <2>6. sent' \in [Keys -> Times]
    BY <1>0, <2>1, <2>3
  <2> QED BY <1>1, <2>1, <2>3, <2>5, <2>6
<1>8. ASSUME NEW key \in Keys, HoldRepeat(key) PROVE BoundInv'
  <2>1. /\ win' = Held(OpenWin, key) /\ sent' = RolledSent(workerAt) /\ Arrive(key, "firing", FALSE)
    BY <1>8 DEF HoldRepeat
  <2>2. /\ workerAt \in Nat /\ workerAt # None
        /\ Len(arrivals') = Len(arrivals) + 1 /\ Len(arrivals') <= MaxArrivals
    BY <2>1, ArriveType
  <2>3. win' \in OpenWindows /\ Bounded(win', Len(arrivals'))
    BY <1>0, <2>1, <2>2, OpenWinType, HeldType
  <2>4. sent' \in [Keys -> Times]
    BY <2>1, <2>2, RolledTypes
  <2> QED BY <1>1, <2>1, <2>3, <2>4
<1>9. ASSUME NEW key \in Keys, HoldFull(key) PROVE BoundInv'
  <2>1. /\ win' = [Held(OpenWin, key) EXCEPT !.capped = TRUE] /\ sent' = RolledSent(workerAt)
        /\ Arrive(key, "firing", FALSE)
    BY <1>9 DEF HoldFull
  <2>2. /\ workerAt \in Nat /\ workerAt # None
        /\ Len(arrivals') = Len(arrivals) + 1 /\ Len(arrivals') <= MaxArrivals
    BY <2>1, ArriveType
  <2>3. Held(OpenWin, key) \in OpenWindows /\ Bounded(Held(OpenWin, key), Len(arrivals'))
    BY <1>0, <2>2, OpenWinType, HeldType
  <2>4. win' \in OpenWindows /\ Bounded(win', Len(arrivals'))
    <3> DEFINE v == Held(OpenWin, key)
    <3>1. win' = [v EXCEPT !.capped = TRUE] /\ v \in OpenWindows /\ Bounded(v, Len(arrivals'))
      BY <2>1, <2>3
    <3> HIDE DEF v
    <3> QED BY <3>1 DEF OpenWindows, Bounded
  <2>5. sent' \in [Keys -> Times]
    BY <2>1, <2>2, RolledTypes
  <2> QED BY <1>1, <2>1, <2>4, <2>5
<1>10. ASSUME NEW key \in Keys, Post(key) PROVE BoundInv'
  <2> DEFINE s == RolledSent(workerAt)
  <2>1. /\ win' = [OpenWin EXCEPT !.posts = @ + 1] /\ sent' = [s EXCEPT ![key] = workerAt]
        /\ Arrive(key, "firing", TRUE) /\ ~Full
    BY <1>10 DEF Post
  <2>2. /\ workerAt \in Nat /\ workerAt # None
        /\ Len(arrivals') = Len(arrivals) + 1 /\ Len(arrivals') <= MaxArrivals
    BY <2>1, ArriveType
  <2>3. s \in [Keys -> Times]
    BY <2>2, RolledTypes
  <2> HIDE DEF s
  <2>4. sent' \in [Keys -> Times]
    BY <1>0, <2>1, <2>2, <2>3 DEF Times
  <2>5. OpenWin \in OpenWindows /\ Bounded(OpenWin, Len(arrivals))
    BY <2>2, OpenWinType
  <2>6. /\ OpenWin.posts \in Nat /\ OpenWin.held \in Nat /\ OpenWin.posts + OpenWin.held <= Len(arrivals)
        /\ Max \in Nat /\ (Max > 0 => OpenWin.posts < Max)
        /\ \A k \in Keys : OpenWin.heldKeys[k] <= OpenWin.held
    BY <2>1, <2>5, ThrottleAssumption DEF ThrottleAssumption, OpenWindows, Bounded, MostPosts, Full
  <2>7. OpenWin.posts + 1 \in 0..MostPosts
    BY <1>0, <2>2, <2>6 DEF MostPosts
  <2>8. win' \in OpenWindows
    BY <2>1, <2>5, <2>7 DEF OpenWindows
  <2>9. win'.posts = OpenWin.posts + 1 /\ win'.held = OpenWin.held /\ win'.heldKeys = OpenWin.heldKeys
    BY <2>1, <2>5 DEF OpenWindows
  <2>10. Bounded(win', Len(arrivals'))
    BY <1>0, <2>2, <2>6, <2>9 DEF Bounded
  <2> QED BY <1>1, <2>1, <2>4, <2>8, <2>10
<1> QED BY <1>2, <1>3, <1>4, <1>5, <1>6, <1>7, <1>8, <1>9, <1>10 DEF Next

\* They hold at the start.
LEMMA TypeInit == Init => BoundInv
<1> SUFFICES ASSUME Init PROVE BoundInv
  OBVIOUS
<1>1. arrivals = << >> /\ Len(arrivals) = 0 /\ win = NoWindow /\ workerAt = None
  BY DEF Init
<1>2. TypeOK
  BY <1>1, NoWindowType DEF Init, TypeOK, OpenWindows, Times
<1> QED BY <1>1, <1>2, NoWindowType, ThrottleAssumption DEF ThrottleAssumption, BoundInv

\* The throttle's state has its types, and no window posts more than max.
THEOREM TypeCorrect == Spec => []TypeOK
<1>1. BoundInv => TypeOK
  BY DEF BoundInv
<1> QED BY <1>1, TypeInit, TypeStep, PTL DEF Spec
-----------------------------------------------------------------------------
(* The definitions of Throttle.tla over any history h, and what an arrival *)
(* adds to them                                                            *)

FiringOf(h)      == {i \in 1..Len(h) : h[i].status = "firing"}
PostsIn(h, w)    == {i \in FiringOf(h) : h[i].sent = TRUE /\ Windows(h)[i] = w}
HeldOf(h, w)     == {i \in FiringOf(h) : h[i].sent = FALSE /\ Windows(h)[i] = w}
HeldFor(h, w, k) == {i \in HeldOf(h, w) : h[i].key = k}

\* i may make a later message of key k a repeat.
Live(h, k, i) ==
  /\ i \in FiringOf(h) /\ h[i].sent = TRUE /\ h[i].key = k
  /\ \A r \in (i + 1)..Len(h) : h[r].status # "firing" => h[r].key # k

RepeatAt(h, j) ==
  \E i \in 1..(j - 1) :
    /\ h[i].status = "firing" /\ h[i].sent = TRUE /\ h[i].key = h[j].key
    /\ ~OverAt(h, h[i].at, i, j)
    /\ \A r \in (i + 1)..(j - 1) : h[r].status # "firing" => h[r].key # h[j].key

PostsUpTo(h, j) == {i \in 1..(j - 1) : /\ h[i].status = "firing" /\ h[i].sent = TRUE
                                       /\ Windows(h)[i] = Windows(h)[j]}

FullAt(h, j) == Max > 0 /\ Cardinality(PostsUpTo(h, j)) >= Max

Decided(h) ==
  \A j \in 1..Len(h) :
    h[j].sent = TRUE <=> (h[j].status = "firing" => ~RepeatAt(h, j) /\ ~FullAt(h, j))

CapsAt(h, j) == ~RepeatAt(h, j) /\ FullAt(h, j)
CappedOf(h)  == {Windows(h)[j] : j \in {i \in FiringOf(h) : CapsAt(h, i)}}

\* They are those of Throttle.tla.
LEMMA HistoryIs ==
  ASSUME arrivals \in Seq(Messages)
  PROVE  /\ Decided(arrivals) => DecisionsFollowHistory
         /\ CappedOf(arrivals) = Capped
         /\ \A w : HeldOf(arrivals, w) = HeldIn(w)
<1>1. \A i \in 1..Len(arrivals) : arrivals[i].sent \in BOOLEAN
  <2>1. \A i \in 1..Len(arrivals) : arrivals[i] \in Messages
    OBVIOUS
  <2> QED BY <2>1 DEF Messages
<1>2. Len(arrivals) \in Nat
  OBVIOUS
<1>3. \A i \in 1..Len(arrivals) : Firing(i) <=> arrivals[i].status = "firing"
  BY DEF Firing
<1>4. \A j \in 1..Len(arrivals) : \A i \in 1..(j - 1) : i \in 1..Len(arrivals)
  BY <1>2
<1>5. ASSUME NEW j \in 1..Len(arrivals)
      PROVE  (IsRepeat(j) <=> RepeatAt(arrivals, j)) /\ (IsAboveMax(j) <=> FullAt(arrivals, j))
  <2>1. IsRepeat(j) <=> RepeatAt(arrivals, j)
    BY <1>1, <1>4 DEF IsRepeat, RepeatAt, Firing, IsOver, FlushedSince, OverAt
  <2>2. PostsBefore(j) = PostsUpTo(arrivals, j)
    BY <1>1, <1>4, WindowOfIs DEF PostsBefore, PostsUpTo, Firing
  <2> QED BY <2>1, <2>2 DEF IsAboveMax, FullAt
<1>6. Decided(arrivals) => DecisionsFollowHistory
  BY <1>1, <1>3, <1>5 DEF Decided, DecisionsFollowHistory
<1>7. \A w : HeldOf(arrivals, w) = HeldIn(w)
  BY <1>1, <1>3, WindowOfIs DEF HeldOf, HeldIn, FiringOf
<1>8. {i \in 1..Len(arrivals) : Firing(i) /\ ~IsRepeat(i) /\ IsAboveMax(i)}
        = {i \in FiringOf(arrivals) : CapsAt(arrivals, i)}
  BY <1>3, <1>5 DEF FiringOf, CapsAt
<1>9. CappedOf(arrivals) = Capped
  BY <1>8, WindowOfIs DEF CappedOf, Capped
<1> QED BY <1>6, <1>7, <1>9

\* A history and one more message.
LEMMA GrownIs ==
  ASSUME NEW h \in Seq(Messages), NEW x \in Messages
  PROVE  /\ Len(h) \in Nat /\ Len(Append(h, x)) = Len(h) + 1
         /\ Append(h, x) \in Seq(Messages)
         /\ \A i \in 1..Len(h) : Append(h, x)[i] = h[i] /\ h[i] \in Messages
         /\ Append(h, x)[Len(h) + 1] = x
         /\ \A i \in 1..Len(h) : Windows(Append(h, x))[i] = Windows(h)[i]
BY WindowsStable

\* The decisions on the earlier messages stay.
LEMMA DecisionsStay ==
  ASSUME NEW h \in Seq(Messages), NEW x \in Messages, NEW j \in 1..Len(h)
  PROVE  /\ RepeatAt(Append(h, x), j) <=> RepeatAt(h, j)
         /\ FullAt(Append(h, x), j) <=> FullAt(h, j)
<1> DEFINE g == Append(h, x)
<1>1. Len(h) \in Nat /\ \A i \in 1..j : i \in 1..Len(h) /\ g[i] = h[i] /\ Windows(g)[i] = Windows(h)[i]
  BY GrownIs
<1>2. \A i \in Nat : \A t : OverAt(g, t, i, j) <=> OverAt(h, t, i, j)
  BY OverStable
<1> HIDE DEF g
<1>3. \A i \in 1..(j - 1) : i \in 1..j /\ i \in Nat /\ \A r \in (i + 1)..(j - 1) : r \in 1..j
  OBVIOUS
<1>4. j \in 1..j
  OBVIOUS
<1>5. RepeatAt(g, j) <=> RepeatAt(h, j)
  BY <1>1, <1>2, <1>3, <1>4 DEF RepeatAt
<1>6. PostsUpTo(g, j) = PostsUpTo(h, j)
  BY <1>1, <1>3, <1>4 DEF PostsUpTo
<1> QED BY <1>5, <1>6 DEF g, FullAt

\* After arrival i a flush, at z if it came after the last arrival, closed a
\* window that much after time t.
FlushedAfter(h, z, t, i) ==
  \/ \E m \in (i + 1)..Len(h) : h[m].rolled # None /\ h[m].rolled - t >= Window
  \/ z # None /\ z - t >= Window

\* A message at time t would repeat arrival i.
Fresh(h, z, t, i) == ~(t - h[i].at >= Window) /\ ~FlushedAfter(h, z, h[i].at, i)

\* A message takes the flush since the last arrival into the history.
LEMMA FlushedGrows ==
  ASSUME NEW h \in Seq(Messages), NEW x \in Messages, NEW t, NEW i \in 1..Len(h)
  PROVE  /\ OverAt(Append(h, x), t, i, Len(h) + 1) <=>
              x.at - t >= Window \/ FlushedAfter(h, x.rolled, t, i)
         /\ FlushedAfter(Append(h, x), None, t, i) <=> FlushedAfter(h, x.rolled, t, i)
<1> DEFINE g == Append(h, x)
           n == Len(h) + 1
<1>1. /\ Len(h) \in Nat /\ Len(g) = n /\ g[n] = x
      /\ \A m \in 1..Len(h) : g[m] = h[m]
  BY GrownIs
<1>2. (i + 1)..n = ((i + 1)..Len(h)) \cup {n} /\ \A m \in (i + 1)..Len(h) : m \in 1..Len(h)
  BY <1>1
<1> HIDE DEF g, n
<1>3. (\E m \in (i + 1)..n : g[m].rolled # None /\ g[m].rolled - t >= Window) <=>
        FlushedAfter(h, x.rolled, t, i)
  BY <1>1, <1>2 DEF FlushedAfter
<1> QED BY <1>1, <1>3 DEF OverAt, FlushedAfter, g, n

\* The new message repeats a live one, and its window is full by the posts in it.
LEMMA NewDecision ==
  ASSUME NEW h \in Seq(Messages), NEW x \in Messages
  PROVE  /\ RepeatAt(Append(h, x), Len(h) + 1) <=>
              \E i \in FiringOf(h) : Live(h, x.key, i) /\ Fresh(h, x.rolled, x.at, i)
         /\ FullAt(Append(h, x), Len(h) + 1) <=>
              Max > 0 /\ Cardinality(PostsIn(h, Windows(Append(h, x))[Len(h) + 1])) >= Max
<1> DEFINE g == Append(h, x)
           n == Len(h)
<1>1. /\ n \in Nat /\ g[n + 1] = x /\ (n + 1) - 1 = n
      /\ \A i \in 1..n : g[i] = h[i] /\ Windows(g)[i] = Windows(h)[i]
  BY GrownIs
<1>2. FiringOf(h) = {i \in 1..n : h[i].status = "firing"}
  BY DEF FiringOf
<1>3. \A k, i : Live(h, k, i) <=>
        /\ i \in 1..n /\ h[i].status = "firing" /\ h[i].sent = TRUE /\ h[i].key = k
        /\ \A r \in (i + 1)..n : h[r].status # "firing" => h[r].key # k
  BY <1>2 DEF Live
<1>4. PostsIn(h, Windows(g)[n + 1]) =
        {i \in 1..n : h[i].status = "firing" /\ h[i].sent = TRUE /\ Windows(h)[i] = Windows(g)[n + 1]}
  BY <1>2 DEF PostsIn
<1>5. \A i \in 1..n : OverAt(g, h[i].at, i, n + 1) <=> ~Fresh(h, x.rolled, x.at, i)
  BY FlushedGrows DEF Fresh
<1> HIDE DEF g, n
<1>6. \A i \in 1..n : \A r \in (i + 1)..n : r \in 1..n
  OBVIOUS
<1>7. RepeatAt(g, n + 1) <=> \E i \in FiringOf(h) : Live(h, x.key, i) /\ Fresh(h, x.rolled, x.at, i)
  BY <1>1, <1>2, <1>3, <1>6, <1>5 DEF RepeatAt
<1>8. PostsUpTo(g, n + 1) = PostsIn(h, Windows(g)[n + 1])
  BY <1>1, <1>4 DEF PostsUpTo
<1> QED BY <1>7, <1>8 DEF FullAt, g, n

\* The sets of the history are finite.
LEMMA SetsFinite ==
  ASSUME NEW h \in Seq(Messages), NEW s
  PROVE  /\ IsFiniteSet(PostsIn(h, s)) /\ IsFiniteSet(HeldOf(h, s))
         /\ \A k : IsFiniteSet(HeldFor(h, s, k))
         /\ Len(h) + 1 \notin FiringOf(h)
<1>1. Len(h) \in Nat /\ IsFiniteSet(1..Len(h))
  BY FS_Interval
<1>2. /\ PostsIn(h, s) \in SUBSET (1..Len(h)) /\ HeldOf(h, s) \in SUBSET (1..Len(h))
      /\ \A k : HeldFor(h, s, k) \in SUBSET (1..Len(h))
  BY DEF PostsIn, HeldOf, HeldFor, FiringOf
<1>3. Len(h) + 1 \notin FiringOf(h)
  BY <1>1 DEF FiringOf
<1> QED BY <1>1, <1>2, <1>3, FS_Subset

\* What a message adds: nothing if it is resolved, itself if it fires, and its
\* window if it reaches max there.
LEMMA SetsGrow ==
  ASSUME NEW h \in Seq(Messages), NEW x \in Messages
  PROVE  LET g == Append(h, x)
             n == Len(h) + 1
         IN  /\ FiringOf(g) = FiringOf(h) \cup (IF x.status = "firing" THEN {n} ELSE {})
             /\ CappedOf(g) = CappedOf(h) \cup
                  (IF x.status = "firing" /\ CapsAt(g, n) THEN {Windows(g)[n]} ELSE {})
<1> DEFINE g == Append(h, x)
           n == Len(h) + 1
<1>1. /\ Len(h) \in Nat /\ Len(g) = n /\ n \notin 1..Len(h) /\ 1..n = (1..Len(h)) \cup {n}
      /\ g[n] = x
      /\ \A i \in 1..Len(h) : g[i] = h[i] /\ Windows(g)[i] = Windows(h)[i]
  BY GrownIs
<1>2. \A i \in 1..Len(h) : CapsAt(g, i) <=> CapsAt(h, i)
  BY DecisionsStay DEF CapsAt
<1> HIDE DEF g, n
<1>3. FiringOf(g) = FiringOf(h) \cup (IF x.status = "firing" THEN {n} ELSE {})
  BY <1>1 DEF FiringOf
<1>4. \A i \in FiringOf(h) : i \in 1..Len(h)
  BY DEF FiringOf
<1>5. CappedOf(g) = CappedOf(h) \cup
        (IF x.status = "firing" /\ CapsAt(g, n) THEN {Windows(g)[n]} ELSE {})
  BY <1>1, <1>2, <1>3, <1>4 DEF CappedOf
<1> QED BY <1>3, <1>5 DEF g, n

\* A resolved message adds nothing.
LEMMA ResolvedAdds ==
  ASSUME NEW h \in Seq(Messages), NEW x \in Messages, x.status # "firing"
  PROVE  LET g == Append(h, x)
         IN  /\ FiringOf(g) = FiringOf(h) /\ CappedOf(g) = CappedOf(h)
             /\ \A z : PostsIn(g, z) = PostsIn(h, z) /\ HeldOf(g, z) = HeldOf(h, z)
             /\ \A z, k : HeldFor(g, z, k) = HeldFor(h, z, k)
<1> DEFINE g == Append(h, x)
           n == Len(h) + 1
<1>1. FiringOf(g) = FiringOf(h)
  BY SetsGrow
<1>2. CappedOf(g) = CappedOf(h)
  BY SetsGrow
<1>3. \A i \in FiringOf(h) : g[i] = h[i] /\ Windows(g)[i] = Windows(h)[i]
  BY GrownIs DEF FiringOf
<1> HIDE DEF g
<1>4. \A z : PostsIn(g, z) = PostsIn(h, z) /\ HeldOf(g, z) = HeldOf(h, z)
  BY <1>1, <1>3 DEF PostsIn, HeldOf
<1>5. \A z : \A i \in HeldOf(h, z) : g[i] = h[i]
  BY <1>3 DEF HeldOf
<1>6. \A z, k : HeldFor(g, z, k) = HeldFor(h, z, k)
  BY <1>4, <1>5 DEF HeldFor
<1> QED BY <1>1, <1>2, <1>4, <1>6 DEF g

\* g is h and the firing message x, the n-th.
Adds(h, x, g, n) ==
  /\ FiringOf(g) = FiringOf(h) \cup {n}
  /\ CapsAt(g, n) => CappedOf(g) = CappedOf(h) \cup {Windows(g)[n]}
  /\ ~CapsAt(g, n) => CappedOf(g) = CappedOf(h)
  /\ \A z : Windows(g)[n] # z =>
       /\ PostsIn(g, z) = PostsIn(h, z) /\ HeldOf(g, z) = HeldOf(h, z)
       /\ \A k : HeldFor(g, z, k) = HeldFor(h, z, k)
  /\ \A z : Windows(g)[n] = z /\ x.sent = TRUE =>
       /\ PostsIn(g, z) = PostsIn(h, z) \cup {n} /\ HeldOf(g, z) = HeldOf(h, z)
       /\ \A k : HeldFor(g, z, k) = HeldFor(h, z, k)
  /\ \A z : Windows(g)[n] = z /\ x.sent = FALSE =>
       /\ PostsIn(g, z) = PostsIn(h, z) /\ HeldOf(g, z) = HeldOf(h, z) \cup {n}
       /\ HeldFor(g, z, x.key) = HeldFor(h, z, x.key) \cup {n}
       /\ \A k : k # x.key => HeldFor(g, z, k) = HeldFor(h, z, k)

\* A firing message adds itself to its window.
LEMMA FiringAdds ==
  ASSUME NEW h \in Seq(Messages), NEW x \in Messages, x.status = "firing"
  PROVE  Adds(h, x, Append(h, x), Len(h) + 1)
<1> DEFINE g == Append(h, x)
           n == Len(h) + 1
<1>1. FiringOf(g) = FiringOf(h) \cup {n}
  BY SetsGrow
<1>2. CapsAt(g, n) => CappedOf(g) = CappedOf(h) \cup {Windows(g)[n]}
  BY SetsGrow
<1>3. ~CapsAt(g, n) => CappedOf(g) = CappedOf(h)
  BY SetsGrow
<1>4. /\ \A i \in FiringOf(h) : g[i] = h[i] /\ Windows(g)[i] = Windows(h)[i]
      /\ g[n] = x
  BY GrownIs DEF FiringOf
<1> HIDE DEF g, n
<1>5. \A z : Windows(g)[n] # z => PostsIn(g, z) = PostsIn(h, z) /\ HeldOf(g, z) = HeldOf(h, z)
  BY <1>1, <1>4 DEF PostsIn, HeldOf
<1>6. \A z : Windows(g)[n] = z /\ x.sent = TRUE =>
        PostsIn(g, z) = PostsIn(h, z) \cup {n} /\ HeldOf(g, z) = HeldOf(h, z)
  BY <1>1, <1>4 DEF PostsIn, HeldOf
<1>7. \A z : Windows(g)[n] = z /\ x.sent = FALSE =>
        PostsIn(g, z) = PostsIn(h, z) /\ HeldOf(g, z) = HeldOf(h, z) \cup {n}
  BY <1>1, <1>4 DEF PostsIn, HeldOf
<1>8. \A z : \A i \in HeldOf(h, z) : g[i] = h[i]
  BY <1>4 DEF HeldOf
<1>9. ASSUME NEW z, NEW k, HeldOf(g, z) = HeldOf(h, z) PROVE HeldFor(g, z, k) = HeldFor(h, z, k)
  BY <1>8, <1>9 DEF HeldFor
<1>10. ASSUME NEW z, NEW k, HeldOf(g, z) = HeldOf(h, z) \cup {n}
       PROVE  /\ k = x.key => HeldFor(g, z, k) = HeldFor(h, z, k) \cup {n}
              /\ k # x.key => HeldFor(g, z, k) = HeldFor(h, z, k)
  BY <1>4, <1>8, <1>10 DEF HeldFor
<1>11. Adds(h, x, g, n)
  BY <1>1, <1>2, <1>3, <1>5, <1>6, <1>7, <1>9, <1>10 DEF Adds
<1> QED BY <1>11 DEF g, n
-----------------------------------------------------------------------------
(* The state against the history: h the arrivals, w the open window, s the *)
(* keys, c the summaries of closed windows, z the flush since the last     *)
(* arrival, t the time of the next one                                     *)

Ended(w, t) == w.start # None /\ t - w.start >= Window

LastFiring(h) == CHOOSE j \in FiringOf(h) : \A k \in FiringOf(h) : k <= j

TimesOK(h, t) == \A i \in 1..Len(h) : h[i].at <= t

\* The open window is that of the last firing arrival, and no flush has closed
\* it; when none is open, that arrival's is over.
OpenOK(h, w, z, t) ==
  /\ w.start # None => /\ FiringOf(h) # {}
                       /\ Windows(h)[LastFiring(h)] = w.first
                       /\ h[w.first].at = w.start
                       /\ z = None /\ ~FlushedAfter(h, None, w.start, LastFiring(h))
  /\ w.start = None => /\ w = NoWindow
                       /\ FiringOf(h) # {} =>
                            LET b == h[Windows(h)[LastFiring(h)]].at
                            IN  t - b >= Window \/ FlushedAfter(h, z, b, LastFiring(h))

\* A key that is remembered was sent by a live message that no flush forgot;
\* one that is not, by none that is fresh.
SentOK(h, s, z, t) ==
  \A k \in Keys :
    /\ s[k] # None => \E i \in FiringOf(h) : /\ Live(h, k, i) /\ h[i].at = s[k]
                                             /\ ~FlushedAfter(h, z, h[i].at, i)
    /\ \A i \in FiringOf(h) :
         Live(h, k, i) /\ Fresh(h, z, t, i) => s[k] # None /\ s[k] >= h[i].at

\* The open window's counters count its messages.
CountsOK(h, w) ==
  /\ w.posts = Cardinality(PostsIn(h, w.first))
  /\ w.held = Cardinality(HeldOf(h, w.first))
  /\ \A k \in Keys : w.heldKeys[k] = Cardinality(HeldFor(h, w.first, k))
  /\ w.capped = TRUE <=> w.first \in CappedOf(h)

\* What a summary says of its window.
Tells(h, s) ==
  /\ s.from = h[s.first].at
  /\ s.held = Cardinality(HeldOf(h, s.first))
  /\ \A k \in Keys : s.heldKeys[k] = Cardinality(HeldFor(h, s.first, k))

\* A closed window has a summary if it was capped, one, with its counts.
ClosedOK(h, c, w) ==
  /\ {c[n].first : n \in DOMAIN c} = CappedOf(h) \ {w.first}
  /\ \A m, n \in DOMAIN c : c[m].first = c[n].first => m = n
  /\ \A n \in DOMAIN c : Tells(h, c[n])

Reflects(h, w, s, c, z, t) ==
  /\ TimesOK(h, t) /\ OpenOK(h, w, z, t) /\ SentOK(h, s, z, t)
  /\ CountsOK(h, w) /\ ClosedOK(h, c, w) /\ Decided(h)

\* The times of a history are numbers, and its windows are named by arrivals.
LEMMA HistoryTypes ==
  ASSUME NEW h \in Seq(Messages)
  PROVE  /\ Len(h) \in Nat
         /\ \A i \in 1..Len(h) : h[i].at \in Nat /\ Windows(h)[i] \in 1..Len(h)
         /\ \A i \in FiringOf(h) : i \in 1..Len(h) /\ h[i].at \in Nat /\ Windows(h)[i] \in 1..Len(h)
         /\ FiringOf(h) # {} => /\ LastFiring(h) \in FiringOf(h)
                                /\ LastBefore(h, Len(h) + 1) = LastFiring(h)
<1>1. Len(h) \in Nat /\ \A i \in 1..Len(h) : h[i] \in Messages
  OBVIOUS
<1>2. \A i \in 1..Len(h) : h[i].at \in Nat
  BY <1>1 DEF Messages
<1>3. \A i \in 1..Len(h) : Windows(h)[i] \in 1..Len(h)
  BY <1>1, WindowsRange
<1>4. \A i \in FiringOf(h) : i \in 1..Len(h)
  BY DEF FiringOf
<1>5. Before(h, Len(h) + 1) = FiringOf(h)
  BY <1>1 DEF Before, FiringOf
<1>6. LastBefore(h, Len(h) + 1) = LastFiring(h)
  BY <1>5 DEF LastBefore, LastFiring
<1>7. FiringOf(h) # {} => LastFiring(h) \in FiringOf(h)
  BY <1>1, <1>5, <1>6, LastBeforeIs
<1> QED BY <1>1, <1>2, <1>3, <1>4, <1>6, <1>7

\* Time alone changes nothing of it.
LEMMA LaterReflects ==
  ASSUME NEW h \in Seq(Messages), NEW w, NEW s, NEW c, NEW z,
         NEW t \in Nat, NEW u \in Nat, t <= u, Reflects(h, w, s, c, z, t)
  PROVE  Reflects(h, w, s, c, z, u)
<1>1. /\ \A i \in 1..Len(h) : h[i].at \in Nat /\ Windows(h)[i] \in 1..Len(h)
      /\ \A i \in FiringOf(h) : i \in 1..Len(h)
      /\ FiringOf(h) # {} => LastFiring(h) \in FiringOf(h)
  BY HistoryTypes
<1>2. Window \in Nat
  BY ThrottleAssumption DEF ThrottleAssumption
<1>3. TimesOK(h, u)
  BY <1>1 DEF Reflects, TimesOK
<1>4. \A i \in 1..Len(h) : t - h[i].at >= Window => u - h[i].at >= Window
  BY <1>1, <1>2
<1>5. OpenOK(h, w, z, u)
  <2>1. FiringOf(h) # {} => Windows(h)[LastFiring(h)] \in 1..Len(h)
    BY <1>1
  <2> QED BY <1>4, <2>1 DEF Reflects, OpenOK
<1>6. SentOK(h, s, z, u)
  <2>1. \A i \in FiringOf(h) : Fresh(h, z, u, i) => Fresh(h, z, t, i)
    BY <1>1, <1>4 DEF Fresh
  <2> QED BY <2>1 DEF Reflects, SentOK
<1> QED BY <1>3, <1>5, <1>6 DEF Reflects
-----------------------------------------------------------------------------
(* roll *)

\* What is no arrival names no window.
LEMMA NoSuchWindow ==
  ASSUME NEW h \in Seq(Messages), NEW n, n \notin 1..Len(h)
  PROVE  /\ n \notin CappedOf(h) /\ PostsIn(h, n) = {} /\ HeldOf(h, n) = {}
         /\ \A k : HeldFor(h, n, k) = {}
<1>1. \A i \in FiringOf(h) : Windows(h)[i] # n
  BY HistoryTypes
<1> QED BY <1>1 DEF CappedOf, PostsIn, HeldOf, HeldFor

\* When no window is open there is nothing to count.
LEMMA NoWindowCounts == ASSUME NEW h \in Seq(Messages) PROVE CountsOK(h, NoWindow)
<1>1. /\ NoWindow.first = 0 /\ NoWindow.posts = 0 /\ NoWindow.held = 0 /\ NoWindow.capped = FALSE
      /\ \A k \in Keys : NoWindow.heldKeys[k] = 0
  BY DEF NoWindow
<1>2. 0 \notin 1..Len(h)
  BY HistoryTypes
<1> QED BY <1>1, <1>2, NoSuchWindow, FS_EmptySet DEF CountsOK

\* The summaries of a history, and one more.
LEMMA AppendIs ==
  ASSUME NEW S, NEW a \in Seq(S), NEW b \in Seq(S), NEW x \in S
  PROVE  /\ a \o Append(b, x) = Append(a \o b, x) /\ a \o b \in Seq(S)
         /\ DOMAIN Append(a \o b, x) = DOMAIN (a \o b) \cup {Len(a \o b) + 1}
         /\ Len(a \o b) + 1 \notin DOMAIN (a \o b)
         /\ \A n \in DOMAIN (a \o b) : Append(a \o b, x)[n] = (a \o b)[n]
         /\ Append(a \o b, x)[Len(a \o b) + 1] = x
<1>1. a \o b \in Seq(S) /\ Append(b, x) \in Seq(S) /\ a \o Append(b, x) \in Seq(S)
      /\ Append(a \o b, x) \in Seq(S)
  OBVIOUS
<1>2. Len(a \o Append(b, x)) = Len(Append(a \o b, x))
  OBVIOUS
<1>3. ASSUME NEW n \in 1..Len(a \o Append(b, x))
      PROVE  (a \o Append(b, x))[n] = Append(a \o b, x)[n]
  <2>1. Len(a) \in Nat /\ Len(b) \in Nat /\ n \in 1..(Len(a) + Len(b) + 1)
    OBVIOUS
  <2>2. CASE n <= Len(a)
    BY <2>1, <2>2
  <2>3. CASE n = Len(a) + Len(b) + 1
    BY <2>1, <2>3
  <2>4. CASE n > Len(a) /\ n <= Len(a) + Len(b)
    BY <2>1, <2>4
  <2> QED BY <2>1, <2>2, <2>3, <2>4
<1>4. a \o Append(b, x) = Append(a \o b, x)
  BY <1>1, <1>2, <1>3
<1> DEFINE c == a \o b
<1>5. c \in Seq(S) /\ Len(c) \in Nat
  BY <1>1
<1> HIDE DEF c
<1>6. /\ DOMAIN Append(c, x) = DOMAIN c \cup {Len(c) + 1} /\ Len(c) + 1 \notin DOMAIN c
      /\ \A n \in DOMAIN c : Append(c, x)[n] = c[n]
      /\ Append(c, x)[Len(c) + 1] = x
  BY <1>5
<1> QED BY <1>4, <1>5, <1>6 DEF c

\* What roll at time d forgets, a window and the keys, matters to no later
\* message: d is the message's own time, or a flusher's whose call u recalls.
LEMMA RollReflects ==
  ASSUME BoundInv, NEW t \in Nat, NEW d \in Nat, NEW u, u = d \/ (u = rolled /\ d = t),
         Reflects(arrivals, win, sent, flushed \o pending, rolled, t)
  PROVE  /\ Reflects(arrivals, RolledWin(d), RolledSent(d), flushed \o RolledPending(d),
                     IF Over(d) THEN u ELSE rolled, t)
         /\ ~Ended(RolledWin(d), d)
<1> DEFINE h == arrivals
           c == flushed \o pending
           e == flushed \o RolledPending(d)
<1>1. /\ win \in OpenWindows /\ h \in Seq(Messages) /\ sent \in [Keys -> Times]
      /\ flushed \in Seq(Summaries) /\ pending \in Seq(Summaries)
  BY DEF BoundInv, TypeOK, OpenWindows, Messages
<1>2. /\ TimesOK(h, t) /\ OpenOK(h, win, rolled, t) /\ SentOK(h, sent, rolled, t)
      /\ CountsOK(h, win) /\ ClosedOK(h, c, win) /\ Decided(h)
  BY DEF Reflects
<1>3. Window \in Nat /\ Window > 0
  BY ThrottleAssumption DEF ThrottleAssumption
<1>4. CASE ~Over(d)
  <2>1. RolledWin(d) = win /\ RolledSent(d) = sent /\ RolledPending(d) = pending
    BY <1>4 DEF RolledWin, RolledSent, RolledPending
  <2>2. ~Ended(win, d)
    BY <1>4 DEF Over, Ended
  <2> QED BY <1>4, <2>1, <2>2
<1>5. CASE Over(d)
  <2>1. /\ RolledWin(d) = NoWindow /\ NoWindow.start = None /\ NoWindow.first = 0
        /\ win.start # None /\ win.start \in Nat /\ d - win.start >= Window
    BY <1>1, <1>5 DEF RolledWin, Over, NoWindow, OpenWindows, Times
  <2>2. ~Ended(RolledWin(d), d)
    BY <2>1 DEF Ended
  <2>3. /\ rolled = None /\ FiringOf(h) # {} /\ Windows(h)[LastFiring(h)] = win.first
        /\ h[win.first].at = win.start
    BY <1>2, <2>1 DEF OpenOK
  <2>4. d # None
    BY DEF None
  \* The flush, or the message, has the window's end behind it.
  <2>5. ASSUME NEW b, NEW i
        PROVE  /\ d - b >= Window => t - b >= Window \/ FlushedAfter(h, u, b, i)
               /\ FlushedAfter(h, u, b, i) => d - b >= Window \/ FlushedAfter(h, None, b, i)
               /\ FlushedAfter(h, None, b, i) => FlushedAfter(h, u, b, i)
    BY <2>3, <2>4 DEF FlushedAfter
  <2>6. OpenOK(h, NoWindow, u, t)
    BY <2>1, <2>3, <2>5 DEF OpenOK
  <2>7. SentOK(h, RolledSent(d), u, t)
    <3> SUFFICES ASSUME NEW k \in Keys
                 PROVE  LET r == RolledSent(d)[k]
                        IN  /\ r # None => \E i \in FiringOf(h) : /\ Live(h, k, i) /\ h[i].at = r
                                                                  /\ ~FlushedAfter(h, u, h[i].at, i)
                            /\ \A i \in FiringOf(h) :
                                 Live(h, k, i) /\ Fresh(h, u, t, i) => r # None /\ r >= h[i].at
      BY DEF SentOK
    <3> DEFINE r == RolledSent(d)[k]
    <3>1. r = IF sent[k] # None /\ d - sent[k] >= Window THEN None ELSE sent[k]
      BY <1>5 DEF RolledSent
    <3> HIDE DEF r
    <3>2. ASSUME r # None
          PROVE  \E i \in FiringOf(h) : /\ Live(h, k, i) /\ h[i].at = r
                                        /\ ~FlushedAfter(h, u, h[i].at, i)
      <4>1. r = sent[k] /\ sent[k] # None /\ ~(d - sent[k] >= Window)
        BY <3>1, <3>2
      <4>2. PICK i \in FiringOf(h) : /\ Live(h, k, i) /\ h[i].at = sent[k]
                                     /\ ~FlushedAfter(h, None, h[i].at, i)
        BY <1>2, <2>3, <4>1 DEF SentOK
      <4>3. ~FlushedAfter(h, u, h[i].at, i)
        BY <2>5, <4>1, <4>2
      <4> QED BY <4>1, <4>2, <4>3
    <3>3. ASSUME NEW i \in FiringOf(h), Live(h, k, i), Fresh(h, u, t, i)
          PROVE  r # None /\ r >= h[i].at
      <4>1. /\ ~(t - h[i].at >= Window) /\ ~FlushedAfter(h, u, h[i].at, i)
            /\ h[i].at \in Nat
        BY <1>1, <3>3, HistoryTypes DEF Fresh
      <4>2. ~(d - h[i].at >= Window) /\ ~FlushedAfter(h, None, h[i].at, i)
        BY <2>5, <4>1
      <4>3. sent[k] # None /\ sent[k] >= h[i].at /\ sent[k] \in Nat
        BY <1>1, <1>2, <2>3, <3>3, <4>1, <4>2 DEF SentOK, Fresh, Times
      <4>4. ~(d - sent[k] >= Window)
        BY <1>3, <4>1, <4>2, <4>3
      <4> QED BY <3>1, <4>3, <4>4
    <3> QED BY <3>2, <3>3 DEF r
  <2>8. CountsOK(h, NoWindow)
    BY <1>1, NoWindowCounts
  <2>9. ClosedOK(h, e, NoWindow)
    <3>1. 0 \notin CappedOf(h)
      BY <1>1, HistoryTypes, NoSuchWindow
    <3>2. CASE win.capped = FALSE
      <4>1. e = c
        BY <3>2 DEF RolledPending
      <4>2. CappedOf(h) \ {win.first} = CappedOf(h) \ {0}
        BY <1>2, <3>1, <3>2 DEF CountsOK
      <4> HIDE DEF c, e, h
      <4> QED BY <1>2, <2>1, <4>1, <4>2 DEF ClosedOK
    <3>3. CASE win.capped = TRUE
      <4> DEFINE m == Len(c) + 1
      <4>1. Summary \in Summaries
        BY <1>1, <1>5, ThrottleAssumption
        DEF ThrottleAssumption, Over, Summary, Summaries, OpenWindows, Times
      <4>2. RolledPending(d) = Append(pending, Summary)
        BY <1>5, <3>3 DEF RolledPending
      <4>3. /\ e = Append(c, Summary) /\ DOMAIN e = DOMAIN c \cup {m} /\ m \notin DOMAIN c
            /\ \A n \in DOMAIN c : e[n] = c[n]
            /\ e[m] = Summary
        BY <1>1, <4>1, <4>2, AppendIs
      <4>4. /\ Summary.from = win.start /\ Summary.first = win.first /\ Summary.held = win.held
            /\ Summary.heldKeys = win.heldKeys
        BY DEF Summary
      <4>5. win.first \in CappedOf(h)
        BY <1>2, <3>3 DEF CountsOK
      <4> HIDE DEF c, e, h, m
      <4>6. {c[n].first : n \in DOMAIN c} = CappedOf(h) \ {win.first}
        BY <1>2 DEF ClosedOK
      <4>7. {e[n].first : n \in DOMAIN e} = {c[n].first : n \in DOMAIN c} \cup {win.first}
        BY <4>3, <4>4
      <4>8. {e[n].first : n \in DOMAIN e} = CappedOf(h) \ {NoWindow.first}
        BY <2>1, <3>1, <4>5, <4>6, <4>7
      <4>9. \A n \in DOMAIN c : c[n].first # win.first
        BY <4>6
      <4>10. \A l, n \in DOMAIN e : e[l].first = e[n].first => l = n
        BY <1>2, <4>3, <4>4, <4>9 DEF ClosedOK
      <4>11. ASSUME NEW n \in DOMAIN e PROVE Tells(h, e[n])
        <5>1. CASE n = m
          BY <1>2, <2>3, <4>3, <4>4, <5>1 DEF CountsOK, Tells
        <5>2. CASE n \in DOMAIN c
          BY <1>2, <4>3, <5>2 DEF ClosedOK
        <5> QED BY <4>3, <5>1, <5>2
      <4> QED BY <4>8, <4>10, <4>11 DEF ClosedOK
    <3>4. win.capped \in BOOLEAN
      BY <1>1 DEF OpenWindows
    <3> QED BY <3>2, <3>3, <3>4
  <2> HIDE DEF h, c, e
  <2>10. Reflects(h, NoWindow, RolledSent(d), e, u, t)
    BY <1>2, <2>6, <2>7, <2>8, <2>9 DEF Reflects
  <2> QED BY <1>5, <2>1, <2>2, <2>10 DEF h, e
<1> QED BY <1>4, <1>5
-----------------------------------------------------------------------------
(* admit *)

Message(key, t, status, passed, z) ==
  [key |-> key, at |-> t, status |-> status, sent |-> passed, rolled |-> z]

\* The window of the n-th message, a firing one, when w is open; it opens one
\* when none is.
Opened(w, t, n) == IF w.start = None THEN [w EXCEPT !.start = t, !.first = n] ELSE w

\* Which messages are live after one more.
LiveAdds(h, x, k, g, n) ==
  /\ \A i \in FiringOf(h) : Live(g, k, i) <=> Live(h, k, i) /\ (x.status # "firing" => x.key # k)
  /\ x.status = "firing" => (Live(g, k, n) <=> x.sent = TRUE /\ x.key = k)

\* A message makes itself live, and a resolved one ends its key's live messages.
LEMMA LiveGrows ==
  ASSUME NEW h \in Seq(Messages), NEW x \in Messages, NEW k \in Keys
  PROVE  LiveAdds(h, x, k, Append(h, x), Len(h) + 1)
<1> DEFINE g == Append(h, x)
           n == Len(h) + 1
<1>1. /\ Len(h) \in Nat /\ Len(g) = n /\ n \notin 1..Len(h) /\ 1..n = (1..Len(h)) \cup {n}
      /\ g[n] = x
      /\ \A i \in 1..Len(h) : g[i] = h[i]
  BY GrownIs
<1>2. FiringOf(g) = FiringOf(h) \cup (IF x.status = "firing" THEN {n} ELSE {})
  BY SetsGrow
<1>3. \A i \in 1..Len(h) : (i + 1)..n = ((i + 1)..Len(h)) \cup {n}
  BY <1>1
<1>4. \A i \in 1..Len(h) : \A r \in (i + 1)..Len(h) : r \in 1..Len(h)
  BY <1>1
<1>5. (n + 1)..n = {} /\ n \in Nat
  BY <1>1
<1> HIDE DEF g, n
<1>6. \A i \in FiringOf(h) : i \in 1..Len(h)
  BY DEF FiringOf
<1>7. ASSUME NEW i \in FiringOf(h)
      PROVE  Live(g, k, i) <=> Live(h, k, i) /\ (x.status # "firing" => x.key # k)
  <2>1. i \in 1..Len(h) /\ g[i] = h[i] /\ i \in FiringOf(g)
    BY <1>1, <1>2, <1>6
  <2>2. (\A r \in (i + 1)..n : g[r].status # "firing" => g[r].key # k) <=>
          /\ \A r \in (i + 1)..Len(h) : g[r].status # "firing" => g[r].key # k
          /\ g[n].status # "firing" => g[n].key # k
    BY <1>3, <2>1
  <2>3. \A r \in (i + 1)..Len(h) : g[r] = h[r]
    BY <1>1, <1>4, <2>1
  <2> QED BY <1>1, <2>1, <2>2, <2>3 DEF Live
<1>8. x.status = "firing" => (Live(g, k, n) <=> x.sent = TRUE /\ x.key = k)
  BY <1>1, <1>2, <1>5 DEF Live
<1> QED BY <1>7, <1>8 DEF g, n, LiveAdds

\* The last firing message of a longer history.
LEMMA LastGrows ==
  ASSUME NEW h \in Seq(Messages), NEW x \in Messages
  PROVE  LET g == Append(h, x)
         IN  /\ x.status = "firing" => LastFiring(g) = Len(h) + 1
             /\ x.status # "firing" => LastFiring(g) = LastFiring(h)
<1> DEFINE g == Append(h, x)
           n == Len(h) + 1
<1>1. FiringOf(g) = FiringOf(h) \cup (IF x.status = "firing" THEN {n} ELSE {})
  BY SetsGrow
<1>2. n \in Nat /\ \A i \in FiringOf(h) : i < n /\ i \in Nat
  BY HistoryTypes
<1> HIDE DEF g, n
<1>3. CASE x.status # "firing"
  BY <1>1, <1>3 DEF LastFiring, g
<1>4. CASE x.status = "firing"
  <2>1. n \in FiringOf(g) /\ \A k \in FiringOf(g) : k <= n /\ (k = n \/ k < n)
    BY <1>1, <1>2, <1>4
  <2>2. LastFiring(g) \in FiringOf(g) /\ n <= LastFiring(g)
    BY <2>1 DEF LastFiring
  <2>3. \A k \in FiringOf(g) : k \in Nat
    BY <1>1, <1>2, <1>4
  <2>4. ASSUME NEW m \in FiringOf(g), n <= m PROVE m = n
    BY <1>2, <2>1, <2>3, <2>4
  <2>5. LastFiring(g) = n
    BY <2>2, <2>4
  <2> QED BY <1>4, <2>5 DEF g, n
<1> QED BY <1>3, <1>4

\* A resolved message ends no window and makes its key new.
LEMMA ResolvedReflects ==
  ASSUME NEW h \in Seq(Messages), NEW w \in OpenWindows, NEW s \in [Keys -> Times], NEW c,
         NEW z \in Times, NEW t \in Nat, NEW key \in Keys, Reflects(h, w, s, c, z, t)
  PROVE  Reflects(Append(h, Message(key, t, "resolved", TRUE, z)), w, [s EXCEPT ![key] = None], c,
                  None, t)
<1> DEFINE x == Message(key, t, "resolved", TRUE, z)
           g == Append(h, x)
           n == Len(h) + 1
           r == [s EXCEPT ![key] = None]
<1>1. /\ x \in Messages /\ x.status # "firing" /\ x.sent = TRUE /\ x.at = t /\ x.key = key
      /\ x.rolled = z
  BY DEF Message, Messages
<1>2. /\ r[key] = None /\ \A k \in Keys \ {key} : r[k] = s[k]
  OBVIOUS
<1> HIDE DEF x
<1>3. /\ Len(h) \in Nat /\ Len(g) = n /\ 1..n = (1..Len(h)) \cup {n}
      /\ g[n] = x
      /\ \A i \in 1..Len(h) : g[i] = h[i] /\ Windows(g)[i] = Windows(h)[i]
  BY <1>1, GrownIs
<1>4. /\ FiringOf(g) = FiringOf(h) /\ CappedOf(g) = CappedOf(h)
      /\ \A v : PostsIn(g, v) = PostsIn(h, v) /\ HeldOf(g, v) = HeldOf(h, v)
      /\ \A v, k : HeldFor(g, v, k) = HeldFor(h, v, k)
  BY <1>1, ResolvedAdds
<1>5. \A k \in Keys : \A i \in FiringOf(h) : Live(g, k, i) <=> Live(h, k, i) /\ key # k
  <2>1. \A k \in Keys : LiveAdds(h, x, k, g, n)
    BY <1>1, LiveGrows
  <2> QED BY <1>1, <2>1 DEF LiveAdds
<1>6. \A j \in 1..Len(h) : (RepeatAt(g, j) <=> RepeatAt(h, j)) /\ (FullAt(g, j) <=> FullAt(h, j))
  BY <1>1, DecisionsStay
<1>7. \A b : \A i \in 1..Len(h) : FlushedAfter(g, None, b, i) <=> FlushedAfter(h, z, b, i)
  BY <1>1, FlushedGrows
<1>8. LastFiring(g) = LastFiring(h)
  BY <1>1, LastGrows
<1> HIDE DEF g, r, n
<1>9. /\ \A i \in FiringOf(h) : i \in 1..Len(h) /\ Windows(h)[i] \in 1..Len(h)
      /\ FiringOf(h) # {} => LastFiring(h) \in FiringOf(h)
      /\ \A v : v \in CappedOf(h) => v \in 1..Len(h)
  BY HistoryTypes, NoSuchWindow
<1>10. TimesOK(g, t)
  BY <1>1, <1>3 DEF Reflects, TimesOK
<1>11. OpenOK(g, w, None, t)
  <2>1. OpenOK(h, w, z, t)
    BY DEF Reflects
  <2>2. CASE FiringOf(h) = {}
    BY <1>4, <2>1, <2>2 DEF OpenOK
  <2>3. CASE FiringOf(h) # {}
    <3> DEFINE l == LastFiring(h)
               f == Windows(h)[l]
    <3>1. /\ l \in 1..Len(h) /\ f \in 1..Len(h) /\ Windows(g)[l] = f /\ g[f] = h[f]
      BY <1>3, <1>9, <2>3
    <3> HIDE DEF l, f
    <3>2. LastFiring(g) = l /\ LastFiring(h) = l /\ Windows(h)[l] = f
      BY <1>8 DEF l, f
    <3>3. \A b : FlushedAfter(g, None, b, l) <=> FlushedAfter(h, z, b, l)
      BY <1>7, <3>1
    <3>4. w.start # None => z = None /\ f = w.first /\ h[f].at = w.start /\ ~FlushedAfter(h, None, w.start, l)
      BY <2>1, <3>2 DEF OpenOK
    <3>5. w.start = None => w = NoWindow /\ (t - h[f].at >= Window \/ FlushedAfter(h, z, h[f].at, l))
      BY <2>1, <2>3, <3>2 DEF OpenOK
    <3> QED BY <1>4, <2>3, <3>1, <3>2, <3>3, <3>4, <3>5 DEF OpenOK
  <2> QED BY <2>2, <2>3
<1>12. SentOK(g, r, None, t)
  <2>1. SentOK(h, s, z, t)
    BY DEF Reflects
  <2>2. \A i \in FiringOf(h) : /\ g[i] = h[i]
                               /\ FlushedAfter(g, None, h[i].at, i) <=> FlushedAfter(h, z, h[i].at, i)
    BY <1>3, <1>7, <1>9
  <2> SUFFICES ASSUME NEW k \in Keys
               PROVE  /\ r[k] # None => \E i \in FiringOf(g) : /\ Live(g, k, i) /\ g[i].at = r[k]
                                                               /\ ~FlushedAfter(g, None, g[i].at, i)
                      /\ \A i \in FiringOf(g) :
                           Live(g, k, i) /\ Fresh(g, None, t, i) => r[k] # None /\ r[k] >= g[i].at
    BY DEF SentOK
  <2>3. CASE k = key
    BY <1>2, <1>4, <1>5, <2>3
  <2>4. CASE k # key
    <3>1. /\ r[k] = s[k] /\ FiringOf(g) = FiringOf(h)
          /\ \A i \in FiringOf(h) : Live(g, k, i) <=> Live(h, k, i)
      BY <1>2, <1>4, <1>5, <2>4
    <3>2. ASSUME r[k] # None
          PROVE  \E i \in FiringOf(g) : /\ Live(g, k, i) /\ g[i].at = r[k]
                                        /\ ~FlushedAfter(g, None, g[i].at, i)
      <4>1. PICK i \in FiringOf(h) : /\ Live(h, k, i) /\ h[i].at = s[k]
                                     /\ ~FlushedAfter(h, z, h[i].at, i)
        BY <2>1, <3>1, <3>2 DEF SentOK
      <4>2. g[i] = h[i] /\ ~FlushedAfter(g, None, h[i].at, i)
        BY <2>2, <4>1
      <4> QED BY <3>1, <4>1, <4>2
    <3>3. ASSUME NEW i \in FiringOf(g), Live(g, k, i), Fresh(g, None, t, i)
          PROVE  r[k] # None /\ r[k] >= g[i].at
      <4>1. i \in FiringOf(h) /\ Live(h, k, i) /\ g[i] = h[i]
        BY <2>2, <3>1, <3>3
      <4>2. Fresh(h, z, t, i)
        BY <2>2, <3>3, <4>1 DEF Fresh
      <4> QED BY <2>1, <3>1, <4>1, <4>2 DEF SentOK
    <3> QED BY <3>2, <3>3
  <2> QED BY <2>3, <2>4
<1>13. CountsOK(g, w)
  BY <1>4 DEF Reflects, CountsOK
<1>14. ClosedOK(g, c, w)
  <2>1. ClosedOK(h, c, w)
    BY DEF Reflects
  <2>2. \A m \in DOMAIN c : c[m].first \in 1..Len(h)
    BY <1>9, <2>1 DEF ClosedOK
  <2>3. \A m \in DOMAIN c : Tells(g, c[m])
    BY <1>3, <1>4, <2>1, <2>2 DEF ClosedOK, Tells
  <2> QED BY <1>4, <2>1, <2>3 DEF ClosedOK
<1>15. Decided(g)
  BY <1>1, <1>3, <1>6 DEF Reflects, Decided
<1> QED BY <1>10, <1>11, <1>12, <1>13, <1>14, <1>15 DEF Reflects, g, r, x

\* A firing message at time t, after a flush at z, is the n-th and falls into
\* window o, where w was open before.
FallsInto(h, w, z, t, n, o) ==
  /\ o \in OpenWindows /\ o.start \in Nat
  /\ CountsOK(h, o)
  /\ CappedOf(h) \ {o.first} = CappedOf(h) \ {w.first}
  /\ \A x \in Messages : x.status = "firing" /\ x.at = t /\ x.rolled = z =>
       /\ Windows(Append(h, x))[n] = o.first
       /\ Append(h, x)[o.first].at = o.start

\* The window a firing message falls into, as roll leaves it and as the history
\* says.
LEMMA OpenedIs ==
  ASSUME NEW h \in Seq(Messages), NEW w \in OpenWindows, NEW z \in Times, NEW t \in Nat,
         OpenOK(h, w, z, t), CountsOK(h, w), ~Ended(w, t)
  PROVE  FallsInto(h, w, z, t, Len(h) + 1, Opened(w, t, Len(h) + 1))
<1> DEFINE n == Len(h) + 1
           o == Opened(w, t, n)
           l == LastFiring(h)
           f == Windows(h)[l]
<1>1. /\ Len(h) \in Nat /\ n \in Nat /\ n \notin 1..Len(h) /\ 0 \notin 1..Len(h)
      /\ FiringOf(h) # {} => /\ l \in FiringOf(h) /\ l \in 1..Len(h) /\ f \in 1..Len(h)
                             /\ h[f].at \in Nat /\ LastBefore(h, n) = l
  BY HistoryTypes
<1>2. Window \in Nat /\ Window > 0
  BY ThrottleAssumption DEF ThrottleAssumption
\* The history's window: the last one's, or a new one.
<1>3. ASSUME NEW x \in Messages, x.at = t, x.rolled = z
      PROVE  LET g == Append(h, x)
             IN  /\ Windows(g)[n] =
                      IF FiringOf(h) # {} /\ ~(t - h[f].at >= Window \/ FlushedAfter(h, z, h[f].at, l))
                      THEN f ELSE n
                 /\ g[n].at = t
                 /\ FiringOf(h) # {} => g[f].at = h[f].at
  <2> DEFINE g == Append(h, x)
  <2>1. /\ Len(g) = n /\ n \in 1..n /\ n - 1 = Len(h)
        /\ g[n] = x
        /\ \A i \in 1..Len(h) : g[i] = h[i] /\ Windows(g)[i] = Windows(h)[i]
    BY GrownIs
  <2>2. \A b : \A i \in 1..Len(h) : OverAt(g, b, i, n) <=> t - b >= Window \/ FlushedAfter(h, z, b, i)
    BY <1>3, FlushedGrows
  <2> HIDE DEF g, n, l, f
  <2>3. Windows(g)[n] = WindowFrom(g, Windows(g), n)
    <3>1. Windows(g) = [i \in 1..n |-> WindowFrom(g, Windows(g), i)]
      BY <1>1, <2>1, WindowsUnfold
    <3> QED BY <2>1, <3>1
  <2>4. Before(g, n) = FiringOf(h) /\ Before(h, n) = FiringOf(h)
    BY <1>1, <2>1 DEF Before, FiringOf
  <2>5. FiringOf(h) # {} => LastBefore(g, n) = l
    BY <1>1, <2>4 DEF LastBefore
  <2>6. FiringOf(h) # {} => Windows(g)[l] = f /\ g[f] = h[f]
    BY <1>1, <2>1 DEF f
  <2>7. CASE FiringOf(h) = {}
    <3>1. Windows(g)[n] = n
      BY <2>3, <2>4, <2>7 DEF WindowFrom
    <3> QED BY <1>3, <2>1, <2>7, <3>1 DEF g
  <2>8. CASE FiringOf(h) # {}
    <3>1. OverAt(g, h[f].at, l, n) <=> t - h[f].at >= Window \/ FlushedAfter(h, z, h[f].at, l)
      BY <1>1, <2>2, <2>8
    <3>2. Windows(g)[n] = IF ~OverAt(g, h[f].at, l, n) THEN f ELSE n
      BY <2>3, <2>4, <2>5, <2>6, <2>8 DEF WindowFrom
    <3> QED BY <1>3, <2>1, <2>6, <2>8, <3>1, <3>2 DEF g
  <2> QED BY <2>7, <2>8 DEF g
<1> HIDE DEF n, l, f
<1>4. CASE w.start = None
  <2>1. /\ w = NoWindow
        /\ FiringOf(h) # {} => t - h[f].at >= Window \/ FlushedAfter(h, z, h[f].at, l)
    BY <1>4 DEF OpenOK, l, f
  <2>2. o = [w EXCEPT !.start = t, !.first = n]
    BY <1>4 DEF Opened
  <2>3. /\ o.start = t /\ o.first = n /\ o.posts = w.posts /\ o.held = w.held
        /\ o.capped = w.capped /\ o.heldKeys = w.heldKeys
    BY <2>2 DEF OpenWindows
  <2>4. o \in OpenWindows
    <3> DEFINE u == [w EXCEPT !.start = t]
    <3>1. o = [u EXCEPT !.first = n]
      BY <2>2 DEF OpenWindows
    <3>2. u \in OpenWindows
      BY DEF OpenWindows, Times
    <3> HIDE DEF u, o
    <3> QED BY <1>1, <3>1, <3>2 DEF OpenWindows
  <2>5. /\ w.posts = 0 /\ w.held = 0 /\ w.capped = FALSE /\ w.first = 0
        /\ \A k \in Keys : w.heldKeys[k] = 0
    BY <2>1 DEF NoWindow
  <2> HIDE DEF o
  <2>6. /\ n \notin CappedOf(h) /\ PostsIn(h, n) = {} /\ HeldOf(h, n) = {}
        /\ \A k : HeldFor(h, n, k) = {}
        /\ 0 \notin CappedOf(h)
    BY <1>1, NoSuchWindow
  <2>7. CountsOK(h, o)
    BY <2>3, <2>5, <2>6, FS_EmptySet DEF CountsOK
  <2>8. CappedOf(h) \ {o.first} = CappedOf(h) \ {w.first}
    BY <2>3, <2>5, <2>6
  <2>9. ASSUME NEW x \in Messages, x.at = t, x.rolled = z
        PROVE  Windows(Append(h, x))[n] = o.first /\ Append(h, x)[o.first].at = o.start
    BY <1>3, <2>1, <2>3, <2>9
  <2>10. FallsInto(h, w, z, t, n, o)
    BY <2>3, <2>4, <2>7, <2>8, <2>9 DEF FallsInto
  <2> QED BY <2>10 DEF o, n
<1>5. CASE w.start # None
  <2>1. o = w
    BY <1>5 DEF Opened
  <2>2. /\ w.start \in Nat /\ ~(t - w.start >= Window) /\ FiringOf(h) # {} /\ f = w.first
        /\ h[f].at = w.start /\ ~FlushedAfter(h, z, h[f].at, l)
    BY <1>5 DEF OpenOK, OpenWindows, Ended, Times, l, f
  <2>3. ASSUME NEW x \in Messages, x.at = t, x.rolled = z
        PROVE  Windows(Append(h, x))[n] = w.first /\ Append(h, x)[w.first].at = w.start
    BY <1>3, <2>2, <2>3
  <2>4. FallsInto(h, w, z, t, n, w)
    BY <2>2, <2>3 DEF FallsInto
  <2> QED BY <2>1, <2>4 DEF n
<1> QED BY <1>4, <1>5

\* The remembered time decides on a repeat as the history does.
LEMMA RepeatIs ==
  ASSUME NEW h \in Seq(Messages), NEW s \in [Keys -> Times], NEW z, NEW t \in Nat,
         SentOK(h, s, z, t), NEW k \in Keys
  PROVE  (s[k] # None /\ t - s[k] < Window) <=>
           \E i \in FiringOf(h) : Live(h, k, i) /\ Fresh(h, z, t, i)
<1>1. \A i \in FiringOf(h) : h[i].at \in Nat
  BY HistoryTypes
<1>2. Window \in Nat
  BY ThrottleAssumption DEF ThrottleAssumption
<1>3. ASSUME s[k] # None /\ t - s[k] < Window
      PROVE  \E i \in FiringOf(h) : Live(h, k, i) /\ Fresh(h, z, t, i)
  <2>1. PICK i \in FiringOf(h) : Live(h, k, i) /\ h[i].at = s[k] /\ ~FlushedAfter(h, z, h[i].at, i)
    BY <1>3 DEF SentOK
  <2> QED BY <1>1, <1>2, <1>3, <2>1 DEF Fresh
<1>4. ASSUME NEW i \in FiringOf(h), Live(h, k, i), Fresh(h, z, t, i)
      PROVE  s[k] # None /\ t - s[k] < Window
  <2>1. s[k] # None /\ s[k] >= h[i].at /\ s[k] \in Nat
    BY <1>4 DEF SentOK, Times
  <2> QED BY <1>1, <1>2, <1>4, <2>1 DEF Fresh
<1> QED BY <1>3, <1>4

\* A firing message that admit decides on as the history does.
LEMMA FiringReflects ==
  ASSUME NEW h \in Seq(Messages), NEW w \in OpenWindows, NEW s \in [Keys -> Times], NEW c,
         NEW z \in Times, NEW t \in Nat, NEW key \in Keys, NEW passed \in BOOLEAN,
         Reflects(h, w, s, c, z, t), ~Ended(w, t),
         NEW v, NEW r,
         LET g == Append(h, Message(key, t, "firing", passed, z))
             n == Len(h) + 1
             o == Opened(w, t, n)
         IN  /\ passed = TRUE <=> ~RepeatAt(g, n) /\ ~FullAt(g, n)
             /\ v.start = o.start /\ v.first = o.first
             /\ passed = TRUE =>
                  /\ v.posts = o.posts + 1 /\ v.held = o.held
                  /\ \A k \in Keys : v.heldKeys[k] = o.heldKeys[k]
                  /\ r = [s EXCEPT ![key] = t]
             /\ passed = FALSE =>
                  /\ v.posts = o.posts /\ v.held = o.held + 1
                  /\ v.heldKeys[key] = o.heldKeys[key] + 1
                  /\ \A k \in Keys \ {key} : v.heldKeys[k] = o.heldKeys[k]
                  /\ r = s
             /\ v.capped = TRUE <=> (o.capped = TRUE \/ CapsAt(g, n))
  PROVE  Reflects(Append(h, Message(key, t, "firing", passed, z)), v, r, c, None, t)
<1> DEFINE x == Message(key, t, "firing", passed, z)
           g == Append(h, x)
           n == Len(h) + 1
           o == Opened(w, t, n)
<1>1. /\ x \in Messages /\ x.status = "firing" /\ x.sent = passed /\ x.at = t /\ x.key = key
      /\ x.rolled = z
  BY DEF Message, Messages
<1>2. /\ passed = TRUE <=> ~RepeatAt(g, n) /\ ~FullAt(g, n)
      /\ v.start = o.start /\ v.first = o.first
      /\ v.capped = TRUE <=> (o.capped = TRUE \/ CapsAt(g, n))
  OBVIOUS
<1>3. /\ passed = TRUE =>
           /\ v.posts = o.posts + 1 /\ v.held = o.held
           /\ \A k \in Keys : v.heldKeys[k] = o.heldKeys[k]
           /\ r = [s EXCEPT ![key] = t]
      /\ passed = FALSE =>
           /\ v.posts = o.posts /\ v.held = o.held + 1
           /\ v.heldKeys[key] = o.heldKeys[key] + 1
           /\ \A k \in Keys \ {key} : v.heldKeys[k] = o.heldKeys[k]
           /\ r = s
  OBVIOUS
<1>4. /\ TimesOK(h, t) /\ OpenOK(h, w, z, t) /\ SentOK(h, s, z, t) /\ CountsOK(h, w) /\ ClosedOK(h, c, w)
      /\ Decided(h)
  BY DEF Reflects
<1>5. /\ o.start \in Nat
      /\ CountsOK(h, o)
      /\ CappedOf(h) \ {o.first} = CappedOf(h) \ {w.first}
      /\ Windows(g)[n] = o.first /\ g[o.first].at = o.start
  <2>1. FallsInto(h, w, z, t, n, o)
    BY <1>4, OpenedIs
  <2> HIDE DEF x, o, n
  <2> QED BY <1>1, <2>1 DEF FallsInto
<1>6. /\ Len(h) \in Nat /\ Len(g) = n /\ 1..n = (1..Len(h)) \cup {n} /\ n \notin 1..Len(h)
      /\ n \in Nat /\ g[n] = x
      /\ \A i \in 1..Len(h) : g[i] = h[i] /\ Windows(g)[i] = Windows(h)[i] /\ i < n
  BY <1>1, GrownIs
<1>7. \A j \in 1..Len(h) : (RepeatAt(g, j) <=> RepeatAt(h, j)) /\ (FullAt(g, j) <=> FullAt(h, j))
  BY <1>1, DecisionsStay
<1>8. Adds(h, x, g, n)
  BY <1>1, FiringAdds
<1>9. \A k \in Keys : LiveAdds(h, x, k, g, n)
  BY <1>1, LiveGrows
<1>10. /\ \A i \in FiringOf(h) : Fresh(g, None, t, i) <=> Fresh(h, z, t, i)
       /\ \A i \in FiringOf(h) : FlushedAfter(g, None, h[i].at, i) <=> FlushedAfter(h, z, h[i].at, i)
  <2>1. \A i \in FiringOf(h) : i \in 1..Len(h)
    BY HistoryTypes
  <2>2. \A b : \A i \in 1..Len(h) : FlushedAfter(g, None, b, i) <=> FlushedAfter(h, z, b, i)
    BY <1>1, FlushedGrows
  <2> QED BY <1>6, <2>1, <2>2 DEF Fresh
<1>11. LastFiring(g) = n
  BY <1>1, LastGrows
<1> HIDE DEF g, n
<1>12. /\ FiringOf(g) = FiringOf(h) \cup {n}
       /\ CapsAt(g, n) => CappedOf(g) = CappedOf(h) \cup {o.first}
       /\ ~CapsAt(g, n) => CappedOf(g) = CappedOf(h)
  BY <1>1, <1>5, <1>8 DEF Adds
<1>13. \A y : y # o.first => /\ HeldOf(g, y) = HeldOf(h, y)
                             /\ \A k : HeldFor(g, y, k) = HeldFor(h, y, k)
  BY <1>1, <1>5, <1>8 DEF Adds
<1>14. passed = TRUE =>
        /\ PostsIn(g, o.first) = PostsIn(h, o.first) \cup {n}
        /\ HeldOf(g, o.first) = HeldOf(h, o.first)
        /\ \A k : HeldFor(g, o.first, k) = HeldFor(h, o.first, k)
  <2>1. Windows(g)[n] = o.first
    BY <1>5
  <2>2. \A y : (Windows(g)[n] = y /\ x.sent = TRUE) =>
          /\ PostsIn(g, y) = PostsIn(h, y) \cup {n} /\ HeldOf(g, y) = HeldOf(h, y)
          /\ \A k : HeldFor(g, y, k) = HeldFor(h, y, k)
    BY <1>8 DEF Adds
  <2>3. ASSUME passed = TRUE
        PROVE  /\ PostsIn(g, o.first) = PostsIn(h, o.first) \cup {n}
               /\ HeldOf(g, o.first) = HeldOf(h, o.first)
               /\ \A k : HeldFor(g, o.first, k) = HeldFor(h, o.first, k)
    BY <1>1, <2>1, <2>2, <2>3
  <2> QED BY <2>3
<1>15. passed = FALSE =>
         /\ PostsIn(g, o.first) = PostsIn(h, o.first)
         /\ HeldOf(g, o.first) = HeldOf(h, o.first) \cup {n}
         /\ HeldFor(g, o.first, key) = HeldFor(h, o.first, key) \cup {n}
         /\ \A k : k # key => HeldFor(g, o.first, k) = HeldFor(h, o.first, k)
  BY <1>1, <1>5, <1>8 DEF Adds
<1>16. \A k \in Keys : /\ \A i \in FiringOf(h) : Live(g, k, i) <=> Live(h, k, i)
                       /\ Live(g, k, n) <=> passed = TRUE /\ key = k
  BY <1>1, <1>9 DEF LiveAdds
<1>17. \A i \in FiringOf(h) : i \in 1..Len(h)
  BY DEF FiringOf
<1>18. TimesOK(g, t)
  BY <1>1, <1>4, <1>6 DEF TimesOK
<1>19. OpenOK(g, v, None, t)
  <2>1. v.start # None
    BY <1>2, <1>5 DEF None
  <2>2. ~FlushedAfter(g, None, v.start, n)
    BY <1>6 DEF FlushedAfter
  <2> QED BY <1>2, <1>5, <1>12, <1>11, <2>1, <2>2 DEF OpenOK
<1>20. SentOK(g, r, None, t)
  <2>1. \A i \in FiringOf(h) : g[i] = h[i] /\ h[i].at <= t /\ h[i].at \in Nat
    BY <1>4, <1>6, <1>17, HistoryTypes DEF TimesOK
  <2> SUFFICES ASSUME NEW k \in Keys
               PROVE  /\ r[k] # None => \E i \in FiringOf(g) : /\ Live(g, k, i) /\ g[i].at = r[k]
                                                               /\ ~FlushedAfter(g, None, g[i].at, i)
                      /\ \A i \in FiringOf(g) :
                           Live(g, k, i) /\ Fresh(g, None, t, i) => r[k] # None /\ r[k] >= g[i].at
    BY DEF SentOK
  <2>2. CASE passed = TRUE /\ k = key
    <3>1. r[k] = t /\ t # None /\ t >= t
      BY <1>3, <2>2 DEF None
    <3>2. Live(g, k, n) /\ g[n].at = t /\ n \in FiringOf(g)
      BY <1>1, <1>6, <1>12, <1>16, <2>2
    <3>3. ~FlushedAfter(g, None, g[n].at, n)
      BY <1>6 DEF FlushedAfter
    <3>4. \A i \in FiringOf(g) : r[k] >= g[i].at
      BY <1>12, <2>1, <3>1, <3>2
    <3> QED BY <3>1, <3>2, <3>3, <3>4
  <2>3. CASE ~(passed = TRUE /\ k = key)
    <3>1. r[k] = s[k]
      BY <1>3, <2>3
    <3>2. ~Live(g, k, n)
      BY <1>16, <2>3
    <3> QED BY <1>4, <1>12, <1>16, <1>10, <2>1, <3>1, <3>2 DEF SentOK
  <2> QED BY <2>2, <2>3
<1>21. CountsOK(g, v)
  <2>1. /\ IsFiniteSet(PostsIn(h, o.first)) /\ n \notin PostsIn(h, o.first)
        /\ IsFiniteSet(HeldOf(h, o.first)) /\ n \notin HeldOf(h, o.first)
        /\ \A k : IsFiniteSet(HeldFor(h, o.first, k)) /\ n \notin HeldFor(h, o.first, k)
    <3>1. n \notin FiringOf(h)
      BY <1>6, <1>17
    <3>2. /\ n \notin PostsIn(h, o.first) /\ n \notin HeldOf(h, o.first)
          /\ \A k : n \notin HeldFor(h, o.first, k)
      BY <3>1 DEF PostsIn, HeldOf, HeldFor
    <3> QED BY <3>2, SetsFinite
  <2>2. /\ Cardinality(PostsIn(h, o.first) \cup {n}) = Cardinality(PostsIn(h, o.first)) + 1
        /\ Cardinality(HeldOf(h, o.first) \cup {n}) = Cardinality(HeldOf(h, o.first)) + 1
        /\ \A k : Cardinality(HeldFor(h, o.first, k) \cup {n}) = Cardinality(HeldFor(h, o.first, k)) + 1
    BY <2>1, FS_AddElement
  <2>3. /\ o.posts = Cardinality(PostsIn(h, o.first))
        /\ o.held = Cardinality(HeldOf(h, o.first))
        /\ \A k \in Keys : o.heldKeys[k] = Cardinality(HeldFor(h, o.first, k))
        /\ o.capped = TRUE <=> o.first \in CappedOf(h)
    BY <1>5 DEF CountsOK
  <2>4. v.capped = TRUE <=> v.first \in CappedOf(g)
    BY <1>2, <1>12, <2>3
  <2>5. CASE passed = TRUE
    <3>1. v.posts = Cardinality(PostsIn(g, o.first)) /\ v.held = Cardinality(HeldOf(g, o.first))
      BY <1>3, <1>14, <2>2, <2>3, <2>5
    <3>2. \A k \in Keys : v.heldKeys[k] = Cardinality(HeldFor(g, o.first, k))
      BY <1>3, <1>14, <2>3, <2>5
    <3> QED BY <1>2, <2>4, <3>1, <3>2 DEF CountsOK
  <2>6. CASE passed = FALSE
    <3>1. v.posts = Cardinality(PostsIn(g, o.first)) /\ v.held = Cardinality(HeldOf(g, o.first))
      BY <1>3, <1>15, <2>2, <2>3, <2>6
    <3>2. ASSUME NEW k \in Keys PROVE v.heldKeys[k] = Cardinality(HeldFor(g, o.first, k))
      <4>1. CASE key = k
        BY <1>3, <1>15, <2>2, <2>3, <2>6, <4>1
      <4>2. CASE key # k
        BY <1>3, <1>15, <2>3, <2>6, <4>2
      <4> QED BY <4>1, <4>2
    <3> QED BY <1>2, <2>4, <3>1, <3>2 DEF CountsOK
  <2> QED BY <2>5, <2>6
<1>22. ClosedOK(g, c, v)
  <2>1. {c[m].first : m \in DOMAIN c} = CappedOf(g) \ {v.first}
    <3>1. CappedOf(g) \ {o.first} = CappedOf(h) \ {w.first}
      BY <1>5, <1>12
    <3> QED BY <1>2, <1>4, <3>1 DEF ClosedOK
  <2>2. \A m \in DOMAIN c : c[m].first # o.first
    BY <1>2, <2>1
  <2>3. \A m \in DOMAIN c : c[m].first \in 1..Len(h)
    <3>1. \A m \in DOMAIN c : c[m].first \in CappedOf(h)
      BY <1>4 DEF ClosedOK
    <3> QED BY <3>1, NoSuchWindow
  <2>4. ASSUME NEW m \in DOMAIN c PROVE Tells(g, c[m])
    <3>1. /\ HeldOf(g, c[m].first) = HeldOf(h, c[m].first)
          /\ \A k : HeldFor(g, c[m].first, k) = HeldFor(h, c[m].first, k)
      BY <1>13, <2>2
    <3>2. g[c[m].first] = h[c[m].first]
      BY <1>6, <2>3
    <3> QED BY <1>4, <3>1, <3>2 DEF ClosedOK, Tells
  <2> QED BY <1>4, <2>1, <2>4 DEF ClosedOK
<1>23. Decided(g)
  <2> SUFFICES ASSUME NEW j \in 1..n
               PROVE  g[j].sent = TRUE <=> (g[j].status = "firing" => ~RepeatAt(g, j) /\ ~FullAt(g, j))
    BY <1>6 DEF Decided
  <2>1. CASE j = n
    BY <1>1, <1>2, <1>6, <2>1
  <2>2. CASE j \in 1..Len(h)
    BY <1>4, <1>6, <1>7, <2>2 DEF Decided
  <2> QED BY <1>6, <2>1, <2>2
<1> QED BY <1>18, <1>19, <1>20, <1>21, <1>22, <1>23 DEF Reflects, g, x
-----------------------------------------------------------------------------
(* The steps *)

\* The time of the next message, at the least: the one the worker has read.
WorkerTime == IF workerAt = None THEN now ELSE workerAt

IInv == BoundInv /\ Reflects(arrivals, win, sent, flushed \o pending, rolled, WorkerTime)

\* Nothing has arrived.
LEMMA ReflectsInit == Init => IInv
<1> SUFFICES ASSUME Init PROVE Reflects(arrivals, win, sent, flushed \o pending, rolled, WorkerTime)
  BY TypeInit DEF IInv
<1>1. /\ arrivals = << >> /\ win = NoWindow /\ win.start = None /\ win.first = 0
      /\ flushed \o pending = << >> /\ sent = [k \in Keys |-> None]
  BY DEF Init, NoWindow
<1>2. arrivals \in Seq(Messages)
  BY <1>1
<1>3. FiringOf(arrivals) = {} /\ CappedOf(arrivals) = {} /\ DOMAIN (flushed \o pending) = {}
  <2>1. FiringOf(arrivals) = {}
    BY <1>1 DEF FiringOf
  <2> QED BY <1>1, <2>1 DEF CappedOf
<1>4. TimesOK(arrivals, WorkerTime)
  BY <1>1 DEF TimesOK
<1>5. CountsOK(arrivals, win)
  BY <1>1, <1>2, NoWindowCounts
<1>6. OpenOK(arrivals, win, rolled, WorkerTime) /\ SentOK(arrivals, sent, rolled, WorkerTime)
  BY <1>1, <1>3 DEF OpenOK, SentOK
<1>7. ClosedOK(arrivals, flushed \o pending, win)
  BY <1>1, <1>3 DEF ClosedOK
<1>8. Decided(arrivals)
  BY <1>1 DEF Decided
<1> QED BY <1>4, <1>5, <1>6, <1>7, <1>8 DEF Reflects

\* The message of an arrival is decided on with the rolled state, which reflects
\* the history so far.
LEMMA ArrivalReflects ==
  ASSUME IInv, NEW key \in Keys, NEW passed \in BOOLEAN,
         Arrive(key, "firing", passed),
         passed = TRUE <=> ~Repeat(key) /\ ~Full,
         passed = TRUE => /\ win' = [OpenWin EXCEPT !.posts = @ + 1]
                          /\ sent' = [RolledSent(workerAt) EXCEPT ![key] = workerAt],
         passed = FALSE => sent' = RolledSent(workerAt),
         passed = FALSE /\ Repeat(key) => win' = Held(OpenWin, key),
         passed = FALSE /\ ~Repeat(key) => win' = [Held(OpenWin, key) EXCEPT !.capped = TRUE]
  PROVE  Reflects(arrivals', win', sent', flushed' \o pending', rolled', workerAt)
<1> DEFINE h == arrivals
           t == workerAt
           w == RolledWin(t)
           s == RolledSent(t)
           c == flushed \o RolledPending(t)
           x == Message(key, t, "firing", passed, rolled)
           g == Append(h, x)
           n == Len(h) + 1
           o == Opened(w, t, n)
<1>1. /\ h \in Seq(Messages) /\ t \in Nat /\ w \in OpenWindows /\ s \in [Keys -> Times]
      /\ OpenWin = o /\ o \in OpenWindows /\ rolled \in Times
  <2>1. t \in Nat /\ workerAt # None
    BY ArriveType DEF IInv
  <2> QED BY <2>1, RolledTypes, OpenWinType DEF IInv, BoundInv, TypeOK, Messages, OpenWin, Opened
<1>2. Reflects(h, w, s, c, rolled, t) /\ ~Ended(w, t)
  <2>1. workerAt # None
    BY DEF Arrive
  <2>2. BoundInv /\ Reflects(arrivals, win, sent, flushed \o pending, rolled, t)
    BY <2>1 DEF IInv, WorkerTime
  <2> QED BY <1>1, <2>2, RollReflects
<1>3. /\ x \in Messages /\ x.status = "firing" /\ x.key = key /\ x.at = t /\ x.rolled = rolled
      /\ arrivals' = g
  BY <1>1 DEF Message, Messages, Arrive
<1>4. Repeat(key) <=> s[key] # None /\ t - s[key] < Window
  BY DEF Repeat
<1>5. Full <=> Max > 0 /\ o.posts >= Max
  BY <1>1 DEF Full
<1>6. /\ win'.start = o.start /\ win'.first = o.first
      /\ passed = TRUE => /\ win'.posts = o.posts + 1 /\ win'.held = o.held
                          /\ win'.heldKeys = o.heldKeys /\ win'.capped = o.capped
      /\ passed = FALSE => /\ win'.posts = o.posts /\ win'.held = o.held + 1
                           /\ win'.heldKeys = [o.heldKeys EXCEPT ![key] = @ + 1]
                           /\ win'.capped = IF Repeat(key) THEN o.capped ELSE TRUE
  <2> HIDE DEF o
  <2>1. CASE passed = TRUE
    <3>1. win' = [o EXCEPT !.posts = @ + 1]
      BY <1>1, <2>1
    <3> QED BY <1>1, <2>1, <3>1 DEF OpenWindows
  <2>2. /\ Held(o, key).start = o.start /\ Held(o, key).first = o.first
        /\ Held(o, key).posts = o.posts
        /\ Held(o, key).held = o.held + 1 /\ Held(o, key).capped = o.capped
        /\ Held(o, key).heldKeys = [o.heldKeys EXCEPT ![key] = @ + 1]
    BY <1>1 DEF Held, OpenWindows
  <2>3. CASE passed = FALSE /\ Repeat(key)
    BY <1>1, <2>2, <2>3
  <2>4. CASE passed = FALSE /\ ~Repeat(key)
    <3> DEFINE u == Held(o, key)
    <3>1. win' = [u EXCEPT !.capped = TRUE] /\ u \in OpenWindows
      <4>1. Bounded(OpenWin, Len(arrivals)) /\ Len(arrivals) \in Nat
        BY OpenWinType DEF IInv, BoundInv, TypeOK, Arrive
      <4>2. Len(arrivals') = Len(arrivals) + 1 /\ Len(arrivals') <= MaxArrivals
        BY ArriveType DEF IInv
      <4>3. u \in OpenWindows
        BY <1>1, <4>1, <4>2, HeldType
      <4> QED BY <1>1, <2>4, <4>3
    <3> HIDE DEF u
    <3> QED BY <2>2, <2>4, <3>1 DEF u, OpenWindows
  <2> QED BY <2>1, <2>3, <2>4
<1> HIDE DEF h, w, s, c, t, x, g, n, o
<1>7. Repeat(key) <=> RepeatAt(g, n)
  <2>1. SentOK(h, s, rolled, t)
    BY <1>2 DEF Reflects
  <2>2. RepeatAt(g, n) <=> \E i \in FiringOf(h) : Live(h, key, i) /\ Fresh(h, rolled, t, i)
    BY <1>1, <1>3, NewDecision DEF g, n
  <2> QED BY <1>1, <1>4, <2>1, <2>2, RepeatIs
<1>8. Full <=> FullAt(g, n)
  <2>1. OpenOK(h, w, rolled, t) /\ CountsOK(h, w)
    BY <1>2 DEF Reflects
  <2>2. FallsInto(h, w, rolled, t, n, o)
    BY <1>1, <1>2, <2>1, OpenedIs DEF n, o
  <2>3. Windows(g)[n] = o.first /\ CountsOK(h, o)
    BY <1>3, <2>2 DEF FallsInto, g
  <2>4. FullAt(g, n) <=> Max > 0 /\ Cardinality(PostsIn(h, Windows(g)[n])) >= Max
    BY <1>1, <1>3, NewDecision DEF g, n
  <2> QED BY <1>5, <2>3, <2>4 DEF CountsOK
<1>9. win'.capped = TRUE <=> (o.capped = TRUE \/ CapsAt(g, n))
  <2>1. passed = TRUE => ~CapsAt(g, n)
    BY <1>7, <1>8 DEF CapsAt
  <2>2. passed = FALSE => (~Repeat(key) <=> CapsAt(g, n))
    BY <1>7, <1>8 DEF CapsAt
  <2> QED BY <1>6, <2>1, <2>2
<1>10. o.heldKeys \in [Keys -> Nat]
  BY <1>1, ThrottleAssumption DEF ThrottleAssumption, OpenWindows, Counts
<1>11. /\ passed = TRUE <=> ~RepeatAt(g, n) /\ ~FullAt(g, n)
       /\ passed = TRUE => /\ win'.posts = o.posts + 1 /\ win'.held = o.held
                           /\ \A k \in Keys : win'.heldKeys[k] = o.heldKeys[k]
                           /\ sent' = [s EXCEPT ![key] = t]
       /\ passed = FALSE => /\ win'.posts = o.posts /\ win'.held = o.held + 1
                            /\ win'.heldKeys[key] = o.heldKeys[key] + 1
                            /\ \A k \in Keys \ {key} : win'.heldKeys[k] = o.heldKeys[k]
                            /\ sent' = s
  BY <1>6, <1>7, <1>8, <1>10 DEF s, t
<1>12. Reflects(g, win', sent', c, None, t)
  BY <1>1, <1>2, <1>6, <1>9, <1>11, FiringReflects DEF g, n, o, x
<1>13. flushed' \o pending' = c /\ rolled' = None
  BY DEF Arrive, c, t
<1> QED BY <1>3, <1>12, <1>13 DEF t

\* The state reflects the history after every step.
LEMMA ReflectsStep == IInv /\ [Next]_vars => IInv'
<1> SUFFICES ASSUME IInv, [Next]_vars
             PROVE  Reflects(arrivals', win', sent', flushed' \o pending', rolled', WorkerTime')
  BY TypeStep DEF IInv
<1>1. BoundInv /\ Reflects(arrivals, win, sent, flushed \o pending, rolled, WorkerTime)
  BY DEF IInv
<1>2. /\ arrivals \in Seq(Messages) /\ now \in Nat /\ win \in OpenWindows /\ sent \in [Keys -> Times]
      /\ flushed \in Seq(Summaries) /\ rolled \in Times /\ flusherAt \in Times
      /\ workerAt # None => workerAt \in Nat /\ workerAt <= now
      /\ WorkerTime \in Nat /\ WorkerTime <= now
  BY <1>1 DEF BoundInv, TypeOK, Messages, OpenWindows, WorkerTime, Times
\* After an arrival the worker has no time, and the clock is no earlier.
<1>3. ASSUME NEW key \in Keys, NEW status \in {"firing", "resolved"}, NEW passed \in BOOLEAN,
             Arrive(key, status, passed),
             Reflects(arrivals', win', sent', flushed' \o pending', rolled', workerAt)
      PROVE  Reflects(arrivals', win', sent', flushed' \o pending', rolled', WorkerTime')
  <2>1. workerAt \in Nat /\ workerAt <= now /\ WorkerTime' = now /\ arrivals' \in Seq(Messages)
    BY <1>1, <1>2, <1>3, ArriveType DEF WorkerTime
  <2> QED BY <1>2, <1>3, <2>1, LaterReflects
<1>4. CASE UNCHANGED vars
  BY <1>1, <1>4 DEF vars, WorkerTime
<1>5. CASE Tick
  <2>1. /\ now' = now + 1
        /\ UNCHANGED <<workerAt, flusherAt, sent, win, pending, arrivals, rolled, flushed>>
    BY <1>5 DEF Tick
  <2>2. WorkerTime' \in Nat /\ WorkerTime <= WorkerTime'
    BY <1>2, <2>1 DEF WorkerTime
  <2>3. Reflects(arrivals, win, sent, flushed \o pending, rolled, WorkerTime')
    BY <1>1, <1>2, <2>2, LaterReflects
  <2> QED BY <2>1, <2>3
<1>6. CASE ReadForAdmit
  <2>1. /\ workerAt = None /\ workerAt' = now
        /\ UNCHANGED <<now, flusherAt, sent, win, pending, arrivals, rolled, flushed>>
    BY <1>6 DEF ReadForAdmit
  <2>2. WorkerTime' = WorkerTime
    BY <2>1 DEF WorkerTime
  <2> QED BY <1>1, <2>1, <2>2
<1>7. CASE ReadForDue
  <2>1. UNCHANGED <<now, workerAt, sent, win, pending, arrivals, rolled, flushed>>
    BY <1>7 DEF ReadForDue
  <2> QED BY <1>1, <2>1 DEF WorkerTime
<1>8. CASE Due
  <2> DEFINE d == flusherAt
  <2>1. d \in Nat
    BY <1>2, <1>8 DEF Due, Times
  <2>2. Reflects(arrivals, RolledWin(d), RolledSent(d), flushed \o RolledPending(d),
                 IF Over(d) THEN d ELSE rolled, WorkerTime)
    BY <1>1, <1>2, <2>1, RollReflects
  <2>3. /\ flushed' = flushed \o RolledPending(d) /\ pending' = << >>
        /\ win' = RolledWin(d) /\ sent' = RolledSent(d)
        /\ rolled' = (IF Over(d) THEN d ELSE rolled) /\ UNCHANGED <<now, workerAt, arrivals>>
    BY <1>8 DEF Due
  <2>4. flushed' \o pending' = flushed \o RolledPending(d)
    <3>1. RolledPending(d) \in Seq(Summaries)
      BY <1>1, <2>1, RolledTypes
    <3> QED BY <1>2, <2>3, <3>1
  <2>5. WorkerTime' = WorkerTime
    BY <2>3 DEF WorkerTime
  <2> QED BY <2>2, <2>3, <2>4, <2>5
<1>9. ASSUME NEW key \in Keys, AdmitResolved(key)
      PROVE  Reflects(arrivals', win', sent', flushed' \o pending', rolled', WorkerTime')
  <2> DEFINE t == workerAt
  <2>1. /\ win' = RolledWin(t) /\ sent' = [RolledSent(t) EXCEPT ![key] = None]
        /\ Arrive(key, "resolved", TRUE)
    BY <1>9 DEF AdmitResolved
  <2>2. /\ t # None /\ t \in Nat /\ WorkerTime = t
        /\ RolledWin(t) \in OpenWindows /\ RolledSent(t) \in [Keys -> Times]
    BY <1>1, <1>2, <2>1, RolledTypes DEF Arrive, WorkerTime
  <2>3. Reflects(arrivals, RolledWin(t), RolledSent(t), flushed \o RolledPending(t), rolled, t)
    BY <1>1, <2>2, RollReflects
  <2>4. Reflects(Append(arrivals, Message(key, t, "resolved", TRUE, rolled)), RolledWin(t),
                 [RolledSent(t) EXCEPT ![key] = None], flushed \o RolledPending(t), None, t)
    BY <1>2, <2>2, <2>3, ResolvedReflects
  <2>5. /\ arrivals' = Append(arrivals, Message(key, t, "resolved", TRUE, rolled))
        /\ flushed' = flushed /\ pending' = RolledPending(t) /\ rolled' = None
    BY <2>1 DEF Arrive, Message
  <2>6. Reflects(arrivals', win', sent', flushed' \o pending', rolled', t)
    BY <2>1, <2>4, <2>5
  <2> QED BY <1>3, <2>1, <2>6
<1>10. ASSUME NEW key \in Keys, HoldRepeat(key)
       PROVE  Reflects(arrivals', win', sent', flushed' \o pending', rolled', WorkerTime')
  <2>1. Arrive(key, "firing", FALSE)
    BY <1>10 DEF HoldRepeat
  <2>2. Reflects(arrivals', win', sent', flushed' \o pending', rolled', workerAt)
    BY <1>10, ArrivalReflects DEF HoldRepeat
  <2> QED BY <1>3, <2>1, <2>2
<1>11. ASSUME NEW key \in Keys, HoldFull(key)
       PROVE  Reflects(arrivals', win', sent', flushed' \o pending', rolled', WorkerTime')
  <2>1. Arrive(key, "firing", FALSE)
    BY <1>11 DEF HoldFull
  <2>2. Reflects(arrivals', win', sent', flushed' \o pending', rolled', workerAt)
    BY <1>11, ArrivalReflects DEF HoldFull
  <2> QED BY <1>3, <2>1, <2>2
<1>12. ASSUME NEW key \in Keys, Post(key)
       PROVE  Reflects(arrivals', win', sent', flushed' \o pending', rolled', WorkerTime')
  <2>1. Arrive(key, "firing", TRUE)
    BY <1>12 DEF Post
  <2>2. Reflects(arrivals', win', sent', flushed' \o pending', rolled', workerAt)
    BY <1>12, ArrivalReflects DEF Post
  <2> QED BY <1>3, <2>1, <2>2
<1> QED BY <1>4, <1>5, <1>6, <1>7, <1>8, <1>9, <1>10, <1>11, <1>12 DEF Next

\* admit holds a message back exactly when the whole history says that it is a
\* repeat or that its window has max posts, whatever roll and due forget and
\* however late the worker takes the lock.
THEOREM DecisionsHold == Spec => []DecisionsFollowHistory
<1>1. IInv => DecisionsFollowHistory
  BY HistoryIs DEF IInv, BoundInv, TypeOK, Messages, Reflects
<1> QED BY <1>1, ReflectsInit, ReflectsStep, PTL DEF Spec

\* A capped window has one summary with its counts; no other window has one.
LEMMA SummariesAre == IInv => OneSummaryPerCappedWindow
<1> SUFFICES ASSUME IInv PROVE OneSummaryPerCappedWindow
  OBVIOUS
<1> DEFINE h == arrivals
           c == flushed \o pending
           d == AllSummaries
<1>1. /\ h \in Seq(Messages) /\ win \in OpenWindows
      /\ flushed \in Seq(Summaries) /\ pending \in Seq(Summaries)
  BY DEF IInv, BoundInv, TypeOK, Messages, OpenWindows
<1>2. OpenOK(h, win, rolled, WorkerTime) /\ CountsOK(h, win) /\ ClosedOK(h, c, win)
  BY DEF IInv, Reflects
<1>3. /\ Capped = CappedOf(h)
      /\ \A z : HeldIn(z) = HeldOf(h, z)
  BY <1>1, HistoryIs
<1>4. /\ {d[n].first : n \in DOMAIN d} = CappedOf(h)
      /\ \A m, n \in DOMAIN d : d[m].first = d[n].first => m = n
      /\ \A n \in DOMAIN d : Tells(h, d[n])
  <2>1. CASE win.capped = FALSE
    <3>1. d = c
      <4>1. d = (flushed \o pending) \o << >>
        BY <2>1 DEF AllSummaries
      <4>2. c \in Seq(Summaries)
        BY <1>1
      <4> HIDE DEF d
      <4> QED BY <4>1, <4>2
    <3>2. CappedOf(h) \ {win.first} = CappedOf(h)
      BY <1>2, <2>1 DEF CountsOK
    <3> HIDE DEF c, d, h
    <3> QED BY <1>2, <3>1, <3>2 DEF ClosedOK
  <2>2. CASE win.capped = TRUE
    <3> DEFINE m == Len(c) + 1
    <3>1. /\ Summary.from = win.start /\ Summary.first = win.first
          /\ Summary.held = win.held /\ Summary.heldKeys = win.heldKeys
      BY DEF Summary
    <3>2. d = (flushed \o pending) \o <<Summary>>
      BY <1>1, <2>2 DEF AllSummaries
    <3>3. c \in Seq(Summaries) /\ Len(c) \in Nat
      BY <1>1
    <3> HIDE DEF c
    <3>4. /\ DOMAIN d = DOMAIN c \cup {m} /\ m \notin DOMAIN c
          /\ \A n \in DOMAIN c : d[n] = c[n]
          /\ d[m] = Summary
      BY <3>2, <3>3 DEF c
    <3>5. win.first \in CappedOf(h)
      BY <1>2, <2>2 DEF CountsOK
    <3> HIDE DEF d, h, m
    <3>6. {c[n].first : n \in DOMAIN c} = CappedOf(h) \ {win.first}
      BY <1>2 DEF ClosedOK
    <3>7. {d[n].first : n \in DOMAIN d} = {c[n].first : n \in DOMAIN c} \cup {win.first}
      BY <3>1, <3>4
    <3>8. {d[n].first : n \in DOMAIN d} = CappedOf(h)
      BY <3>5, <3>6, <3>7
    <3>9. \A n \in DOMAIN c : c[n].first # win.first
      BY <3>6
    <3>10. \A l, n \in DOMAIN d : d[l].first = d[n].first => l = n
      BY <1>2, <3>1, <3>4, <3>9 DEF ClosedOK
    <3>11. Tells(h, Summary)
      <4>1. win.start # None
        <5>1. 0 \notin CappedOf(h)
          BY <1>1, HistoryTypes, NoSuchWindow DEF h
        <5>2. win.start = None => win.first = 0
          BY <1>2 DEF OpenOK, NoWindow
        <5> QED BY <3>5, <5>1, <5>2
      <4> QED BY <1>2, <3>1, <4>1 DEF CountsOK, OpenOK, Tells
    <3>12. ASSUME NEW n \in DOMAIN d PROVE Tells(h, d[n])
      <4>1. CASE n = m
        BY <3>4, <3>11, <4>1
      <4>2. CASE n \in DOMAIN c
        BY <1>2, <3>4, <4>2 DEF ClosedOK
      <4> QED BY <3>4, <4>1, <4>2
    <3> QED BY <3>8, <3>10, <3>12
  <2> QED BY <1>1, <2>1, <2>2 DEF OpenWindows
<1>5. ASSUME NEW n \in DOMAIN AllSummaries
      PROVE  LET s == AllSummaries[n]
             IN  /\ s.from = arrivals[s.first].at
                 /\ s.held = Cardinality(HeldIn(s.first))
                 /\ \A k \in Keys :
                      s.heldKeys[k] = Cardinality({j \in HeldIn(s.first) : arrivals[j].key = k})
  <2> DEFINE s == AllSummaries[n]
  <2>1. Tells(h, s)
    BY <1>4
  <2> HIDE DEF s
  <2>2. \A k : {j \in HeldIn(s.first) : arrivals[j].key = k} = HeldFor(h, s.first, k)
    BY <1>3 DEF HeldFor
  <2> QED BY <1>3, <2>1, <2>2 DEF Tells, s
<1> QED BY <1>3, <1>4, <1>5 DEF OneSummaryPerCappedWindow

\* Each window that reached max has exactly one summary, in the flusher's hands,
\* waiting for it or still open, and it counts all that was held back, even by
\* a worker that the flush overtook.
THEOREM SummariesHold == Spec => []OneSummaryPerCappedWindow
BY SummariesAre, ReflectsInit, ReflectsStep, PTL DEF Spec
=============================================================================
