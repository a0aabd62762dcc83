---------------------------- MODULE ReplayProofs ----------------------------
(***************************************************************************)
(* For any outputs, runs, lengths and faults: the replays of Replay.tla    *)
(* lose no entry, repeat none without a reason, and exit with 0 only when  *)
(* all is done.                                                            *)
(***************************************************************************)
EXTENDS Replay, SequenceTheorems, TLAPS

\* A park, or an action of a run.
LEMMA Cases ==
  ASSUME [Next]_vars
  PROVE  \/ \E o \in Outputs : Park(o)
         \/ \E r \in Runs : \/ Start(r) \/ StartFails(r) \/ Signal(r) \/ NextEntry(r) \/ Exit(r)
                            \/ Sent(r) \/ Delete(r)
                            \/ \E b \in BOOLEAN : SendAgain(r, b) \/ SendFails(r, b) \/ DeleteFails(r, b)
         \/ UNCHANGED vars
BY DEF Next, Step

\* What is parked gets the next id; older entries stay as they are.
LEMMA Parking ==
  ASSUME TypeOK, NEW o \in Outputs, Park(o)
  PROVE  LET n == Len(output) + 1 IN
         /\ n \in Nat /\ n \notin Parked /\ Parked' = Parked \cup {n} /\ Len(output) \in Nat
         /\ output' \in Seq(Outputs)
         /\ posts' \in [Parked' -> Nat]
         /\ posts'[n] = 0 /\ \A e \in Parked : posts'[e] = posts[e]
         /\ stream' \subseteq stream \cup {n}
         /\ trimmed' = trimmed \cup ((stream \cup {n}) \ stream')
<1> DEFINE n == Len(output) + 1
<1>1. Len(output) \in Nat /\ output' \in Seq(Outputs) /\ Len(output') = n
  BY AppendProperties, LenProperties DEF TypeOK, Park
<1>2. n \in Nat /\ n \notin Parked /\ Parked' = Parked \cup {n}
  BY <1>1 DEF Parked
<1>3. posts \in Seq(Nat) /\ Len(posts) = Len(output)
  <2>1. posts \in [1..Len(output) -> Nat]
    BY DEF TypeOK, Parked
  <2>2. posts \in Seq(Nat)
    BY <1>1, <2>1, SeqDef
  <2>3. DOMAIN posts = 1..Len(posts) /\ Len(posts) \in Nat
    BY <2>2, LenProperties
  <2> QED BY <1>1, <2>1, <2>2, <2>3
<1>4. posts' \in Seq(Nat) /\ Len(posts') = n /\ posts'[n] = 0
      /\ \A e \in 1..Len(output) : posts'[e] = posts[e]
  BY <1>3, AppendProperties DEF Park
<1>5. posts' \in [1..n -> Nat]
  BY <1>4, LenProperties
<1>6. Parked' = 1..n
  BY <1>1 DEF Parked
<1>7. /\ stream' \subseteq stream \cup {n}
      /\ trimmed' = trimmed \cup ((stream \cup {n}) \ stream')
  BY DEF Park
<1> QED BY <1>1, <1>2, <1>4, <1>5, <1>6, <1>7 DEF Parked

\* The posts of one more, and of none.
LEMMA Posting ==
  ASSUME TypeOK, NEW c \in Parked, posts' = [posts EXCEPT ![c] = @ + 1]
  PROVE  /\ posts' \in [Parked -> Nat] /\ posts'[c] = posts[c] + 1 /\ posts'[c] > 0
         /\ \A e \in Parked \ {c} : posts'[e] = posts[e]
         /\ \A e \in Parked : posts'[e] >= posts[e]
BY DEF TypeOK
-----------------------------------------------------------------------------
\* A run is at an entry that it chose and does not do again; a dry run is at
\* none, and one whose send went through is posted.
AtInv ==
  \A r \in Runs : phase[r] \in {"sending", "sent"} =>
    /\ cur[r] \in chosen[r] /\ cur[r] \notin todo[r]
    /\ dryRun[r] = FALSE
    /\ phase[r] = "sent" => posts[cur[r]] > 0

Inv == TypeOK /\ AtInv

\* Every step keeps types and places.
LEMMA InvStep == Inv /\ [Next]_vars => Inv'
<1> SUFFICES ASSUME Inv, [Next]_vars PROVE Inv'
  OBVIOUS
<1> USE DEF Inv, run, history
<1>1. ASSUME NEW o \in Outputs, Park(o) PROVE Inv'
  <2>1. UNCHANGED <<run, excuse, faults>>
    BY <1>1 DEF Park
  <2>2. TypeOK'
    BY <1>1, <2>1, Parking DEF TypeOK
  <2>3. AtInv'
    BY <1>1, <2>1, Parking DEF AtInv, TypeOK
  <2> QED BY <2>2, <2>3
<1>2. ASSUME NEW r \in Runs, Start(r) PROVE Inv'
  <2>1. PICK o \in Outputs, since \in 1..(Len(output) + 1), one \in {0} \cup Parked, dry \in BOOLEAN :
          LET selected == {e \in stream : output[e] = o /\ e >= since /\ one \in {0, e}}
          IN /\ todo' = [todo EXCEPT ![r] = selected]
             /\ chosen' = [chosen EXCEPT ![r] = selected]
             /\ dryRun' = [dryRun EXCEPT ![r] = dry]
             /\ excuse' = IF dry THEN excuse
                          ELSE excuse \cup {e \in selected : \E q \in Runs : Working(q) /\ e \in chosen[q]}
    BY <1>2 DEF Start
  <2> DEFINE selected == {e \in stream : output[e] = o /\ e >= since /\ one \in {0, e}}
  <2>2. selected \subseteq Parked
    BY DEF TypeOK
  <2>3. /\ todo' \in [Runs -> SUBSET Parked] /\ chosen' \in [Runs -> SUBSET Parked]
        /\ todo'[r] = selected /\ chosen'[r] = selected
        /\ \A q \in Runs \ {r} : todo'[q] = todo[q] /\ chosen'[q] = chosen[q]
    BY <2>1, <2>2 DEF TypeOK
  <2>4. excuse' \subseteq Parked
    BY <2>1, <2>2 DEF TypeOK
  <2>5. dryRun' \in [Runs -> BOOLEAN] /\ \A q \in Runs \ {r} : dryRun'[q] = dryRun[q]
    BY <2>1 DEF TypeOK
  <2>6. UNCHANGED <<stream, output, cur, attempt, term, failed, posts, trimmed, faults>>
    BY <1>2 DEF Start
  <2>7. phase' = [phase EXCEPT ![r] = "loop"]
    BY <1>2 DEF Start
  <2>8. TypeOK'
    <3>1. phase' \in [Runs -> {"idle", "loop", "sending", "sent", "exited"}]
      BY <2>7 DEF TypeOK
    <3> HIDE DEF selected
    <3> QED BY <2>3, <2>4, <2>5, <2>6, <3>1 DEF TypeOK, Parked
  <2>9. AtInv'
    <3> HIDE DEF selected
    <3> QED BY <2>3, <2>5, <2>6, <2>7 DEF AtInv, TypeOK
  <2> QED BY <2>8, <2>9
<1>3. ASSUME NEW r \in Runs, StartFails(r) PROVE Inv'
  BY <1>3, ReplayAssumption DEF ReplayAssumption, TypeOK, AtInv, StartFails, Parked
<1>4. ASSUME NEW r \in Runs, Signal(r) PROVE Inv'
  BY <1>4 DEF TypeOK, AtInv, Signal, Parked
<1>5. ASSUME NEW r \in Runs, NextEntry(r) PROVE Inv'
  <2>1. PICK e \in todo[r] :
          /\ OldestIsNext(e, todo[r])
          /\ todo' = [todo EXCEPT ![r] = @ \ {e}] /\ cur' = [cur EXCEPT ![r] = e]
    BY <1>5 DEF NextEntry
  <2>2. /\ phase[r] = "loop" /\ term[r] # TRUE
        /\ phase' = [phase EXCEPT ![r] = IF dryRun[r] THEN "loop" ELSE "sending"]
        /\ UNCHANGED <<stream, output, dryRun, term, failed, chosen, history, faults>>
    BY <1>5 DEF NextEntry
  <2>3. e \in Nat /\ e \in chosen[r] /\ todo[r] \subseteq Nat
    BY <2>1 DEF TypeOK, Parked
  <2>4. /\ phase' \in [Runs -> {"idle", "loop", "sending", "sent", "exited"}]
        /\ cur' \in [Runs -> Nat] /\ todo' \in [Runs -> SUBSET Parked]
    BY <2>1, <2>2, <2>3 DEF TypeOK
  <2>5. \A q \in Runs : todo'[q] \subseteq chosen'[q]
    BY <2>1, <2>2 DEF TypeOK
  <2>6. ASSUME NEW q \in Runs, NEW g \in chosen'[q] \ todo'[q], NEW f \in todo'[q] PROVE g < f
    <3>1. CASE q = r /\ g = e
      BY <2>1, <2>3, <2>6, <3>1 DEF OldestIsNext, TypeOK
    <3>2. CASE ~(q = r /\ g = e)
      BY <2>1, <2>2, <2>6, <3>2 DEF TypeOK
    <3> QED BY <3>1, <3>2
  <2>7. TypeOK'
    <3>1. attempt' \in [Runs -> 0..Attempts]
      BY <1>5, ReplayAssumption DEF ReplayAssumption, TypeOK, NextEntry
    <3> QED BY <2>2, <2>4, <2>5, <2>6, <3>1 DEF TypeOK, Parked
  <2>8. AtInv'
    <3> SUFFICES ASSUME NEW q \in Runs, phase'[q] \in {"sending", "sent"}
                 PROVE  /\ cur'[q] \in chosen'[q] /\ cur'[q] \notin todo'[q]
                        /\ dryRun'[q] = FALSE
                        /\ phase'[q] = "sent" => posts'[cur'[q]] > 0
      BY DEF AtInv
    <3>1. CASE q = r
      <4>1. phase'[r] = "sending" /\ dryRun[r] = FALSE
        BY <2>2, <3>1 DEF TypeOK
      <4> QED BY <2>1, <2>2, <2>3, <3>1, <4>1 DEF TypeOK
    <3>2. CASE q # r
      BY <2>1, <2>2, <3>2 DEF TypeOK, AtInv
    <3> QED BY <3>1, <3>2
  <2> QED BY <2>7, <2>8
<1>6. ASSUME NEW r \in Runs, Exit(r) PROVE Inv'
  BY <1>6 DEF TypeOK, AtInv, Exit, Parked
<1>7. ASSUME NEW r \in Runs, Sent(r) PROVE Inv'
  <2>1. cur[r] \in Parked
    BY <1>7 DEF Sent, AtInv, TypeOK
  <2>2. /\ posts' \in [Parked -> Nat] /\ posts'[cur[r]] > 0
        /\ \A e \in Parked : posts'[e] >= posts[e]
    BY <1>7, <2>1, Posting DEF Sent
  <2>3. TypeOK'
    BY <1>7, <2>2 DEF TypeOK, Sent, Parked
  <2>4. AtInv'
    <3>1. \A e \in Parked : posts[e] > 0 => posts'[e] > 0
      BY <2>2 DEF TypeOK
    <3> QED BY <1>7, <2>2, <3>1 DEF TypeOK, AtInv, Sent
  <2> QED BY <2>3, <2>4
<1>8. ASSUME NEW r \in Runs, Delete(r) PROVE Inv'
  BY <1>8 DEF TypeOK, AtInv, Delete, Deleted, Parked
<1>9. ASSUME NEW r \in Runs, NEW b \in BOOLEAN, SendFails(r, b) PROVE Inv'
  <2>1. cur[r] \in Parked
    BY <1>9 DEF SendFails, AtInv, TypeOK
  <2>2. posts' \in [Parked -> Nat] /\ \A e \in Parked : posts'[e] >= posts[e]
    <3>1. CASE posts' = posts
      BY <3>1 DEF TypeOK
    <3>2. CASE posts' = [posts EXCEPT ![cur[r]] = @ + 1]
      BY <2>1, <3>2, Posting
    <3> QED BY <1>9, <3>1, <3>2 DEF SendFails
  <2>3. faults' \in 0..Faults
    BY <1>9, ReplayAssumption DEF ReplayAssumption, TypeOK, SendFails
  <2>4. excuse' \subseteq Parked
    BY <1>9, <2>1 DEF TypeOK, SendFails
  <2>5. /\ phase' = [phase EXCEPT ![r] = "loop"] /\ failed' = [failed EXCEPT ![r] = TRUE]
        /\ UNCHANGED <<stream, output, todo, cur, attempt, dryRun, term, chosen, trimmed>>
    BY <1>9 DEF SendFails
  <2>6. TypeOK'
    BY <2>2, <2>3, <2>4, <2>5 DEF TypeOK, Parked
  <2>7. AtInv'
    <3>1. \A e \in Parked : posts[e] > 0 => posts'[e] > 0
      BY <2>2 DEF TypeOK
    <3> QED BY <2>5, <3>1 DEF TypeOK, AtInv
  <2> QED BY <2>6, <2>7
<1>10. ASSUME NEW r \in Runs, NEW b \in BOOLEAN, DeleteFails(r, b) PROVE Inv'
  <2>1. cur[r] \in Parked
    BY <1>10 DEF DeleteFails, AtInv, TypeOK
  <2>2. faults' \in 0..Faults
    BY <1>10, ReplayAssumption DEF ReplayAssumption, TypeOK, DeleteFails
  <2>3. stream' \subseteq stream /\ excuse' \subseteq Parked
    BY <1>10, <2>1 DEF TypeOK, DeleteFails, Deleted
  <2>4. /\ phase' = [phase EXCEPT ![r] = "loop"] /\ failed' = [failed EXCEPT ![r] = TRUE]
        /\ UNCHANGED <<output, todo, cur, attempt, dryRun, term, chosen, posts, trimmed>>
    BY <1>10 DEF DeleteFails
  <2>5. TypeOK'
    BY <2>2, <2>3, <2>4 DEF TypeOK, Parked
  <2>6. AtInv'
    BY <2>4 DEF TypeOK, AtInv
  <2> QED BY <2>5, <2>6
<1>11. ASSUME NEW r \in Runs, NEW b \in BOOLEAN, SendAgain(r, b) PROVE Inv'
  <2>1. cur[r] \in Parked
    BY <1>11 DEF SendAgain, AtInv, TypeOK
  <2>2. posts' \in [Parked -> Nat] /\ \A e \in Parked : posts'[e] >= posts[e]
    <3>1. CASE posts' = posts
      BY <3>1 DEF TypeOK
    <3>2. CASE posts' = [posts EXCEPT ![cur[r]] = @ + 1]
      BY <2>1, <3>2, Posting
    <3> QED BY <1>11, <3>1, <3>2 DEF SendAgain
  <2>3. faults' \in 0..Faults
    BY <1>11, ReplayAssumption DEF ReplayAssumption, TypeOK, SendAgain
  <2>4. excuse' \subseteq Parked
    BY <1>11, <2>1 DEF TypeOK, SendAgain
  <2>5. attempt' \in [Runs -> 0..Attempts]
    BY <1>11, ReplayAssumption DEF ReplayAssumption, TypeOK, SendAgain
  <2>6. UNCHANGED <<stream, output, phase, todo, cur, dryRun, term, failed, chosen, trimmed>>
    BY <1>11 DEF SendAgain
  <2>7. TypeOK'
    BY <2>2, <2>3, <2>4, <2>5, <2>6 DEF TypeOK, Parked
  <2>8. AtInv'
    <3>1. \A e \in Parked : posts[e] > 0 => posts'[e] > 0
      BY <2>2 DEF TypeOK
    <3> QED BY <2>6, <3>1 DEF TypeOK, AtInv
  <2> QED BY <2>7, <2>8
<1>12. CASE UNCHANGED vars
  BY <1>12 DEF TypeOK, AtInv, vars, Parked
<1> QED BY <1>1, <1>2, <1>3, <1>4, <1>5, <1>6, <1>7, <1>8, <1>9, <1>10, <1>11, <1>12, Cases

\* It starts with them.
LEMMA InvInit == Init => Inv
<1> SUFFICES ASSUME Init PROVE Inv
  OBVIOUS
<1>1. output \in Seq(Outputs) /\ Len(output) = 0 /\ Parked = {} /\ posts \in [Parked -> Nat]
  BY EmptySeq DEF Init, Parked
<1>2. TypeOK
  BY <1>1, ReplayAssumption DEF ReplayAssumption, Init, TypeOK
<1> QED BY <1>2 DEF Init, Inv, AtInv

\* So every behaviour has them.
LEMMA InvHolds == Spec => []Inv
BY InvInit, InvStep, PTL DEF Spec

\* Replay.tla's variables keep their types, and a run goes through its entries
\* oldest first.
THEOREM TypeCorrect == Spec => []TypeOK
<1>1. Inv => TypeOK
  BY DEF Inv
<1> QED BY InvHolds, <1>1, PTL
-----------------------------------------------------------------------------
(* GoneIsPosted *)

\* Posts only grow.
LEMMA PostsGrow ==
  ASSUME Inv, [Next]_vars, NEW e \in Parked
  PROVE  e \in Parked' /\ posts[e] \in Nat /\ posts'[e] \in Nat /\ posts'[e] >= posts[e]
<1> USE DEF Inv, history, run
<1>0. posts[e] \in Nat
  BY DEF TypeOK
<1>1. ASSUME NEW o \in Outputs, Park(o) PROVE e \in Parked' /\ posts'[e] = posts[e]
  BY <1>1, Parking
<1>2. ASSUME NEW r \in Runs, Sent(r) \/ \E b \in BOOLEAN : SendAgain(r, b) \/ SendFails(r, b)
      PROVE  e \in Parked' /\ posts'[e] \in Nat /\ posts'[e] >= posts[e]
  <2>1. cur[r] \in Parked /\ Parked' = Parked
    BY <1>2 DEF Sent, SendAgain, SendFails, AtInv, TypeOK, Parked
  <2>2. CASE posts' = posts
    BY <1>0, <2>1, <2>2
  <2>3. CASE posts' = [posts EXCEPT ![cur[r]] = @ + 1]
    BY <2>1, <2>3, Posting
  <2> QED BY <1>2, <2>2, <2>3 DEF Sent, SendAgain, SendFails
<1>3. ASSUME NEW r \in Runs,
             \/ Start(r) \/ StartFails(r) \/ Signal(r) \/ NextEntry(r) \/ Exit(r) \/ Delete(r)
             \/ \E b \in BOOLEAN : DeleteFails(r, b)
      PROVE  UNCHANGED <<output, posts>>
  BY <1>3 DEF Start, StartFails, Signal, NextEntry, Exit, Delete, DeleteFails
<1>4. CASE UNCHANGED vars
  BY <1>0, <1>4 DEF vars, Parked
<1> QED BY <1>0, <1>1, <1>2, <1>3, <1>4, Cases DEF Parked

\* Only a park that trims and a delete behind a send take entries out.
LEMMA OnlyThese ==
  ASSUME Inv, [Next]_vars, NEW e \in Parked, e \in stream, e \notin stream'
  PROVE  e \in trimmed' \/ posts[e] > 0
<1> USE DEF Inv, history, run
<1>1. ASSUME NEW o \in Outputs, Park(o) PROVE e \in trimmed'
  BY <1>1, Parking
<1>2. ASSUME NEW r \in Runs, Delete(r) \/ \E b \in BOOLEAN : DeleteFails(r, b)
      PROVE  e = cur[r] /\ phase[r] = "sent"
  BY <1>2 DEF Delete, DeleteFails, Deleted
<1>3. ASSUME NEW r \in Runs,
             \/ Start(r) \/ StartFails(r) \/ Signal(r) \/ NextEntry(r) \/ Exit(r) \/ Sent(r)
             \/ \E b \in BOOLEAN : SendAgain(r, b) \/ SendFails(r, b)
      PROVE  stream' = stream
  BY <1>3 DEF Start, StartFails, Signal, NextEntry, Exit, Sent, SendAgain, SendFails
<1>4. CASE UNCHANGED vars
  BY <1>4 DEF vars
<1> QED BY <1>1, <1>2, <1>3, <1>4, Cases DEF AtInv

\* What trimming dropped stays dropped, and a new entry is there or dropped.
LEMMA TrimmedGrows ==
  ASSUME Inv, [Next]_vars
  PROVE  trimmed \subseteq trimmed' /\ \A e \in Parked' \ Parked : e \in stream' \cup trimmed'
<1> USE DEF Inv, history, run
<1>1. ASSUME NEW o \in Outputs, Park(o)
      PROVE  trimmed \subseteq trimmed' /\ \A e \in Parked' \ Parked : e \in stream' \cup trimmed'
  BY <1>1, Parking
<1>2. ASSUME NEW r \in Runs,
             \/ Start(r) \/ StartFails(r) \/ Signal(r) \/ NextEntry(r) \/ Exit(r) \/ Sent(r)
             \/ Delete(r) \/ \E b \in BOOLEAN : SendAgain(r, b) \/ SendFails(r, b) \/ DeleteFails(r, b)
      PROVE  UNCHANGED <<output, trimmed>>
  BY <1>2 DEF Start, StartFails, Signal, NextEntry, Exit, Sent, SendAgain, SendFails, Delete, DeleteFails
<1>3. CASE UNCHANGED vars
  BY <1>3 DEF vars, Parked
<1> QED BY <1>1, <1>2, <1>3, Cases DEF Parked

\* No entry is lost: one that is gone was posted, or trimmed.
THEOREM NothingIsLost == Spec => []GoneIsPosted
<1>1. Init => GoneIsPosted
  BY DEF Init, GoneIsPosted, Parked
<1>2. Inv /\ GoneIsPosted /\ [Next]_vars => GoneIsPosted'
  <2> SUFFICES ASSUME Inv, GoneIsPosted, [Next]_vars, NEW e \in Parked'
               PROVE  e \in stream' \/ posts'[e] > 0 \/ e \in trimmed'
    BY DEF GoneIsPosted
  <2>1. CASE e \notin Parked
    BY <2>1, TrimmedGrows
  <2>2. CASE e \in Parked
    <3>1. posts[e] > 0 => posts'[e] > 0
      BY <2>2, PostsGrow
    <3>2. e \in stream \/ posts[e] > 0 \/ e \in trimmed
      BY <2>2 DEF GoneIsPosted
    <3>3. e \in trimmed => e \in trimmed'
      BY TrimmedGrows
    <3> QED BY <2>2, <3>1, <3>2, <3>3, OnlyThese
  <2> QED BY <2>1, <2>2
<1> QED BY InvHolds, <1>1, <1>2, PTL DEF Spec
-----------------------------------------------------------------------------
(* ExitZeroIsDone *)

\* As long as it counted no failure, a run has finished the entries behind it,
\* except the one it is at; and one that ends by itself has none before it.
DoneInv ==
  \A r \in Runs : failed[r] = FALSE /\ dryRun[r] = FALSE /\ phase[r] # "idle" =>
    /\ \A e \in chosen[r] \ todo[r] :
         \/ posts[e] > 0 /\ e \notin stream
         \/ phase[r] \in {"sending", "sent"} /\ e = cur[r]
    /\ phase[r] = "exited" /\ term[r] = FALSE => todo[r] = {}

\* Ids do not come back.
LEMMA NeverBack ==
  ASSUME Inv, [Next]_vars, NEW e \in Parked, e \notin stream
  PROVE  e \notin stream'
<1> USE DEF Inv, history, run
<1>1. ASSUME NEW o \in Outputs, Park(o) PROVE e \notin stream'
  BY <1>1, Parking
<1>2. ASSUME NEW r \in Runs,
             \/ Start(r) \/ StartFails(r) \/ Signal(r) \/ NextEntry(r) \/ Exit(r) \/ Sent(r)
             \/ Delete(r) \/ \E b \in BOOLEAN : SendAgain(r, b) \/ SendFails(r, b) \/ DeleteFails(r, b)
      PROVE  stream' \subseteq stream
  BY <1>2 DEF Start, StartFails, Signal, NextEntry, Exit, Sent, SendAgain, SendFails, Delete, DeleteFails, Deleted
<1>3. CASE UNCHANGED vars
  BY <1>3 DEF vars
<1> QED BY <1>1, <1>2, <1>3, Cases

\* What is done stays done.
LEMMA DoneStays ==
  ASSUME Inv, [Next]_vars, NEW e \in Parked, posts[e] > 0, e \notin stream
  PROVE  posts'[e] > 0 /\ e \notin stream'
<1>1. posts[e] \in Nat /\ posts'[e] \in Nat /\ posts'[e] >= posts[e]
  BY PostsGrow
<1> QED BY <1>1, NeverBack

\* A run that does nothing keeps its part.
LEMMA DoneOthers ==
  ASSUME Inv, DoneInv, [Next]_vars, NEW r \in Runs,
         phase'[r] = phase[r], todo'[r] = todo[r], cur'[r] = cur[r], dryRun'[r] = dryRun[r],
         failed'[r] = failed[r], chosen'[r] = chosen[r],
         term'[r] = term[r] \/ phase[r] # "exited",
         failed'[r] = FALSE, dryRun'[r] = FALSE, phase'[r] # "idle"
  PROVE  /\ \A e \in chosen'[r] \ todo'[r] :
              \/ posts'[e] > 0 /\ e \notin stream'
              \/ phase'[r] \in {"sending", "sent"} /\ e = cur'[r]
         /\ phase'[r] = "exited" /\ term'[r] = FALSE => todo'[r] = {}
<1>1. chosen[r] \subseteq Parked
  BY DEF Inv, TypeOK
<1> QED BY <1>1, DoneStays DEF DoneInv

\* Every step keeps it.
LEMMA DoneStep == Inv /\ DoneInv /\ [Next]_vars => DoneInv'
<1> SUFFICES ASSUME Inv, DoneInv, [Next]_vars, NEW r \in Runs,
                    failed'[r] = FALSE, dryRun'[r] = FALSE, phase'[r] # "idle"
             PROVE  /\ \A e \in chosen'[r] \ todo'[r] :
                         \/ posts'[e] > 0 /\ e \notin stream'
                         \/ phase'[r] \in {"sending", "sent"} /\ e = cur'[r]
                    /\ phase'[r] = "exited" /\ term'[r] = FALSE => todo'[r] = {}
  BY DEF DoneInv
<1> DEFINE Goal == /\ \A e \in chosen'[r] \ todo'[r] :
                        \/ posts'[e] > 0 /\ e \notin stream'
                        \/ phase'[r] \in {"sending", "sent"} /\ e = cur'[r]
                   /\ phase'[r] = "exited" /\ term'[r] = FALSE => todo'[r] = {}
<1> USE DEF Inv, history, run
<1>0. chosen[r] \subseteq Parked /\ cur[r] \in Nat
  BY DEF TypeOK
<1>1. ASSUME NEW o \in Outputs, Park(o) PROVE Goal
  BY <1>1, DoneOthers DEF Park
<1>2. ASSUME NEW q \in Runs, q # r,
             \/ Start(q) \/ StartFails(q) \/ Signal(q) \/ NextEntry(q) \/ Exit(q) \/ Sent(q)
             \/ Delete(q) \/ \E b \in BOOLEAN : SendAgain(q, b) \/ SendFails(q, b) \/ DeleteFails(q, b)
      PROVE  Goal
  <2>1. /\ phase'[r] = phase[r] /\ todo'[r] = todo[r] /\ cur'[r] = cur[r] /\ dryRun'[r] = dryRun[r]
        /\ failed'[r] = failed[r] /\ chosen'[r] = chosen[r] /\ term'[r] = term[r]
    BY <1>2 DEF TypeOK, Start, StartFails, Signal, NextEntry, Exit, Sent, SendAgain, SendFails, Delete, DeleteFails
  <2> QED BY <2>1, DoneOthers
<1>3. CASE Start(r)
  <2>1. chosen'[r] = todo'[r] /\ phase'[r] = "loop"
    BY <1>3 DEF Start, TypeOK
  <2> QED BY <2>1
<1>4. CASE StartFails(r)
  BY <1>4 DEF StartFails, TypeOK
<1>5. CASE Signal(r)
  <2>1. /\ phase'[r] = phase[r] /\ todo'[r] = todo[r] /\ cur'[r] = cur[r] /\ dryRun'[r] = dryRun[r]
        /\ failed'[r] = failed[r] /\ chosen'[r] = chosen[r] /\ phase[r] # "exited"
    BY <1>5 DEF Signal, Working
  <2> QED BY <2>1, DoneOthers
<1>6. CASE NextEntry(r)
  <2>1. \E e \in todo[r] : todo'[r] = todo[r] \ {e} /\ cur'[r] = e
    BY <1>6 DEF NextEntry, TypeOK
  <2>2. /\ phase[r] = "loop" /\ phase'[r] = "sending" /\ failed[r] = FALSE /\ dryRun[r] = FALSE
        /\ chosen'[r] = chosen[r]
    BY <1>6 DEF NextEntry, TypeOK
  <2> QED BY <1>0, <2>1, <2>2, DoneStays DEF DoneInv
<1>7. CASE Exit(r)
  <2>1. /\ phase[r] = "loop" /\ phase'[r] = "exited" /\ failed[r] = FALSE /\ dryRun[r] = FALSE
        /\ chosen'[r] = chosen[r] /\ todo'[r] = todo[r] /\ (term'[r] = FALSE => todo[r] = {})
    BY <1>7 DEF Exit, TypeOK
  <2> QED BY <1>0, <2>1, DoneStays DEF DoneInv
<1>8. CASE Sent(r)
  <2>1. /\ phase[r] = "sending" /\ phase'[r] = "sent" /\ failed[r] = FALSE /\ dryRun[r] = FALSE
        /\ chosen'[r] = chosen[r] /\ todo'[r] = todo[r] /\ cur'[r] = cur[r]
    BY <1>8 DEF Sent, TypeOK
  <2> QED BY <1>0, <2>1, DoneStays DEF DoneInv
<1>9. CASE Delete(r)
  <2>1. /\ phase[r] = "sent" /\ phase'[r] = "loop" /\ failed[r] = FALSE /\ dryRun[r] = FALSE
        /\ chosen'[r] = chosen[r] /\ todo'[r] = todo[r]
        /\ cur[r] \notin stream' /\ posts' = posts /\ posts[cur[r]] > 0
    BY <1>9 DEF Delete, Deleted, TypeOK, AtInv
  <2> QED BY <1>0, <2>1, DoneStays DEF DoneInv
<1>10. ASSUME NEW b \in BOOLEAN, SendFails(r, b) \/ DeleteFails(r, b) PROVE FALSE
  <2>1. failed'[r] = TRUE
    BY <1>10 DEF SendFails, DeleteFails, TypeOK
  <2> QED BY <2>1
<1>11. ASSUME NEW b \in BOOLEAN, SendAgain(r, b) PROVE Goal
  <2>1. /\ phase'[r] = phase[r] /\ todo'[r] = todo[r] /\ cur'[r] = cur[r] /\ dryRun'[r] = dryRun[r]
        /\ failed'[r] = failed[r] /\ chosen'[r] = chosen[r] /\ term'[r] = term[r]
    BY <1>11 DEF SendAgain
  <2> QED BY <2>1, DoneOthers
<1>12. CASE UNCHANGED vars
  BY <1>12, DoneOthers DEF vars
<1> QED BY <1>1, <1>2, <1>3, <1>4, <1>5, <1>6, <1>7, <1>8, <1>9, <1>10, <1>11, <1>12, Cases

\* A run that nobody stopped exits with 0 only when all it selected is posted
\* and out of the stream.
THEOREM ZeroIsDone == Spec => []ExitZeroIsDone
<1>1. Init => DoneInv
  BY DEF Init, DoneInv
<1>2. Inv /\ DoneInv => ExitZeroIsDone
  <2> SUFFICES ASSUME Inv, DoneInv, NEW r \in Runs,
                      phase[r] = "exited" /\ ~failed[r] /\ ~term[r] /\ ~dryRun[r]
               PROVE  \A e \in chosen[r] : posts[e] > 0 /\ e \notin stream
    BY DEF ExitZeroIsDone
  <2>1. failed[r] = FALSE /\ term[r] = FALSE /\ dryRun[r] = FALSE
    BY DEF Inv, TypeOK
  <2> QED BY <2>1 DEF DoneInv
<1> QED BY InvHolds, DoneStep, <1>1, <1>2, PTL DEF Spec
-----------------------------------------------------------------------------
(* TwiceHasAReason *)

Live(r)   == phase[r] \in {"loop", "sending", "sent"} /\ dryRun[r] = FALSE
Due(r, e) == Live(r) /\ (e \in todo[r] \/ (phase[r] = "sending" /\ e = cur[r]))

\* Of an entry without an excuse: what a run is still to send is not posted
\* yet; what is posted is out of the stream, or about to be deleted; and no
\* two runs have chosen it.
OnceAt(e) ==
  /\ posts[e] <= 1
  /\ \A r \in Runs : Due(r, e) => posts[e] = 0
  /\ e \in stream => posts[e] = 0 \/ \E r \in Runs : Live(r) /\ phase[r] = "sent" /\ cur[r] = e
  /\ \A q, r \in Runs : Live(q) /\ Live(r) /\ e \in chosen[q] /\ e \in chosen[r] => q = r

OnceInv == \A e \in Parked \ excuse : OnceAt(e)

\* What a run is to send, or has just sent, it has chosen.
LEMMA DueIsChosen ==
  ASSUME Inv, NEW r \in Runs, NEW e, Due(r, e) \/ (phase[r] = "sent" /\ cur[r] = e)
  PROVE  e \in chosen[r]
BY DEF Inv, AtInv, TypeOK, Due

\* The parts of a run that OnceAt looks at.
Same(r) == /\ phase'[r] = phase[r] /\ todo'[r] = todo[r] /\ cur'[r] = cur[r]
           /\ dryRun'[r] = dryRun[r] /\ chosen'[r] = chosen[r]

\* An action of a run leaves the others alone.
LEMMA OthersSame ==
  ASSUME Inv, NEW r \in Runs,
         \/ Start(r) \/ StartFails(r) \/ Signal(r) \/ NextEntry(r) \/ Exit(r) \/ Sent(r)
         \/ Delete(r) \/ \E b \in BOOLEAN : SendAgain(r, b) \/ SendFails(r, b) \/ DeleteFails(r, b)
  PROVE  output' = output /\ \A q \in Runs \ {r} : Same(q)
BY DEF Inv, TypeOK, Same, Start, StartFails, Signal, NextEntry, Exit, Sent, SendAgain, SendFails, Delete,
       DeleteFails, run, history

\* Every step keeps it.
LEMMA OnceStep == Inv /\ OnceInv /\ [Next]_vars => OnceInv'
<1> SUFFICES ASSUME Inv, OnceInv, [Next]_vars, NEW e \in Parked', e \notin excuse'
             PROVE  OnceAt(e)'
  BY DEF OnceInv
<1> USE DEF run, history
<1>1. ASSUME NEW o \in Outputs, Park(o) PROVE OnceAt(e)'
  <2>1. UNCHANGED <<phase, todo, cur, dryRun, chosen, excuse>>
    BY <1>1 DEF Park
  <2>2. CASE e \in Parked
    <3>1. posts'[e] = posts[e] /\ (e \in stream' => e \in stream) /\ OnceAt(e)
      BY <1>1, <2>1, <2>2, Parking DEF Inv, OnceInv
    <3> QED BY <2>1, <3>1 DEF OnceAt, Live, Due
  <2>3. CASE e \notin Parked
    <3>1. \A r \in Runs : ~Due(r, e) /\ e \notin chosen[r]
      BY <2>3, DueIsChosen DEF Inv, TypeOK
    <3>2. posts'[e] = 0
      <4>1. e = Len(output) + 1
        BY <1>1, <2>3, Parking DEF Inv
      <4> QED BY <1>1, <4>1, Parking DEF Inv
    <3> QED BY <2>1, <3>1, <3>2 DEF OnceAt, Live, Due
  <2> QED BY <2>2, <2>3
<1>2. ASSUME NEW r \in Runs,
             \/ Start(r) \/ StartFails(r) \/ Signal(r) \/ NextEntry(r) \/ Exit(r) \/ Sent(r)
             \/ Delete(r) \/ \E b \in BOOLEAN : SendAgain(r, b) \/ SendFails(r, b) \/ DeleteFails(r, b)
      PROVE  OnceAt(e)'
  <2>1. e \in Parked /\ \A q \in Runs \ {r} : Same(q)
    BY <1>2, OthersSame DEF Parked
  <2>2. excuse \subseteq excuse'
    BY <1>2 DEF Start, StartFails, Signal, NextEntry, Exit, Sent, SendAgain, SendFails, Delete, DeleteFails
  <2>3. OnceAt(e)
    BY <2>1, <2>2 DEF OnceInv
  <2>4. CASE Start(r)
    <3>1. PICK dry \in BOOLEAN :
            /\ chosen'[r] = todo'[r] /\ todo'[r] \subseteq stream /\ dryRun'[r] = dry
            /\ ~dry => \A q \in Runs : e \in chosen'[r] /\ Working(q) => e \notin chosen[q]
      BY <2>4 DEF Inv, TypeOK, Start
    <3>2. phase[r] = "idle" /\ phase'[r] = "loop" /\ UNCHANGED <<stream, posts>>
      BY <2>4 DEF Inv, TypeOK, Start
    <3>3. ~Live(r)
      BY <3>2 DEF Live
    <3>4. CASE dry = TRUE
      <4>1. ~Live(r)'
        BY <3>1, <3>4 DEF Live
      <4> QED BY <2>1, <2>3, <3>2, <3>3, <4>1 DEF OnceAt, Due, Live, Same
    <3>5. CASE dry = FALSE
      <4>1. \A q \in Runs : e \in chosen'[r] /\ Live(q) => e \notin chosen[q]
        BY <3>1, <3>5 DEF Live, Working
      <4>2. e \in chosen'[r] => posts[e] = 0
        BY <2>3, <3>1, <4>1, DueIsChosen DEF OnceAt
      <4>3. \A q \in Runs : Due(q, e)' => posts'[e] = 0
        BY <2>1, <2>3, <3>1, <3>2, <4>2 DEF OnceAt, Due, Live, Same
      <4>4. e \in stream' => posts'[e] = 0 \/ \E q \in Runs : Live(q)' /\ phase'[q] = "sent" /\ cur'[q] = e
        BY <2>1, <2>3, <3>2 DEF OnceAt, Live, Same
      <4>5. \A p, q \in Runs : Live(p)' /\ Live(q)' /\ e \in chosen'[p] /\ e \in chosen'[q] => p = q
        BY <2>1, <2>3, <4>1 DEF OnceAt, Live, Same
      <4> QED BY <2>3, <3>2, <4>3, <4>4, <4>5 DEF OnceAt
    <3> QED BY <3>4, <3>5
  <2>5. CASE StartFails(r) \/ Signal(r) \/ Exit(r)
    <3>1. /\ todo'[r] = todo[r] /\ cur'[r] = cur[r] /\ dryRun'[r] = dryRun[r] /\ chosen'[r] = chosen[r]
          /\ phase'[r] = phase[r] \/ (phase'[r] = "exited" /\ phase[r] # "sent")
          /\ UNCHANGED <<stream, posts>>
      BY <2>5 DEF Inv, TypeOK, StartFails, Signal, Exit
    <3> QED BY <2>1, <2>3, <3>1 DEF OnceAt, Due, Live, Same
  <2>6. CASE NextEntry(r)
    <3>1. /\ \E f \in todo[r] : todo'[r] = todo[r] \ {f} /\ cur'[r] = f
          /\ dryRun'[r] = dryRun[r] /\ chosen'[r] = chosen[r]
          /\ phase[r] = "loop" /\ phase'[r] \in {"loop", "sending"}
          /\ UNCHANGED <<stream, posts>>
      BY <2>6 DEF Inv, TypeOK, NextEntry
    <3> QED BY <2>1, <2>3, <3>1 DEF OnceAt, Due, Live, Same
  <2>7. CASE Sent(r)
    <3>1. /\ phase[r] = "sending" /\ phase'[r] = "sent"
          /\ UNCHANGED <<stream, todo, cur, dryRun, chosen>>
          /\ posts' = [posts EXCEPT ![cur[r]] = @ + 1]
      BY <2>7 DEF Inv, TypeOK, Sent
    <3>2. cur[r] \in Parked /\ cur[r] \in chosen[r] /\ cur[r] \notin todo[r] /\ dryRun[r] = FALSE
      BY <3>1 DEF Inv, AtInv, TypeOK
    <3>3. CASE e = cur[r]
      <4>1. posts[e] = 0
        BY <2>3, <3>1, <3>2, <3>3 DEF OnceAt, Due, Live
      <4>2. posts'[e] = 1
        <5>1. posts'[cur[r]] = posts[cur[r]] + 1
          BY <3>1, <3>2, Posting DEF Inv
        <5> QED BY <3>3, <4>1, <5>1
      <4>3. \A q \in Runs : ~Due(q, e)'
        <5> SUFFICES ASSUME NEW q \in Runs, Due(q, e)' PROVE FALSE
          OBVIOUS
        <5>1. q # r
          BY <3>1, <3>2, <3>3 DEF Due
        <5>2. Due(q, e)
          BY <2>1, <5>1 DEF Due, Live, Same
        <5>3. e \in chosen[q] /\ Live(q)
          BY <5>2, DueIsChosen DEF Due
        <5> QED BY <2>3, <3>1, <3>2, <3>3, <5>1, <5>3 DEF OnceAt, Live
      <4>4. Live(r)' /\ phase'[r] = "sent" /\ cur'[r] = e
        BY <3>1, <3>2, <3>3 DEF Live
      <4>5. \A p, q \in Runs : Live(p)' /\ Live(q)' /\ e \in chosen'[p] /\ e \in chosen'[q] => p = q
        BY <2>1, <2>3, <3>1 DEF OnceAt, Live, Same
      <4> QED BY <4>2, <4>3, <4>4, <4>5 DEF OnceAt
    <3>4. CASE e # cur[r]
      <4>1. posts'[e] = posts[e]
        BY <2>1, <3>1, <3>2, <3>4, Posting DEF Inv
      <4> QED BY <2>1, <2>3, <3>1, <3>4, <4>1 DEF OnceAt, Due, Live, Same
    <3> QED BY <3>3, <3>4
  <2>8. CASE Delete(r)
    <3>1. /\ phase[r] = "sent" /\ phase'[r] = "loop" /\ stream' = stream \ {cur[r]}
          /\ UNCHANGED <<todo, cur, dryRun, chosen, posts>>
      BY <2>8 DEF Inv, TypeOK, Delete, Deleted
    <3> QED BY <2>1, <2>3, <3>1 DEF OnceAt, Due, Live, Same
  <2>9. ASSUME NEW b \in BOOLEAN, SendFails(r, b) PROVE OnceAt(e)'
    <3>1. /\ phase[r] = "sending" /\ phase'[r] = "loop"
          /\ UNCHANGED <<stream, todo, cur, dryRun, chosen>>
          /\ posts' = posts \/ (posts' = [posts EXCEPT ![cur[r]] = @ + 1] /\ cur[r] \in excuse')
      BY <2>9 DEF Inv, TypeOK, SendFails
    <3>2. posts'[e] = posts[e]
      <4>1. cur[r] \in Parked
        BY <3>1 DEF Inv, AtInv, TypeOK
      <4> QED BY <2>1, <3>1, <4>1, Posting DEF Inv
    <3> QED BY <2>1, <2>3, <3>1, <3>2 DEF OnceAt, Due, Live, Same
  <2>10. ASSUME NEW b \in BOOLEAN, DeleteFails(r, b) PROVE OnceAt(e)'
    <3>1. /\ phase[r] = "sent" /\ phase'[r] = "loop" /\ stream' \subseteq stream /\ e # cur[r]
          /\ UNCHANGED <<todo, cur, dryRun, chosen, posts>>
      BY <2>10 DEF Inv, TypeOK, DeleteFails, Deleted
    <3> QED BY <2>1, <2>3, <3>1 DEF OnceAt, Due, Live, Same
  <2>11. ASSUME NEW b \in BOOLEAN, SendAgain(r, b) PROVE OnceAt(e)'
    <3>1. /\ phase[r] = "sending"
          /\ UNCHANGED <<stream, phase, todo, cur, dryRun, chosen>>
          /\ posts' = posts \/ (posts' = [posts EXCEPT ![cur[r]] = @ + 1] /\ cur[r] \in excuse')
      BY <2>11 DEF Inv, TypeOK, SendAgain
    <3>2. posts'[e] = posts[e]
      <4>1. cur[r] \in Parked
        BY <3>1 DEF Inv, AtInv, TypeOK
      <4> QED BY <2>1, <3>1, <4>1, Posting DEF Inv
    <3> QED BY <2>3, <3>1, <3>2 DEF OnceAt, Due, Live
  <2> QED BY <1>2, <2>4, <2>5, <2>6, <2>7, <2>8, <2>9, <2>10, <2>11
<1>3. CASE UNCHANGED vars
  BY <1>3 DEF vars, OnceInv, OnceAt, Due, Live, Parked
<1> QED BY <1>1, <1>2, <1>3, Cases

\* No entry is posted twice unless an answer was lost, a delete failed or
\* another run that selected it was at work.
THEOREM RepeatsAreExcused == Spec => []TwiceHasAReason
<1>1. Init => OnceInv
  BY DEF Init, OnceInv, Parked
<1>2. Inv /\ OnceInv => TwiceHasAReason
  BY DEF Inv, TypeOK, OnceInv, OnceAt, TwiceHasAReason
<1> QED BY InvHolds, OnceStep, <1>1, <1>2, PTL DEF Spec
=============================================================================
