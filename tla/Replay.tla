------------------------------- MODULE Replay -------------------------------
(***************************************************************************)
(* The dead-letter stream and its replay (catcher/deadletter.go, runReplay *)
(* in main.go).  The catcher parks failed sends in a Redis stream, which   *)
(* XADD trims; an operator runs the replay subcommand, which reads the     *)
(* stream once, sends what it selects, oldest first, and deletes an entry  *)
(* after its send went through.                                            *)
(*                                                                         *)
(* Runs may overlap: nothing keeps a second operator, or a CronJob, out.   *)
(* An endpoint may take a post and lose the answer, and Redis a delete.    *)
(* Of the retries of one SendTo (Dispatch.tla) the attempts are kept, each  *)
(* of which may be taken and lose its answer; the time between is not.     *)
(***************************************************************************)
EXTENDS Integers, Sequences, FiniteSets

CONSTANTS Outputs,
          Runs,      \* replay processes, each started at most once
          MaxLen,    \* DEAD_LETTER_MAXLEN
          Parks,     \* bound: entries the catcher parks
          Attempts,  \* of the output's retry policy
          Faults     \* bound: lost answers and failed deletes

ASSUME ReplayAssumption ==
  /\ MaxLen \in Nat \ {0} /\ Attempts \in Nat \ {0}
  /\ Parks \in Nat /\ Faults \in Nat

VARIABLES stream,     \* ids of the parked entries: 1, 2, ... as they came
          output,     \* of every entry ever parked, by id
          phase,      \* of a run: "idle", "loop", "sending", "sent", "exited"
          todo,       \* entries of its Range it has not come to
          cur,        \* the one it is at
          attempt,    \* of its SendTo
          dryRun,
          term,       \* it got SIGINT or SIGTERM
          failed,     \* it counted a failure
          chosen,     \* history: what its Range selected
          posts,      \* history: how often the endpoint took the entry
          trimmed,    \* history: entries XADD dropped
          excuse,     \* history: entries that may be posted twice
          faults

run     == <<phase, todo, cur, attempt, dryRun, term, failed, chosen>>
history == <<posts, trimmed, excuse>>
vars    == <<stream, output, run, history, faults>>

Parked == 1..Len(output)

Init == /\ stream = {} /\ output = << >>
        /\ phase = [r \in Runs |-> "idle"]
        /\ todo = [r \in Runs |-> {}] /\ cur = [r \in Runs |-> 0]
        /\ attempt = [r \in Runs |-> 0]
        /\ dryRun = [r \in Runs |-> FALSE]
        /\ term = [r \in Runs |-> FALSE] /\ failed = [r \in Runs |-> FALSE]
        /\ chosen = [r \in Runs |-> {}]
        /\ posts = << >> /\ trimmed = {} /\ excuse = {}
        /\ faults = 0
-----------------------------------------------------------------------------
(* The stream *)

\* XADD with MAXLEN ~: Redis drops the oldest, down to MaxLen or to any length
\* above it.
Park(o) ==
  /\ Len(output) < Parks
  /\ output' = Append(output, o) /\ posts' = Append(posts, 0)
  /\ \E from \in 1..(Len(output) + 1) :
       LET new  == stream \cup {Len(output) + 1}
           kept == {e \in new : e >= from}
       IN /\ kept # new => Cardinality(kept) >= MaxLen
          /\ stream' = kept
          /\ trimmed' = trimmed \cup (new \ kept)
  /\ UNCHANGED <<run, excuse, faults>>

\* XDEL of an entry that is gone already is no error.
DeletedStreamID(id) == stream   \* bug: XDEL of the message's own stream id
Deleted(id) == stream \ {id}
-----------------------------------------------------------------------------
(* runReplay *)

Working(r) == phase[r] \in {"loop", "sending", "sent"}

\* Range and the selection: the entries of one output, parked since then,
\* of one objectId or of all.
Start(r) ==
  /\ phase[r] = "idle"
  /\ \E o \in Outputs, since \in 1..(Len(output) + 1), one \in {0} \cup Parked, dry \in BOOLEAN :
       LET selected == {e \in stream : output[e] = o /\ e >= since /\ one \in {0, e}}
       IN /\ todo' = [todo EXCEPT ![r] = selected]
          /\ chosen' = [chosen EXCEPT ![r] = selected]
          /\ dryRun' = [dryRun EXCEPT ![r] = dry]
          /\ excuse' = IF dry THEN excuse
                       ELSE excuse \cup {e \in selected : \E q \in Runs : Working(q) /\ e \in chosen[q]}
  /\ phase' = [phase EXCEPT ![r] = "loop"]
  /\ UNCHANGED <<stream, output, cur, attempt, term, failed, posts, trimmed, faults>>

\* A run that could not read the stream exits with an error.
StartFails(r) ==
  /\ phase[r] = "idle" /\ faults < Faults
  /\ faults' = faults + 1
  /\ phase' = [phase EXCEPT ![r] = "exited"] /\ failed' = [failed EXCEPT ![r] = TRUE]
  /\ UNCHANGED <<stream, output, todo, cur, attempt, dryRun, term, chosen, history>>

Signal(r) ==
  /\ Working(r) /\ ~term[r]
  /\ term' = [term EXCEPT ![r] = TRUE]
  /\ UNCHANGED <<stream, output, phase, todo, cur, attempt, dryRun, failed, chosen, history, faults>>

AnyIsNext(e, rest)  == TRUE                     \* bug: in any order
OldestIsNext(e, rest) == \A f \in rest : e <= f

NextEntry(r) ==
  /\ phase[r] = "loop" /\ ~term[r]
  /\ \E e \in todo[r] :
       /\ OldestIsNext(e, todo[r])
       /\ todo' = [todo EXCEPT ![r] = @ \ {e}] /\ cur' = [cur EXCEPT ![r] = e]
  /\ attempt' = [attempt EXCEPT ![r] = 1]
  /\ phase' = [phase EXCEPT ![r] = IF dryRun[r] THEN "loop" ELSE "sending"]
  /\ UNCHANGED <<stream, output, dryRun, term, failed, chosen, history, faults>>

\* ctx.Err() ends the loop without counting what is left.
Exit(r) ==
  /\ phase[r] = "loop" /\ (todo[r] = {} \/ term[r])
  /\ phase' = [phase EXCEPT ![r] = "exited"]
  /\ UNCHANGED <<stream, output, todo, cur, attempt, dryRun, term, failed, chosen, history, faults>>

Sent(r) ==
  /\ phase[r] = "sending"
  /\ posts' = [posts EXCEPT ![cur[r]] = @ + 1]
  /\ phase' = [phase EXCEPT ![r] = "sent"]
  /\ UNCHANGED <<stream, output, todo, cur, attempt, dryRun, term, failed, chosen, trimmed, excuse, faults>>

\* An attempt failed, its post taken or not, and the next one is made; a signal
\* leaves the pause between them.
SendAgain(r, took) ==
  /\ phase[r] = "sending" /\ ~term[r] /\ attempt[r] < Attempts
  /\ took => faults < Faults
  /\ faults' = IF took THEN faults + 1 ELSE faults
  /\ posts' = IF took THEN [posts EXCEPT ![cur[r]] = @ + 1] ELSE posts
  /\ excuse' = IF took THEN excuse \cup {cur[r]} ELSE excuse
  /\ attempt' = [attempt EXCEPT ![r] = @ + 1]
  /\ UNCHANGED <<stream, output, phase, todo, cur, dryRun, term, failed, chosen, trimmed>>

\* SendTo's error, which is that of its last attempt: nothing arrived, or the
\* answer was lost.  Any attempt may be the last (a final error, no time left
\* for the pause), and a signal cuts it short.
SendForgotten(r, took) ==   \* bug: a failure deletes the entry
  /\ phase[r] = "sending" /\ ~took
  /\ stream' = Deleted(cur[r])
  /\ failed' = [failed EXCEPT ![r] = TRUE]
  /\ phase' = [phase EXCEPT ![r] = "loop"]
  /\ UNCHANGED <<output, todo, cur, attempt, dryRun, term, chosen, history, faults>>
SendFails(r, took) ==
  /\ phase[r] = "sending"
  /\ took /\ ~term[r] => faults < Faults
  /\ faults' = IF took /\ ~term[r] THEN faults + 1 ELSE faults
  /\ posts' = IF took THEN [posts EXCEPT ![cur[r]] = @ + 1] ELSE posts
  /\ excuse' = IF took THEN excuse \cup {cur[r]} ELSE excuse
  /\ failed' = [failed EXCEPT ![r] = TRUE]
  /\ phase' = [phase EXCEPT ![r] = "loop"]
  /\ UNCHANGED <<stream, output, todo, cur, attempt, dryRun, term, chosen, trimmed>>

Delete(r) ==
  /\ phase[r] = "sent" /\ ~term[r]
  /\ stream' = Deleted(cur[r])
  /\ phase' = [phase EXCEPT ![r] = "loop"]
  /\ UNCHANGED <<output, todo, cur, attempt, dryRun, term, failed, chosen, history, faults>>

\* A signal between send and delete cancels the delete as well.
DeleteUncounted(r, applied) ==   \* bug: only logged
  /\ phase[r] = "sent"
  /\ ~term[r] => faults < Faults
  /\ faults' = IF term[r] THEN faults ELSE faults + 1
  /\ stream' = IF applied THEN Deleted(cur[r]) ELSE stream
  /\ excuse' = excuse \cup {cur[r]}
  /\ phase' = [phase EXCEPT ![r] = "loop"]
  /\ UNCHANGED <<output, todo, cur, attempt, dryRun, term, failed, chosen, posts, trimmed>>
DeleteFails(r, applied) ==
  /\ phase[r] = "sent"
  /\ ~term[r] => faults < Faults
  /\ faults' = IF term[r] THEN faults ELSE faults + 1
  /\ stream' = IF applied THEN Deleted(cur[r]) ELSE stream
  /\ excuse' = excuse \cup {cur[r]}
  /\ failed' = [failed EXCEPT ![r] = TRUE]
  /\ phase' = [phase EXCEPT ![r] = "loop"]
  /\ UNCHANGED <<output, todo, cur, attempt, dryRun, term, chosen, posts, trimmed>>

Step(r) ==
  \/ NextEntry(r) \/ Exit(r) \/ Sent(r) \/ Delete(r)
  \/ \E b \in BOOLEAN : SendAgain(r, b) \/ SendFails(r, b) \/ DeleteFails(r, b)

Next ==
  \/ \E o \in Outputs : Park(o)
  \/ \E r \in Runs : Start(r) \/ StartFails(r) \/ Signal(r) \/ Step(r)

Spec == Init /\ [][Next]_vars
-----------------------------------------------------------------------------
(* Properties *)

\* Every variable has its type, and a run goes through its entries oldest first.
TypeOK ==
  /\ output \in Seq(Outputs) /\ posts \in [Parked -> Nat]
  /\ stream \subseteq Parked
  /\ phase \in [Runs -> {"idle", "loop", "sending", "sent", "exited"}]
  /\ todo \in [Runs -> SUBSET Parked] /\ chosen \in [Runs -> SUBSET Parked]
  /\ cur \in [Runs -> Nat] /\ attempt \in [Runs -> 0..Attempts]
  /\ \A r \in Runs : todo[r] \subseteq chosen[r]
  /\ \A r \in Runs : \A e \in chosen[r] \ todo[r], f \in todo[r] : e < f
  /\ dryRun \in [Runs -> BOOLEAN] /\ term \in [Runs -> BOOLEAN] /\ failed \in [Runs -> BOOLEAN]
  /\ trimmed \subseteq Parked /\ excuse \subseteq Parked
  /\ faults \in 0..Faults

\* An entry that is gone was posted, or the stream was too long for it: two
\* operators, signals and lost answers included.
GoneIsPosted == \A e \in Parked : e \in stream \/ posts[e] > 0 \/ e \in trimmed

\* An entry goes out twice only for a reason: an answer of the endpoint was
\* lost, which SendTo may have retried without a failure (the run then says
\* how many attempts it made); a delete failed, which the run counts; or
\* another run that selected it was at work.
TwiceHasAReason == \A e \in Parked : posts[e] > 1 => e \in excuse

\* Exit code 0 of a run nobody stopped: all it selected is posted and gone.
ExitZeroIsDone ==
  \A r \in Runs : phase[r] = "exited" /\ ~failed[r] /\ ~term[r] /\ ~dryRun[r] =>
    \A e \in chosen[r] : posts[e] > 0 /\ e \notin stream
=============================================================================
