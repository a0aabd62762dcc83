---------------------------- MODULE ServiceProofs ---------------------------
(***************************************************************************)
(* For any timeouts, outages and dispatches: SIGTERM cuts neither a        *)
(* dispatch nor an answer off, and a process that ends by itself was never *)
(* ready.  For any capacity of the ring, outputs and number of messages:   *)
(* list gives the newest events, the counters agree with all that was ever *)
(* dispatched, and a scrape's counters with the stream's length.           *)
(***************************************************************************)
EXTENDS Service, FiniteSetTheorems, WellFoundedInduction, TLAPS

\* The reads a request still has before it.
Shapes == {<< >>, <<"ping">>, <<"ping", "len", "recent">>, <<"counters", "len">>,
           <<"len">>, <<"len", "recent">>, <<"recent">>}

\* main, and what it knows of the worker: the consumer runs in one phase only.
MainInv ==
  /\ phase \in Phases
  /\ phase \notin {"leaving", "exited"} => code = None /\ left = 0
  /\ phase = "new" => http = "off"
  /\ phase \in {"leaving", "exited"} => http \notin {"starting", "up"}
  /\ phase # "running" => worker = Idle
  /\ phase \notin {"running", "leaving", "exited"} => log = << >>
  /\ phase = "leaving" => code \in {0, 1}
  /\ shutdown => term
  /\ code = 0 => term
  /\ code = 1 => "ping" \notin hooks /\ log = << >>
  /\ phase \in {"new", "listening", "waiting", "connecting", "created"} => "ping" \notin hooks
  /\ ready => "ping" \in hooks

\* A record of the four fields.
IsRequest(r) == r = [todo |-> r.todo, left |-> r.left, parked |-> r.parked, pending |-> r.pending]

\* A request: none before the server listens, Redis is asked through the hooks,
\* and a call has its own timeout at most.
RequestInv ==
  /\ IsRequest(request)
  /\ request.todo \in Shapes
  /\ request.left \in Int /\ request.left >= None
  /\ http \in {"off", "starting"} => Answered
  /\ Answered => request.left = None
  /\ Asks("counters") => request.left = None
  /\ Asks("recent") => request.left # None
  /\ Asks("ping") => request.left <= PingTimeout
  /\ Asks("ping") /\ request.left # None => "ping" \in hooks
  /\ Asks("len") \/ Asks("recent") => request.left <= DeadLetterTimeout

\* How far Shutdown of the HTTP server has come while a request is in flight:
\* it began at one of its reads or later.
GraceInv ==
  /\ left \in Nat
  /\ phase = "leaving" =>
       /\ Asks("counters") => left = 0
       /\ Asks("ping") /\ request.left = None => left = 0
       /\ Asks("ping") /\ request.left # None => left + request.left <= PingTimeout
       /\ Asks("len") /\ request.left = None => left <= PingTimeout
       /\ (Asks("len") \/ Asks("recent")) /\ request.left # None =>
            left + request.left <= PingTimeout + DeadLetterTimeout
  /\ phase = "exited" /\ code # Killed => Answered

Inv == MainInv /\ RequestInv /\ GraceInv

\* What the heads and tails of the reads are.
LEMMA ReadsAre ==
  /\ Tail(<<"ping">>) = << >> /\ Head(<<"ping">>) = "ping"
  /\ Tail(<<"ping", "len", "recent">>) = <<"len", "recent">>
  /\ Head(<<"ping", "len", "recent">>) = "ping"
  /\ Tail(<<"counters", "len">>) = <<"len">> /\ Head(<<"counters", "len">>) = "counters"
  /\ Tail(<<"len">>) = << >> /\ Head(<<"len">>) = "len"
  /\ Tail(<<"len", "recent">>) = <<"recent">> /\ Head(<<"len", "recent">>) = "len"
  /\ Tail(<<"recent">>) = << >> /\ Head(<<"recent">>) = "recent"
  /\ << >> \notin {<<"ping">>, <<"ping", "len", "recent">>, <<"counters", "len">>,
                   <<"len">>, <<"len", "recent">>, <<"recent">>}
  /\ <<"recent">> \notin {<<"ping">>, <<"len", "recent">>}
<1>1. Tail(<<"ping">>) = << >> /\ Head(<<"ping">>) = "ping"
  OBVIOUS
<1>2. /\ Tail(<<"ping", "len", "recent">>) = <<"len", "recent">>
      /\ Head(<<"ping", "len", "recent">>) = "ping"
  OBVIOUS
<1>3. Tail(<<"counters", "len">>) = <<"len">> /\ Head(<<"counters", "len">>) = "counters"
  OBVIOUS
<1>4. Tail(<<"len">>) = << >> /\ Head(<<"len">>) = "len"
  OBVIOUS
<1>5. Tail(<<"len", "recent">>) = <<"recent">> /\ Head(<<"len", "recent">>) = "len"
  OBVIOUS
<1>6. Tail(<<"recent">>) = << >> /\ Head(<<"recent">>) = "recent"
  OBVIOUS
<1>7. << >> \notin {<<"ping">>, <<"ping", "len", "recent">>, <<"counters", "len">>,
                    <<"len">>, <<"len", "recent">>, <<"recent">>}
  OBVIOUS
<1>8. <<"recent">> \notin {<<"ping">>, <<"len", "recent">>}
  OBVIOUS
<1> QED BY <1>1, <1>2, <1>3, <1>4, <1>5, <1>6, <1>7, <1>8

\* What is asked for next tells what is still to be read.
LEMMA ShapesAre ==
  ASSUME request.todo \in Shapes
  PROVE  /\ Asks("ping") => \/ request.todo = <<"ping">> /\ Tail(request.todo) = << >>
                            \/ /\ request.todo = <<"ping", "len", "recent">>
                               /\ Tail(request.todo) = <<"len", "recent">>
         /\ Asks("counters") => /\ request.todo = <<"counters", "len">>
                                /\ Tail(request.todo) = <<"len">>
         /\ Asks("len") => \/ request.todo = <<"len">> /\ Tail(request.todo) = << >>
                           \/ /\ request.todo = <<"len", "recent">>
                              /\ Tail(request.todo) = <<"recent">>
         /\ Asks("recent") => request.todo = <<"recent">> /\ Tail(request.todo) = << >>
         /\ ~Answered => Asks("ping") \/ Asks("counters") \/ Asks("len") \/ Asks("recent")
<1> DEFINE t == request.todo
<1>1. \/ t = << >> \/ t = <<"ping">> \/ t = <<"ping", "len", "recent">> \/ t = <<"counters", "len">>
      \/ t = <<"len">> \/ t = <<"len", "recent">> \/ t = <<"recent">>
  BY DEF Shapes
<1>2. /\ Answered <=> t = << >>
      /\ \A r : Asks(r) <=> t # << >> /\ Head(t) = r
  BY DEF Asks, Answered
<1> HIDE DEF t
<1>3. /\ "ping" # "counters" /\ "ping" # "len" /\ "ping" # "recent" /\ "counters" # "len"
      /\ "counters" # "recent" /\ "len" # "recent"
  OBVIOUS
<1>4. /\ Asks("ping") => t \in {<<"ping">>, <<"ping", "len", "recent">>}
      /\ Asks("counters") => t = <<"counters", "len">>
      /\ Asks("len") => t \in {<<"len">>, <<"len", "recent">>}
      /\ Asks("recent") => t = <<"recent">>
      /\ ~Answered => Asks("ping") \/ Asks("counters") \/ Asks("len") \/ Asks("recent")
  BY <1>1, <1>2, <1>3, ReadsAre, Zenon
<1> QED BY <1>4, ReadsAre DEF t

-----------------------------------------------------------------------------
(* The request *)

\* What a step of a handler does to its reads and to the time of its call.
Reading ==
  \/ Asks("counters") /\ request'.todo = <<"len">> /\ request'.left = None /\ ready' = ready
  \/ /\ Asks("ping") /\ request.left = None /\ "ping" \in hooks
     /\ request'.todo = request.todo /\ request'.left = PingTimeout /\ ready' = ready
  \/ /\ Asks("ping") /\ request'.todo \in {<< >>, <<"len", "recent">>} /\ request'.left = None
     /\ ready' => ready \/ request.left # None
  \/ /\ Asks("len") /\ request.left = None
     /\ request'.todo = request.todo /\ request'.left = DeadLetterTimeout /\ ready' = ready
  \/ /\ Asks("len") /\ request.left # None
     /\ request'.todo = <<"recent">> /\ request'.left = request.left /\ ready' = ready
  \/ /\ Asks("len") \/ Asks("recent")
     /\ request'.todo = << >> /\ request'.left = None /\ ready' = ready

\* Every step of a handler is one of these.
LEMMA ServeReads ==
  ASSUME RequestInv, Serve
  PROVE  /\ Reading /\ IsRequest(request')
         /\ UNCHANGED <<phase, code, term, left, hooks, shutdown, http, log, worker>>
<1> USE DEF RequestInv, IsRequest
<1>1. /\ Asks("ping") => Tail(request.todo) \in {<< >>, <<"len", "recent">>}
      /\ Asks("counters") => Tail(request.todo) = <<"len">>
      /\ Asks("len") => Tail(request.todo) \in {<< >>, <<"recent">>}
      /\ Asks("recent") => Tail(request.todo) = << >>
      /\ << >> # <<"recent">>
  BY ShapesAre, ReadsAre
<1>2. CASE ReadCounters
  <2>1. /\ request' = [Then(request) EXCEPT !.parked = request'.parked]
        /\ Asks("counters") /\ request.left = None
    BY <1>2 DEF ReadCounters
  <2>2. UNCHANGED <<phase, code, term, left, hooks, shutdown, http, log, worker, ready>>
    BY <1>2 DEF ReadCounters, process, events
  <2>3. request'.todo = Tail(request.todo) /\ request'.left = request.left /\ IsRequest(request')
    BY <2>1 DEF Then
  <2> QED BY <1>1, <2>1, <2>2, <2>3 DEF Reading
<1>3. CASE AskPing
  <2>1. UNCHANGED <<phase, code, term, left, hooks, shutdown, http, log, worker, ready>>
    BY <1>3 DEF AskPing, process, events
  <2>2. CASE "ping" \in hooks
    <3>1. request' = [request EXCEPT !.left = PingTimeout] /\ Asks("ping") /\ request.left = None
      BY <1>3, <2>2 DEF AskPing
    <3>2. request'.todo = request.todo /\ request'.left = PingTimeout /\ IsRequest(request')
      BY <3>1
    <3> QED BY <2>1, <2>2, <3>1, <3>2 DEF Reading
  <2>3. CASE "ping" \notin hooks
    <3>1. request' = Then(request) /\ Asks("ping") /\ request.left = None
      BY <1>3, <2>3 DEF AskPing
    <3>2. request'.todo = Tail(request.todo) /\ request'.left = request.left /\ IsRequest(request')
      BY <3>1 DEF Then
    <3> QED BY <1>1, <2>1, <3>1, <3>2 DEF Reading
  <2> QED BY <2>2, <2>3
<1>4. CASE Ping
  <2>1. /\ request' = [Then(request) EXCEPT !.left = None]
        /\ Asks("ping") /\ request.left # None
    BY <1>4 DEF Ping
  <2>2. UNCHANGED <<phase, code, term, left, hooks, shutdown, http, log, worker>>
    BY <1>4 DEF Ping, events
  <2>3. request'.todo = Tail(request.todo) /\ request'.left = None /\ IsRequest(request')
    BY <2>1 DEF Then
  <2> QED BY <1>1, <2>1, <2>2, <2>3 DEF Reading
<1>5. CASE AskDeadLetter
  <2>1. UNCHANGED <<phase, code, term, left, hooks, shutdown, http, log, worker, ready>>
    BY <1>5 DEF AskDeadLetter, process, events
  <2>2. Asks("len") /\ request.left = None
    BY <1>5 DEF AskDeadLetter
  <2>3. CASE "dead letter" \in hooks
    <3>1. request' = [request EXCEPT !.left = DeadLetterTimeout]
      BY <1>5, <2>3 DEF AskDeadLetter
    <3>2. request'.todo = request.todo /\ request'.left = DeadLetterTimeout /\ IsRequest(request')
      BY <3>1
    <3> QED BY <2>1, <2>2, <3>2 DEF Reading
  <2>4. CASE "dead letter" \notin hooks
    <3>1. request' = Answer(request)
      BY <1>5, <2>4 DEF AskDeadLetter
    <3>2. request'.todo = << >> /\ request'.left = None /\ IsRequest(request')
      BY <3>1 DEF Answer
    <3> QED BY <2>1, <2>2, <3>2 DEF Reading
  <2> QED BY <2>3, <2>4
<1>6. CASE ReadDeadLetter
  <2>1. UNCHANGED <<phase, code, term, left, hooks, shutdown, http, log, worker, ready>>
    BY <1>6 DEF ReadDeadLetter, process, events
  <2>2. (Asks("len") \/ Asks("recent")) /\ request.left # None
    BY <1>6 DEF ReadDeadLetter
  <2>3. CASE request' = Answer(request)
    <3>1. request'.todo = << >> /\ request'.left = None /\ IsRequest(request')
      BY <2>3 DEF Answer
    <3> QED BY <2>1, <2>2, <3>1 DEF Reading
  <2>4. CASE request' # Answer(request)
    <3>1. request' = [Then(request) EXCEPT
             !.left    = IF Tail(request.todo) = <<"recent">> THEN @ ELSE None,
             !.pending = IF Asks("len") /\ Tail(request.todo) # <<"recent">> THEN backlog ELSE None]
      BY <1>6, <2>4 DEF ReadDeadLetter
    <3>2. /\ request'.todo = Tail(request.todo)
          /\ request'.left = IF Tail(request.todo) = <<"recent">> THEN request.left ELSE None
          /\ IsRequest(request')
      BY <3>1 DEF Then
    <3>3. Tail(request.todo) = <<"recent">> => Asks("len")
      BY <1>1, <2>2
    <3> QED BY <1>1, <2>1, <2>2, <3>2, <3>3 DEF Reading
  <2> QED BY <2>3, <2>4
<1> QED BY <1>2, <1>3, <1>4, <1>5, <1>6 DEF Serve

\* What the reads after a step are asked for.
LEMMA AsksAfter ==
  /\ request'.todo = << >> => Answered' /\ \A r : ~Asks(r)'
  /\ request'.todo = <<"len">> \/ request'.todo = <<"len", "recent">> =>
       ~Answered' /\ \A r : Asks(r)' <=> r = "len"
  /\ request'.todo = <<"recent">> => ~Answered' /\ \A r : Asks(r)' <=> r = "recent"
  /\ request'.todo = <<"ping">> \/ request'.todo = <<"ping", "len", "recent">> =>
       ~Answered' /\ \A r : Asks(r)' <=> r = "ping"
  /\ request'.todo = <<"counters", "len">> => ~Answered' /\ \A r : Asks(r)' <=> r = "counters"
  /\ request'.todo = request.todo => (Answered' <=> Answered) /\ \A r : Asks(r)' <=> Asks(r)
<1>1. /\ Answered' <=> request'.todo = << >>
      /\ \A r : Asks(r)' <=> ~Answered' /\ Head(request'.todo) = r
  BY DEF Asks, Answered
<1>2. request'.todo = request.todo => (Answered' <=> Answered) /\ \A r : Asks(r)' <=> Asks(r)
  BY DEF Asks, Answered
<1> QED BY <1>1, <1>2, ReadsAre, Zenon

\* A handler's step keeps what is known of its call and of the time for it.
LEMMA ServeStep == Inv /\ Serve => Inv'
<1> SUFFICES ASSUME Inv, Serve PROVE Inv'
  OBVIOUS
<1> USE DEF Inv
<1>1. /\ Reading /\ IsRequest(request')
      /\ UNCHANGED <<phase, code, term, left, hooks, shutdown, http, log, worker>>
  BY ServeReads
<1>2. request'.todo \in Shapes
  BY <1>1, ShapesAre DEF Reading, Shapes, RequestInv
<1>3. ~Answered
  BY <1>1 DEF Reading, Asks
<1>4. ready' => "ping" \in hooks
  BY <1>1 DEF Reading, RequestInv, MainInv
<1>5. MainInv'
  BY <1>1, <1>4 DEF MainInv
<1>6. /\ "ping" # "counters" /\ "ping" # "len" /\ "ping" # "recent" /\ "counters" # "len"
      /\ "counters" # "recent" /\ "len" # "recent"
  OBVIOUS
<1>7. None = -1 /\ PingTimeout \in Nat /\ DeadLetterTimeout \in Nat
  BY ServiceAssumption DEF None, ServiceAssumption
\* What remains to show, as a fact of the new reads.
<1> DEFINE Call ==
      /\ request'.left \in Int /\ request'.left >= None
      /\ Answered' => request'.left = None
      /\ Asks("counters")' => request'.left = None
      /\ Asks("recent")' => request'.left # None
      /\ Asks("ping")' => request'.left <= PingTimeout
      /\ Asks("ping")' /\ request'.left # None => "ping" \in hooks
      /\ Asks("len")' \/ Asks("recent")' => request'.left <= DeadLetterTimeout
           Time ==
      phase = "leaving" =>
       /\ Asks("counters")' => left = 0
       /\ Asks("ping")' /\ request'.left = None => left = 0
       /\ Asks("ping")' /\ request'.left # None => left + request'.left <= PingTimeout
       /\ Asks("len")' /\ request'.left = None => left <= PingTimeout
       /\ (Asks("len")' \/ Asks("recent")') /\ request'.left # None =>
            left + request'.left <= PingTimeout + DeadLetterTimeout
<1>8. Call /\ Time
  <2> DEFINE Only(t) == /\ Answered' = FALSE
                        /\ Asks("counters")' <=> t = "counters"
                        /\ Asks("ping")' <=> t = "ping"
                        /\ Asks("len")' <=> t = "len"
                        /\ Asks("recent")' <=> t = "recent"
             Nothing == Answered' /\ ~Asks("counters")' /\ ~Asks("ping")' /\ ~Asks("len")' /\ ~Asks("recent")'
  <2>1. /\ request'.todo = << >> => Nothing
        /\ request'.todo \in {<<"len">>, <<"len", "recent">>} => Only("len")
        /\ request'.todo = <<"recent">> => Only("recent")
    BY AsksAfter
  <2>2. /\ request'.todo = request.todo /\ Asks("ping") => Only("ping")
        /\ request'.todo = request.todo /\ Asks("len") => Only("len")
    BY <1>3, <1>6, AsksAfter DEF Asks
  <2>3. CASE Asks("counters") /\ request'.todo = <<"len">> /\ request'.left = None
    <3>1. Only("len")
      BY <2>1, <2>3
    <3>2. phase = "leaving" => left = 0
      BY <2>3 DEF GraceInv
    <3> QED BY <1>6, <1>7, <2>3, <3>1, <3>2
  <2>4. CASE /\ Asks("ping") /\ request.left = None /\ "ping" \in hooks
             /\ request'.todo = request.todo /\ request'.left = PingTimeout
    <3>1. Only("ping")
      BY <2>2, <2>4
    <3>2. phase = "leaving" => left = 0
      BY <2>4 DEF GraceInv
    <3> QED BY <1>6, <1>7, <2>4, <3>1, <3>2
  <2>5. CASE Asks("ping") /\ request'.todo = << >> /\ request'.left = None
    <3>1. Nothing
      BY <2>1, <2>5
    <3> QED BY <1>7, <2>5, <3>1
  <2>6. CASE Asks("ping") /\ request'.todo = <<"len", "recent">> /\ request'.left = None
    <3>1. Only("len")
      BY <2>1, <2>6
    <3>2. phase = "leaving" => left <= PingTimeout
      BY <1>7, <2>6 DEF GraceInv, RequestInv
    <3> QED BY <1>6, <1>7, <2>6, <3>1, <3>2
  <2>7. CASE /\ Asks("len") /\ request.left = None
             /\ request'.todo = request.todo /\ request'.left = DeadLetterTimeout
    <3>1. Only("len")
      BY <2>2, <2>7
    <3>2. left \in Nat /\ (phase = "leaving" => left <= PingTimeout)
      BY <2>7 DEF GraceInv
    <3> QED BY <1>6, <1>7, <2>7, <3>1, <3>2
  <2>8. CASE /\ Asks("len") /\ request.left # None
             /\ request'.todo = <<"recent">> /\ request'.left = request.left
    <3>1. Only("recent")
      BY <2>1, <2>8
    <3>2. phase = "leaving" => left + request.left <= PingTimeout + DeadLetterTimeout
      BY <2>8 DEF GraceInv
    <3>3. /\ request.left \in Int /\ request.left >= None /\ request.left <= DeadLetterTimeout
      BY <2>8 DEF RequestInv
    <3> QED BY <1>6, <1>7, <2>8, <3>1, <3>2, <3>3
  <2>9. CASE request'.todo = << >> /\ request'.left = None
    <3>1. Nothing
      BY <2>1, <2>9
    <3> QED BY <1>7, <2>9, <3>1
  <2> HIDE DEF Only, Nothing, Call, Time
  <2> QED BY <1>1, <2>3, <2>4, <2>5, <2>6, <2>7, <2>8, <2>9 DEF Reading
<1>9. RequestInv'
  BY <1>1, <1>2, <1>3, <1>8 DEF RequestInv, IsRequest
<1>10. GraceInv'
  BY <1>1, <1>3, <1>8 DEF GraceInv
<1> QED BY <1>5, <1>9, <1>10
-----------------------------------------------------------------------------
(* The other steps *)

\* A step that leaves the request alone.
LEMMA RequestKept ==
  ASSUME RequestInv, request' = request, hooks \subseteq hooks',
         http' \in {"off", "starting"} => http = http'
  PROVE  RequestInv'
<1>1. (Answered' <=> Answered) /\ \A r : Asks(r)' <=> Asks(r)
  BY DEF Asks, Answered
<1> QED BY <1>1 DEF RequestInv

\* Shutdown of the HTTP server begins with what is left of a call, which is no
\* more than its timeout.
LEMMA GraceKept ==
  ASSUME RequestInv, GraceInv, request' = request, left' = left,
         \/ phase' = phase /\ code' = code
         \/ phase' \notin {"leaving", "exited"}
         \/ phase' = "leaving" /\ left = 0
         \/ phase' = "exited" /\ (Answered \/ code' = Killed)
  PROVE  GraceInv'
<1>1. (Answered' <=> Answered) /\ \A r : Asks(r)' <=> Asks(r)
  BY DEF Asks, Answered
<1>2. PingTimeout \in Nat /\ DeadLetterTimeout \in Nat
  BY ServiceAssumption DEF ServiceAssumption
<1>3. CASE phase' = phase /\ code' = code
  BY <1>1, <1>3 DEF GraceInv
<1>4. CASE phase' \notin {"leaving", "exited"}
  BY <1>4 DEF GraceInv
<1>5. CASE phase' = "leaving" /\ left = 0
  <2>1. /\ Asks("ping") => request.left <= PingTimeout
        /\ Asks("len") \/ Asks("recent") => request.left <= DeadLetterTimeout
        /\ request.left \in Int
    BY DEF RequestInv
  <2> QED BY <1>1, <1>2, <1>5, <2>1 DEF GraceInv
<1>6. CASE phase' = "exited" /\ (Answered \/ code' = Killed)
  BY <1>1, <1>6 DEF GraceInv
<1> QED BY <1>3, <1>4, <1>5, <1>6

\* The HTTP server's Shutdown has more time than any answer takes.
LEMMA DrainedIsAnswered == Inv /\ phase = "leaving" /\ Drained => Answered
<1> SUFFICES ASSUME Inv, phase = "leaving", left = Grace, ~Answered PROVE FALSE
  BY DEF Drained
<1>1. /\ PingTimeout \in Nat /\ DeadLetterTimeout \in Nat /\ Grace \in Nat
      /\ PingTimeout + DeadLetterTimeout < Grace
  BY ServiceAssumption DEF ServiceAssumption
<1>2. Asks("ping") \/ Asks("counters") \/ Asks("len") \/ Asks("recent")
  BY ShapesAre DEF Inv, RequestInv
<1>3. request.left \in Int /\ request.left >= None /\ None = -1
  BY DEF Inv, RequestInv, None
<1>4. Asks("recent") => request.left # None
  BY DEF Inv, RequestInv
<1>5. request.left # None => request.left >= 0
  BY <1>3
<1>6. left <= PingTimeout + DeadLetterTimeout
  <2>1. CASE Asks("counters")
    BY <1>1, <2>1 DEF Inv, GraceInv
  <2>2. CASE Asks("ping") /\ request.left = None
    BY <1>1, <2>2 DEF Inv, GraceInv
  <2>3. CASE Asks("ping") /\ request.left # None
    BY <1>1, <1>3, <1>5, <2>3 DEF Inv, GraceInv
  <2>4. CASE Asks("len") /\ request.left = None
    BY <1>1, <2>4 DEF Inv, GraceInv
  <2>5. CASE (Asks("len") \/ Asks("recent")) /\ request.left # None
    BY <1>1, <1>3, <1>5, <2>5 DEF Inv, GraceInv
  <2> QED BY <1>2, <1>4, <2>1, <2>2, <2>3, <2>4, <2>5
<1> QED BY <1>1, <1>6

\* main's steps.
LEMMA MainStep == Inv /\ Main => Inv'
<1> SUFFICES ASSUME Inv, Main PROVE Inv'
  OBVIOUS
<1> USE DEF Inv
<1>0. None \notin {0, 1, Killed} /\ Killed \notin {0, 1}
  BY DEF None, Killed
<1>1. CASE Start
  <2>1. MainInv' /\ UNCHANGED <<request, left, hooks>> /\ http' \in {http, "starting"} /\ http = "off"
        /\ (phase' = "listening" \/ (phase' = "exited" /\ http' = http))
    <3>1. /\ UNCHANGED <<env, term, shutdown, hooks, ready, left, worker, request, log>>
          /\ phase = "new" /\ http = "off"
      BY <1>1 DEF Start, MainInv, events
    <3>2. CASE env = "config"
      <4>1. phase' = "exited" /\ code' = 1 /\ http' = http
        BY <1>1, <3>2 DEF Start
      <4> QED BY <1>0, <3>1, <4>1 DEF MainInv, Phases
    <3>3. CASE env # "config"
      <4>1. phase' = "listening" /\ code' = code /\ http' = "starting"
        BY <1>1, <3>3 DEF Start
      <4>2. /\ worker = Idle /\ log = << >> /\ "ping" \notin hooks
            /\ code = None /\ left = 0 /\ ~ready
        BY <3>1 DEF MainInv
      <4>3. shutdown => term
        BY DEF MainInv
      <4>4. MainInv'
        BY <1>0, <3>1, <4>1, <4>2, <4>3 DEF MainInv, Phases
      <4> QED BY <3>1, <4>1, <4>4
    <3> QED BY <3>2, <3>3
  <2>2. Answered
    BY <2>1 DEF RequestInv
  <2>3. GraceInv'
    BY <2>1, <2>2, GraceKept
  <2>4. (Answered' <=> Answered) /\ \A r : Asks(r)' <=> Asks(r)
    BY <2>1 DEF Asks, Answered
  <2>5. RequestInv'
    BY <2>1, <2>2, <2>4 DEF RequestInv
  <2> QED BY <2>1, <2>3, <2>5
\* The others but Exit either go on or leave.
<1>2. ASSUME MainInv', UNCHANGED <<request, left>>, hooks \subseteq hooks', http' \in {http, "closed"},
             \/ phase' \notin {"leaving", "exited"}
             \/ phase' = "leaving" /\ left = 0
      PROVE  Inv'
  BY <1>2, RequestKept, GraceKept
<1>3. CASE LoadRedisStartupTimeout
  <2>1. MainInv'
    BY <1>0, <1>3 DEF LoadRedisStartupTimeout, Leave, MainInv, Phases, events
  <2> QED BY <1>2, <1>3, <2>1 DEF LoadRedisStartupTimeout, Leave, MainInv
<1>4. CASE WaitForRedis
  <2>1. MainInv'
    BY <1>0, <1>4 DEF WaitForRedis, Leave, MainInv, Phases, events
  <2> QED BY <1>2, <1>4, <2>1 DEF WaitForRedis, Leave, MainInv
<1>5. CASE NewRedisCatcher
  <2>1. MainInv'
    BY <1>0, <1>5 DEF NewRedisCatcher, Leave, MainInv, Phases, events
  <2> QED BY <1>2, <1>5, <2>1 DEF NewRedisCatcher, Leave, MainInv
<1>6. CASE SetPing \/ SetDeadLetter \/ Run
  <2>1. \/ phase = "created" /\ phase' = "pinging"
        \/ phase = "pinging" /\ phase' = "wired"
        \/ phase = "wired" /\ phase' = "running"
    BY <1>6 DEF SetPing, SetDeadLetter, Run, Proceed
  <2>2. /\ UNCHANGED <<events, env, code, term, waited, shutdown, ready, http, left, worker, request, store>>
        /\ hooks \subseteq hooks'
    BY <1>6 DEF SetPing, SetDeadLetter, Run, Proceed
  <2>3. code = None
    BY <2>1 DEF MainInv
  <2>4. MainInv'
    BY <1>0, <2>1, <2>2, <2>3 DEF MainInv, Phases, events
  <2> QED BY <1>2, <2>1, <2>2, <2>4
<1>7. CASE RunReturns
  <2>1. MainInv'
    BY <1>0, <1>7 DEF RunReturns, Leave, MainInv, Phases, events
  <2> QED BY <1>2, <1>7, <2>1 DEF RunReturns, Leave, MainInv
<1>8. CASE Exit
  <2>1. MainInv'
    BY <1>0, <1>8 DEF Exit, MainInv, Phases, events
  <2>2. Answered
    BY <1>8, DrainedIsAnswered DEF Exit
  <2>3. UNCHANGED <<request, left, hooks, http>> /\ phase' = "exited"
    BY <1>8 DEF Exit
  <2> QED BY <2>1, <2>2, <2>3, RequestKept, GraceKept
<1> QED BY <1>1, <1>3, <1>4, <1>5, <1>6, <1>7, <1>8 DEF Main

\* The signals, the worker and the listener.
LEMMA SideStep ==
  Inv /\ (Stop \/ Sigterm \/ Dispatch \/ Work \/ Listen \/ Outage \/ Recover \/ Replay) => Inv'
<1> SUFFICES ASSUME Inv, Stop \/ Sigterm \/ Dispatch \/ Work \/ Listen \/ Outage \/ Recover \/ Replay
             PROVE  Inv'
  OBVIOUS
<1> USE DEF Inv
<1>0. None \notin {0, 1, Killed} /\ Killed \notin {0, 1}
  BY DEF None, Killed
<1>1. ASSUME MainInv', UNCHANGED <<request, left, hooks, phase, code>>,
             http' = http \/ http' \in {"up", "failed"}
      PROVE  Inv'
  BY <1>1, RequestKept, GraceKept
<1>2. CASE Stop
  <2>1. MainInv'
    BY <1>2 DEF Stop, MainInv, events
  <2> QED BY <1>1, <1>2, <2>1 DEF Stop
<1>3. CASE Sigterm
  <2>1. MainInv'
    BY <1>0, <1>3 DEF Sigterm, MainInv, Phases, events
  <2>2. CASE phase = "new"
    <3>1. UNCHANGED <<request, left, hooks, http>> /\ phase' = "exited" /\ code' = Killed
      BY <1>3, <2>2 DEF Sigterm
    <3> QED BY <2>1, <3>1, RequestKept, GraceKept
  <2>3. CASE phase # "new"
    BY <1>1, <1>3, <2>1, <2>3 DEF Sigterm
  <2> QED BY <2>2, <2>3
<1>4. CASE Dispatch
  <2>1. MainInv'
    BY <1>4 DEF Dispatch, MainInv, events, process
  <2> QED BY <1>1, <1>4, <2>1 DEF Dispatch, process
<1>5. CASE Work
  <2>1. worker # Idle /\ UNCHANGED <<process, request>>
    BY <1>5 DEF Work, Record, Park, Idle
  <2>2. phase = "running"
    BY <2>1 DEF MainInv
  <2>3. MainInv'
    BY <1>0, <2>1, <2>2 DEF MainInv, process
  <2> QED BY <1>1, <2>1, <2>3 DEF process
<1>6. CASE Listen
  <2>1. MainInv'
    BY <1>6 DEF Listen, MainInv, events
  <2> QED BY <1>1, <1>6, <2>1 DEF Listen
<1>7. CASE Outage \/ Recover \/ Replay
  <2>1. UNCHANGED <<events, process, worker, request>>
    BY <1>7 DEF Outage, Recover, Replay
  <2>2. MainInv'
    BY <2>1 DEF MainInv, events, process
  <2> QED BY <1>1, <2>1, <2>2 DEF process
<1> QED BY <1>2, <1>3, <1>4, <1>5, <1>6, <1>7

\* A new request, which comes only while the server listens.
LEMMA RequestStep == \A kind \in {"healthz", "metrics", "dead-letter"} : Inv /\ Request(kind) => Inv'
<1> SUFFICES ASSUME NEW kind \in {"healthz", "metrics", "dead-letter"}, Inv, Request(kind) PROVE Inv'
  OBVIOUS
<1> USE DEF Inv
<1>1. http = "up" /\ UNCHANGED <<events, process, worker, store>>
      /\ request' = [NoRequest EXCEPT !.todo = Reads(kind)]
  BY DEF Request
<1>2. Reads(kind) \in {<<"ping">>, <<"counters", "len">>, <<"ping", "len", "recent">>}
  BY DEF Reads
<1>3. request'.todo = Reads(kind) /\ request'.left = None /\ IsRequest(request')
  BY <1>1 DEF NoRequest, IsRequest
<1>4. MainInv'
  BY <1>1 DEF MainInv, events, process
<1>5. phase \notin {"leaving", "exited"}
  BY <1>1 DEF MainInv
<1>6. None = -1 /\ PingTimeout \in Nat /\ DeadLetterTimeout \in Nat
  BY ServiceAssumption DEF None, ServiceAssumption
<1>7. ~Answered' /\ ~Asks("recent")'
  BY <1>2, <1>3, AsksAfter
<1>8. RequestInv'
  BY <1>1, <1>2, <1>3, <1>6, <1>7 DEF RequestInv, Shapes, process
<1>9. GraceInv'
  BY <1>1, <1>5 DEF GraceInv, process
<1> QED BY <1>4, <1>8, <1>9

\* Time: what Shutdown has used and what is left of a call move together.
LEMMA TickStep == Inv /\ Tick => Inv'
<1> SUFFICES ASSUME Inv, Tick PROVE Inv'
  OBVIOUS
<1> USE DEF Inv
<1>1. /\ UNCHANGED <<events, env, phase, code, term, shutdown, hooks, ready, http, worker, store>>
      /\ left' = IF phase = "leaving" THEN left + 1 ELSE left
      /\ request' = [request EXCEPT !.left = IF @ = None THEN None ELSE @ - 1]
      /\ ~Answered => request.left > 0
  BY DEF Tick
<1>2. None = -1 /\ PingTimeout \in Nat /\ DeadLetterTimeout \in Nat
  BY ServiceAssumption DEF None, ServiceAssumption
<1>3. /\ request'.todo = request.todo /\ IsRequest(request')
      /\ request'.left = IF request.left = None THEN None ELSE request.left - 1
  BY <1>1 DEF RequestInv, IsRequest
<1>4. (Answered' <=> Answered) /\ \A r : Asks(r)' <=> Asks(r)
  BY <1>3, AsksAfter
<1>5. MainInv'
  BY <1>1 DEF MainInv, events
<1>6. CASE Answered
  <2>1. request.left = None /\ \A r : ~Asks(r)
    BY <1>6 DEF RequestInv, Asks
  <2>2. left' \in Nat
    BY <1>1 DEF GraceInv
  <2>3. RequestInv'
    BY <1>1, <1>2, <1>3, <1>4, <1>6, <2>1 DEF RequestInv
  <2>4. GraceInv'
    BY <1>1, <1>4, <1>6, <2>1, <2>2 DEF GraceInv
  <2> QED BY <1>5, <2>3, <2>4
<1>7. CASE ~Answered
  <2>1. request.left \in Int /\ request.left > 0 /\ request'.left = request.left - 1
        /\ request.left # None /\ request'.left # None
    BY <1>1, <1>2, <1>3, <1>7 DEF RequestInv
  <2>2. ~Asks("counters")
    BY <2>1 DEF RequestInv
  <2>3. RequestInv'
    BY <1>1, <1>2, <1>3, <1>4, <1>7, <2>1, <2>2 DEF RequestInv
  <2>4. left \in Nat /\ left' \in Nat
    BY <1>1 DEF GraceInv
  <2>5. phase = "leaving" => left' + request'.left = left + request.left
    BY <1>1, <2>1, <2>4
  <2>6. GraceInv'
    BY <1>1, <1>4, <1>7, <2>1, <2>2, <2>4, <2>5 DEF GraceInv
  <2> QED BY <1>5, <2>3, <2>6
<1> QED BY <1>6, <1>7
-----------------------------------------------------------------------------
\* The invariant holds at the start, and every step keeps it.
LEMMA InvInit == Init => Inv
<1> SUFFICES ASSUME Init PROVE Inv
  OBVIOUS
<1>1. MainInv
  BY DEF Init, newEvents, MainInv, Phases, None
<1>2. request.todo = << >> /\ request.left = None /\ IsRequest(request)
  BY DEF Init, NoRequest, IsRequest
<1>3. Answered /\ \A r : ~Asks(r)
  BY <1>2 DEF Answered, Asks
<1>4. RequestInv
  BY <1>2, <1>3 DEF RequestInv, Shapes, None
<1>5. GraceInv
  BY <1>3 DEF Init, GraceInv
<1> QED BY <1>1, <1>4, <1>5 DEF Inv

LEMMA InvStep == Inv /\ [Next]_vars => Inv'
<1>1. Inv /\ UNCHANGED vars => Inv'
  BY RequestKept, GraceKept DEF Inv, vars, process, events, MainInv
<1> QED BY <1>1, MainStep, SideStep, RequestStep, TickStep, ServeStep DEF Next

\* Whenever SIGTERM comes and however slow Redis is, the process ends with no
\* dispatch and no answer cut off; with 1 only before it was ready.
THEOREM NothingIsCutOff == Spec => []NothingCutOff
<1>1. Inv => NothingCutOff
  BY DEF Inv, MainInv, GraceInv, NothingCutOff, Phases, None, Killed
<1> QED BY <1>1, InvInit, InvStep, PTL DEF Spec
-----------------------------------------------------------------------------
(* Sums *)

\* A set of numbers has a least one.  (The library's rule of induction takes
\* the property as a parameter; the well-founded order of the initial segments
\* says as much of sets.)
LEMMA LeastNumber ==
  ASSUME NEW S \in SUBSET Nat, S # {}
  PROVE  \E n \in S : \A m \in S : n <= m
<1> DEFINE T == {0..n : n \in S}
           R == StrictSubsetOrdering(Nat)
<1>1. IsWellFoundedOn(R, FiniteSubsetsOf(Nat))
  BY FS_StrictSubsetOrderingWellFounded
<1>2. T \subseteq FiniteSubsetsOf(Nat) /\ T # {}
  <2>1. \A n \in S : 0..n \in SUBSET Nat /\ IsFiniteSet(0..n)
    BY FS_Interval
  <2> QED BY <2>1 DEF FiniteSubsetsOf
<1> HIDE DEF R
<1>3. PICK x \in T : \A y \in T : ~(<<y, x>> \in R)
  BY <1>1, <1>2, WFMin
<1>4. PICK n \in S : x = 0..n
  OBVIOUS
<1>5. ASSUME NEW m \in S, m < n PROVE FALSE
  <2>1. n \in 0..n /\ n \notin 0..m /\ (0..m) \subseteq (0..n)
    BY <1>5
  <2>2. <<0..m, 0..n>> \in R
    BY <2>1 DEF R, StrictSubsetOrdering
  <2> QED BY <1>3, <1>4, <2>2
<1>6. \A m \in S : ~(m < n) /\ m \in Nat /\ n \in Nat
  BY <1>5
<1> QED BY <1>6

\* Among the subsets of a finite set there is one that no other is below.
LEMMA SmallestSubset ==
  ASSUME NEW S, IsFiniteSet(S), NEW B \in SUBSET (SUBSET S), B # {}
  PROVE  \E s \in B : \A x \in s : s \ {x} \notin B
<1> DEFINE R == StrictSubsetOrdering(S)
<1>1. IsWellFoundedOn(R, FiniteSubsetsOf(S))
  BY FS_StrictSubsetOrderingWellFounded
<1>2. B \subseteq FiniteSubsetsOf(S)
  BY FS_Subset DEF FiniteSubsetsOf
<1> HIDE DEF R
<1>3. PICK s \in B : \A t \in B : ~(<<t, s>> \in R)
  BY <1>1, <1>2, WFMin
<1>4. ASSUME NEW x \in s, s \ {x} \in B PROVE FALSE
  <2>1. <<s \ {x}, s>> \in R
    BY <1>4 DEF R, StrictSubsetOrdering
  <2> QED BY <1>3, <1>4, <2>1
<1> QED BY <1>3, <1>4

\* c takes an element of every set, and g adds f up in that order.
Chooses(c, S) == \A s \in SUBSET S : s # {} => c[s] \in s
Rest(c, s)    == s \ {c[s]}
Sums(g, f, c, S) ==
  /\ g[{}] = 0
  /\ \A s \in SUBSET S : g[s] \in Nat /\ (s # {} => g[s] = f[c[s]] + g[Rest(c, s)])

\* The sums of the subsets, from those of the smaller ones.
SumFrom(g, f, c, S) == [s \in SUBSET S |-> IF s = {} THEN 0 ELSE f[c[s]] + g[Rest(c, s)]]

\* What adds numbers up, in either order of the two, is a number.
LEMMA SumIsNat ==
  ASSUME NEW S, IsFiniteSet(S), NEW c, Chooses(c, S), NEW f, \A x \in S : f[x] \in Nat,
         NEW g, g[{}] = 0,
         \A s \in SUBSET S : s # {} => \/ g[s] = f[c[s]] + g[Rest(c, s)]
                                       \/ g[s] = g[Rest(c, s)] + f[c[s]]
  PROVE  Sums(g, f, c, S)
<1> DEFINE B == {s \in SUBSET S : g[s] \notin Nat}
<1>1. ASSUME B # {} PROVE FALSE
  <2>1. PICK s \in B : \A x \in s : s \ {x} \notin B
    BY <1>1, SmallestSubset
  <2>2. s # {} /\ s \in SUBSET S
    <3>1. g[s] \notin Nat /\ g[{}] \in Nat
      OBVIOUS
    <3> QED BY <3>1
  <2>3. c[s] \in s /\ f[c[s]] \in Nat
    BY <2>2 DEF Chooses
  <2>4. g[Rest(c, s)] \in Nat
    BY <2>1, <2>2, <2>3 DEF Rest
  <2> QED BY <2>2, <2>3, <2>4
<1>2. \A s \in SUBSET S : g[s] \in Nat
  BY <1>1
<1>3. ASSUME NEW s \in SUBSET S, s # {} PROVE g[s] = f[c[s]] + g[Rest(c, s)]
  <2>1. f[c[s]] \in Nat /\ Rest(c, s) \in SUBSET S
    BY <1>3 DEF Chooses, Rest
  <2>2. g[Rest(c, s)] \in Nat
    BY <1>2, <2>1
  <2> QED BY <1>3, <2>1, <2>2
<1> QED BY <1>2, <1>3 DEF Sums

\* The sums of the subsets up to a size are a function.
LEMMA SumsExist ==
  ASSUME NEW S, IsFiniteSet(S), NEW c, Chooses(c, S), NEW f
  PROVE  \E g : g = SumFrom(g, f, c, S)
<1> DEFINE L(k)    == {s \in SUBSET S : Cardinality(s) <= k}
           D(g, s) == IF s = {} THEN 0 ELSE f[c[s]] + g[Rest(c, s)]
           P(k)    == \E g : g = [s \in L(k) |-> D(g, s)]
           T       == {k \in Nat : ~P(k)}
<1>1. \A s \in SUBSET S : /\ IsFiniteSet(s) /\ Cardinality(s) \in Nat
                          /\ Cardinality(s) <= Cardinality(S)
  BY FS_Subset, FS_CardinalityType
<1>2. Cardinality(S) \in Nat /\ L(Cardinality(S)) = SUBSET S
  BY <1>1, FS_CardinalityType
<1>3. ASSUME NEW s \in SUBSET S, s # {}
      PROVE  Rest(c, s) \in SUBSET S /\ Cardinality(Rest(c, s)) = Cardinality(s) - 1
  BY <1>1, <1>3, FS_RemoveElement DEF Chooses, Rest
<1> HIDE DEF P
<1>4. P(0)
  <2> USE DEF P
  <2>1. \A s \in L(0) : s = {}
    BY <1>1, FS_EmptySet
  <2> DEFINE g == [s \in L(0) |-> 0]
  <2>2. g = [s \in L(0) |-> D(g, s)]
    BY <2>1
  <2> QED BY <2>2
<1>5. ASSUME T # {} PROVE FALSE
  <2>1. PICK k \in T : \A m \in T : k <= m
    BY <1>5, LeastNumber
  <2>0. k \in Nat /\ ~P(k)
    OBVIOUS
  <2>2. k \in Nat /\ k # 0 /\ k - 1 \in Nat /\ P(k - 1)
    <3>1. k # 0
      BY <1>4, <2>0
    <3>2. k - 1 \in Nat /\ ~(k <= k - 1)
      BY <2>0, <3>1
    <3>3. k - 1 \notin T
      BY <2>1, <3>2
    <3> QED BY <2>0, <3>1, <3>2, <3>3
  <2> USE DEF P
  <2>3. PICK h : h = [s \in L(k - 1) |-> D(h, s)]
    BY <2>2
  <2> DEFINE g == [s \in L(k) |-> D(h, s)]
  <2>4. ASSUME NEW s \in L(k) PROVE D(g, s) = D(h, s)
    <3> SUFFICES ASSUME s # {} PROVE g[Rest(c, s)] = h[Rest(c, s)]
      OBVIOUS
    <3>1. Rest(c, s) \in L(k - 1) /\ Rest(c, s) \in L(k)
      BY <1>1, <1>3, <2>2
    <3> QED BY <2>3, <3>1
  <2>5. g = [s \in L(k) |-> D(g, s)]
    BY <2>4
  <2> QED BY <2>0, <2>5
<1>6. P(Cardinality(S))
  BY <1>2, <1>5
<1> QED BY <1>2, <1>6 DEF P, SumFrom

\* Sums in one order of one function are one.
LEMMA SumsAgree ==
  ASSUME NEW S, IsFiniteSet(S), NEW c, Chooses(c, S),
         NEW f, NEW g, NEW h, Sums(g, f, c, S), Sums(h, f, c, S)
  PROVE  \A s \in SUBSET S : g[s] = h[s]
<1> DEFINE B == {s \in SUBSET S : g[s] # h[s]}
<1> SUFFICES ASSUME B # {} PROVE FALSE
  OBVIOUS
<1>1. PICK s \in B : \A x \in s : s \ {x} \notin B
  BY SmallestSubset
<1>2. s # {}
  BY DEF Sums
<1>3. c[s] \in s /\ Rest(c, s) \in SUBSET S /\ g[Rest(c, s)] = h[Rest(c, s)]
  BY <1>1, <1>2 DEF Chooses, Rest
<1> QED BY <1>2, <1>3 DEF Sums

\* The sum of the sums.
LEMMA SumsAdd ==
  ASSUME NEW S, IsFiniteSet(S), NEW c, Chooses(c, S),
         NEW f1, NEW f2, NEW f, \A x \in S : f1[x] \in Nat /\ f2[x] \in Nat /\ f[x] = f1[x] + f2[x],
         NEW g1, NEW g2, NEW g, Sums(g1, f1, c, S), Sums(g2, f2, c, S), Sums(g, f, c, S)
  PROVE  \A s \in SUBSET S : g[s] = g1[s] + g2[s]
<1> DEFINE B == {s \in SUBSET S : g[s] # g1[s] + g2[s]}
<1> SUFFICES ASSUME B # {} PROVE FALSE
  OBVIOUS
<1>1. PICK s \in B : \A x \in s : s \ {x} \notin B
  BY SmallestSubset
<1>2. s # {}
  <2>1. g[{}] = 0 /\ g1[{}] = 0 /\ g2[{}] = 0
    BY DEF Sums
  <2>2. {} \notin B
    BY <2>1
  <2> QED BY <2>2
<1>3. c[s] \in s /\ c[s] \in S /\ Rest(c, s) \in SUBSET S
      /\ g[Rest(c, s)] = g1[Rest(c, s)] + g2[Rest(c, s)]
  BY <1>1, <1>2 DEF Chooses, Rest
<1>4. g[s] = f[c[s]] + g[Rest(c, s)] /\ g1[s] = f1[c[s]] + g1[Rest(c, s)]
      /\ g2[s] = f2[c[s]] + g2[Rest(c, s)]
  BY <1>2 DEF Sums
<1>5. g1[Rest(c, s)] \in Nat /\ g2[Rest(c, s)] \in Nat
  BY <1>3 DEF Sums
<1> QED BY <1>3, <1>4, <1>5

\* One that is one at a single element.
LEMMA SumOfOne ==
  ASSUME NEW S, IsFiniteSet(S), NEW c, Chooses(c, S),
         NEW a, NEW f, \A x \in S : f[x] = IF x = a THEN 1 ELSE 0, NEW g, Sums(g, f, c, S)
  PROVE  \A s \in SUBSET S : g[s] = IF a \in s THEN 1 ELSE 0
<1> DEFINE B == {s \in SUBSET S : g[s] # IF a \in s THEN 1 ELSE 0}
<1> SUFFICES ASSUME B # {} PROVE FALSE
  OBVIOUS
<1>1. PICK s \in B : \A x \in s : s \ {x} \notin B
  BY SmallestSubset
<1>2. s # {}
  <2>1. g[{}] = 0 /\ a \notin {}
    BY DEF Sums
  <2>2. {} \notin B
    BY <2>1
  <2> QED BY <2>2
<1>3. c[s] \in s /\ c[s] \in S /\ Rest(c, s) \in SUBSET S
      /\ g[Rest(c, s)] = IF a \in Rest(c, s) THEN 1 ELSE 0
  BY <1>1, <1>2 DEF Chooses, Rest
<1>4. g[s] = f[c[s]] + g[Rest(c, s)]
  BY <1>2 DEF Sums
<1>5. a \in Rest(c, s) <=> a \in s /\ a # c[s]
  BY DEF Rest
<1> QED BY <1>3, <1>4, <1>5
-----------------------------------------------------------------------------
(* The sums of the model: over a set, over a row, over the messages *)

Total(f, S)    == MapThenSumSet(LAMBDA x : f[x], S)
Row(m, o, S)   == MapThenSumSet(LAMBDA x : m[<<o, x>>], S)
Attempts(h, o) == FoldLeft(LAMBDA sum, ev : sum + ev[o].attempts, 0, h)

SomeOf(S)     == [s \in SUBSET S |-> CHOOSE x \in s : TRUE]
GreatestOf(S) == [s \in SUBSET S |-> Max(s)]

\* Both orders take an element of every set.
LEMMA SomeOfChooses == \A S : Chooses(SomeOf(S), S)
BY DEF Chooses, SomeOf

LEMMA GreatestOfChooses ==
  ASSUME NEW n \in Nat
  PROVE  Chooses(GreatestOf(1..n), 1..n) /\ \A m \in 1..n : Max(1..m) = m
<1>1. ASSUME NEW s \in SUBSET (1..n), s # {} PROVE Max(s) \in s
  <2> DEFINE B == {b \in 1..n : \A k \in s : k <= b}
  <2>1. B \in SUBSET Nat /\ n \in B
    <3>1. PICK k \in s : k \in 1..n
      BY <1>1
    <3>2. n \in 1..n /\ \A x \in s : x <= n
      BY <3>1
    <3> QED BY <3>2
  <2>2. PICK b \in B : \A d \in B : b <= d
    BY <2>1, LeastNumber
  <2>3. ASSUME b \notin s PROVE FALSE
    <3>1. \A k \in s : k < b /\ k \in 1..n
      BY <2>3
    <3>2. PICK k \in s : k \in 1..n /\ k < b
      BY <1>1, <3>1
    <3>5. b \in 1..n /\ b - 1 \in 1..n
      BY <2>2, <3>2
    <3>6. \A x \in s : x <= b - 1
      BY <3>1, <3>5
    <3>3. b - 1 \in B
      BY <3>5, <3>6
    <3>4. b <= b - 1 /\ b \in Nat
      BY <2>2, <3>3
    <3> QED BY <3>4
  <2>4. \A k \in s : b >= k
    OBVIOUS
  <2> QED BY <2>3, <2>4 DEF Max
<1>2. ASSUME NEW m \in 1..n PROVE Max(1..m) = m
  <2>1. m \in 1..m /\ \A k \in 1..m : m >= k
    OBVIOUS
  <2>2. \A x \in 1..m : (\A k \in 1..m : x >= k) => x = m
    BY <2>1
  <2> QED BY <2>1, <2>2 DEF Max
<1> QED BY <1>1, <1>2 DEF Chooses, GreatestOf

\* Each is the value of a function that adds up in its own order.
LEMMA TotalIs ==
  ASSUME NEW S, IsFiniteSet(S), NEW f, \A x \in S : f[x] \in Nat
  PROVE  \E g : Sums(g, f, SomeOf(S), S) /\ g[S] = Total(f, S)
<1> DEFINE c    == SomeOf(S)
           D(g) == [s \in SUBSET S |-> IF s = {} THEN 0
                      ELSE f[CHOOSE x \in s : TRUE] + g[s \ {CHOOSE x \in s : TRUE}]]
           g    == CHOOSE g : g = D(g)
<1>1. \A h : D(h) = SumFrom(h, f, c, S)
  <2> SUFFICES ASSUME NEW h, NEW s \in SUBSET S
               PROVE  D(h)[s] = SumFrom(h, f, c, S)[s]
    BY DEF SumFrom
  <2>1. c[s] = CHOOSE x \in s : TRUE
    BY DEF SomeOf
  <2> HIDE DEF c
  <2> QED BY <2>1 DEF SumFrom, Rest
<1>2. Chooses(c, S)
  BY SomeOfChooses
<1>3. Total(f, S) = g[S]
  BY DEF Total, MapThenSumSet, MapThenFoldSet
<1> HIDE DEF D, c
<1>4. \E h : h = D(h)
  BY <1>1, <1>2, SumsExist
<1>5. g = D(g)
  BY <1>4
<1> HIDE DEF g
<1>6. g = SumFrom(g, f, c, S)
  BY <1>1, <1>5
<1>7. g[{}] = 0 /\ \A s \in SUBSET S : s # {} => g[s] = f[c[s]] + g[Rest(c, s)]
  BY <1>6 DEF SumFrom
<1>8. Sums(g, f, c, S)
  BY <1>2, <1>7, SumIsNat
<1> QED BY <1>3, <1>8 DEF c

\* A row of a table is a function of the column.
LEMMA RowIs ==
  ASSUME NEW S, IsFiniteSet(S), NEW m, NEW o, \A x \in S : m[<<o, x>>] \in Nat
  PROVE  Row(m, o, S) = Total([x \in S |-> m[<<o, x>>]], S)
<1> DEFINE f    == [x \in S |-> m[<<o, x>>]]
           D(g) == [s \in SUBSET S |-> IF s = {} THEN 0
                      ELSE f[CHOOSE x \in s : TRUE] + g[s \ {CHOOSE x \in s : TRUE}]]
           E(g) == [s \in SUBSET S |-> IF s = {} THEN 0
                      ELSE m[<<o, CHOOSE x \in s : TRUE>>] + g[s \ {CHOOSE x \in s : TRUE}]]
<1>1. \A g : D(g) = E(g)
  <2>1. \A s \in SUBSET S : s # {} => (CHOOSE x \in s : TRUE) \in S
    OBVIOUS
  <2>2. \A s \in SUBSET S : s # {} => f[CHOOSE x \in s : TRUE] = m[<<o, CHOOSE x \in s : TRUE>>]
    BY <2>1
  <2> QED BY <2>2
<1>2. Total(f, S) = (CHOOSE g : g = D(g))[S]
  BY DEF Total, MapThenSumSet, MapThenFoldSet
<1>3. Row(m, o, S) = (CHOOSE g : g = E(g))[S]
  BY DEF Row, MapThenSumSet, MapThenFoldSet
<1> HIDE DEF D, E
<1>4. (CHOOSE g : g = D(g)) = (CHOOSE g : g = E(g))
  BY <1>1
<1> QED BY <1>2, <1>3, <1>4

\* FoldLeft goes from the last message to the first.
LEMMA AttemptsIs ==
  ASSUME NEW h, NEW n \in Nat, DOMAIN h = 1..n, NEW o, \A i \in 1..n : h[i][o].attempts \in Nat
  PROVE  \E g : /\ Sums(g, [i \in 1..n |-> h[i][o].attempts], GreatestOf(1..n), 1..n)
                /\ g[1..n] = Attempts(h, o)
<1> DEFINE S    == 1..n
           f    == [i \in S |-> h[i][o].attempts]
           c    == GreatestOf(S)
           D(g) == [s \in SUBSET S |-> IF s = {} THEN 0
                      ELSE g[s \ {Max(s)}] + h[Max(s)][o].attempts]
           g    == CHOOSE g : g = D(g)
<1>1. Chooses(c, S)
  BY GreatestOfChooses
<1>2. Attempts(h, o) = g[S]
  <2>1. Attempts(h, o) = (CHOOSE k : k = [s \in SUBSET DOMAIN h |-> IF s = {} THEN 0
                            ELSE k[s \ {Max(s)}] + h[Max(s)][o].attempts])[DOMAIN h]
    BY DEF Attempts, FoldLeft, MapThenFoldSet
  <2> QED BY <2>1
<1>3. \A s \in SUBSET S : s # {} => /\ c[s] = Max(s) /\ f[c[s]] = h[Max(s)][o].attempts
                                    /\ f[c[s]] \in Nat
  <2>1. \A s \in SUBSET S : s # {} => c[s] = Max(s) /\ Max(s) \in S
    BY <1>1 DEF Chooses, GreatestOf
  <2> QED BY <2>1
<1>4. IsFiniteSet(S) /\ \A x \in S : f[x] \in Nat
  BY FS_Interval
<1>5. \A k : D(k) = [s \in SUBSET S |-> IF s = {} THEN 0 ELSE k[Rest(c, s)] + f[c[s]]]
  BY <1>3 DEF Rest
<1> HIDE DEF D, c, f, S
<1>6. \E k : k = D(k)
  <2>1. PICK k : k = SumFrom(k, f, c, S)
    BY <1>1, <1>4, SumsExist
  <2>2. k[{}] = 0 /\ \A s \in SUBSET S : s # {} => k[s] = f[c[s]] + k[Rest(c, s)]
    BY <2>1 DEF SumFrom
  <2>3. Sums(k, f, c, S)
    BY <1>1, <1>4, <2>2, SumIsNat
  <2>4. \A s \in SUBSET S : s # {} => f[c[s]] \in Nat /\ k[Rest(c, s)] \in Nat
    BY <1>3, <2>3 DEF Sums, Rest
  <2>5. \A s \in SUBSET S : s # {} => f[c[s]] + k[Rest(c, s)] = k[Rest(c, s)] + f[c[s]]
    BY <2>4
  <2>6. k = [s \in SUBSET S |-> IF s = {} THEN 0 ELSE k[Rest(c, s)] + f[c[s]]]
    BY <2>1, <2>5 DEF SumFrom
  <2> QED BY <1>5, <2>6
<1>7. g = D(g)
  BY <1>6
<1> HIDE DEF g
<1>8. g[{}] = 0 /\ \A s \in SUBSET S : s # {} => g[s] = g[Rest(c, s)] + f[c[s]]
  BY <1>5, <1>7
<1>9. Sums(g, f, c, S)
  BY <1>1, <1>4, <1>8, SumIsNat
<1> QED BY <1>2, <1>9 DEF c, f, S

\* A set's total of two functions is the sum of their totals.
LEMMA TotalAdds ==
  ASSUME NEW S, IsFiniteSet(S), NEW f1, NEW f2, NEW f,
         \A x \in S : f1[x] \in Nat /\ f2[x] \in Nat /\ f[x] = f1[x] + f2[x]
  PROVE  /\ Total(f1, S) \in Nat /\ Total(f2, S) \in Nat
         /\ Total(f, S) = Total(f1, S) + Total(f2, S)
<1>1. \A x \in S : f[x] \in Nat
  OBVIOUS
<1>2. PICK g1 : Sums(g1, f1, SomeOf(S), S) /\ g1[S] = Total(f1, S)
  BY TotalIs
<1>3. PICK g2 : Sums(g2, f2, SomeOf(S), S) /\ g2[S] = Total(f2, S)
  BY TotalIs
<1>4. PICK g : Sums(g, f, SomeOf(S), S) /\ g[S] = Total(f, S)
  BY <1>1, TotalIs
<1>5. g[S] = g1[S] + g2[S]
  <2>1. Chooses(SomeOf(S), S)
    BY SomeOfChooses
  <2>2. \A s \in SUBSET S : g[s] = g1[s] + g2[s]
    BY <1>2, <1>3, <1>4, <2>1, SumsAdd
  <2> QED BY <2>2
<1>6. g1[S] \in Nat /\ g2[S] \in Nat
  BY <1>2, <1>3 DEF Sums
<1> QED BY <1>2, <1>3, <1>4, <1>5, <1>6

\* A total of one one, and of nothing.
LEMMA TotalOfOne ==
  ASSUME NEW S, IsFiniteSet(S), NEW a \in S
  PROVE  Total([x \in S |-> IF x = a THEN 1 ELSE 0], S) = 1
<1> DEFINE f == [x \in S |-> IF x = a THEN 1 ELSE 0]
<1>1. \A x \in S : f[x] \in Nat /\ f[x] = IF x = a THEN 1 ELSE 0
  OBVIOUS
<1> HIDE DEF f
<1>2. PICK g : Sums(g, f, SomeOf(S), S) /\ g[S] = Total(f, S)
  BY <1>1, TotalIs
<1>3. g[S] = IF a \in S THEN 1 ELSE 0
  BY <1>1, <1>2, SumOfOne, SomeOfChooses
<1> QED BY <1>2, <1>3 DEF f

LEMMA TotalOfNone ==
  ASSUME NEW S, IsFiniteSet(S), NEW f, \A x \in S : f[x] = 0
  PROVE  Total(f, S) = 0
<1>1. Total(f, S) \in Nat /\ Total(f, S) = Total(f, S) + Total(f, S)
  <2>1. \A x \in S : f[x] \in Nat /\ f[x] \in Nat /\ f[x] = f[x] + f[x]
    OBVIOUS
  <2> QED BY <2>1, TotalAdds
<1> QED BY <1>1

\* One of them went up by one.
LEMMA OneMore ==
  ASSUME NEW S, IsFiniteSet(S), NEW o \in S, NEW a, NEW b,
         \A x \in S : a[x] \in Nat /\ b[x] = a[x] + IF x = o THEN 1 ELSE 0
  PROVE  Total(a, S) \in Nat /\ Total(b, S) = Total(a, S) + 1
<1> DEFINE m == [x \in S |-> IF x = o THEN 1 ELSE 0]
<1>1. \A x \in S : a[x] \in Nat /\ m[x] \in Nat /\ b[x] = a[x] + m[x]
  OBVIOUS
<1>2. Total(m, S) = 1
  BY TotalOfOne
<1> HIDE DEF m
<1>3. Total(a, S) \in Nat /\ Total(b, S) = Total(a, S) + Total(m, S)
  BY <1>1, TotalAdds
<1> QED BY <1>2, <1>3

\* One message more.
LEMMA AttemptsAppend ==
  ASSUME NEW T, NEW h \in Seq(T), NEW e \in T, NEW o, \A t \in T : t[o].attempts \in Nat
  PROVE  /\ Attempts(h, o) \in Nat
         /\ Attempts(Append(h, e), o) = Attempts(h, o) + e[o].attempts
<1> DEFINE n  == Len(h)
           k  == Append(h, e)
           S  == 1..n
           Z  == 1..(n + 1)
           f  == [i \in S |-> h[i][o].attempts]
           f1 == [i \in Z |-> k[i][o].attempts]
           c  == GreatestOf(S)
           c1 == GreatestOf(Z)
<1>1. /\ n \in Nat /\ DOMAIN h = S /\ DOMAIN k = Z /\ k[n + 1] = e
      /\ \A i \in S : k[i] = h[i] /\ h[i] \in T
  OBVIOUS
<1>2. PICK g : Sums(g, f, c, S) /\ g[S] = Attempts(h, o)
  BY <1>1, AttemptsIs
<1>3. \A i \in Z : k[i][o].attempts \in Nat
  BY <1>1
<1>4. PICK g1 : Sums(g1, f1, c1, Z) /\ g1[Z] = Attempts(k, o)
  <2>1. n + 1 \in Nat
    BY <1>1
  <2> HIDE DEF k
  <2> QED BY <1>1, <1>3, <2>1, AttemptsIs
<1>5. S \subseteq Z /\ Z # {} /\ Z \ {n + 1} = S /\ n + 1 \in Z
  BY <1>1
<1>6. Chooses(c, S) /\ Chooses(c1, Z) /\ c1[Z] = n + 1
  <2>1. n + 1 \in Nat
    BY <1>1
  <2>2. Chooses(c, S) /\ Chooses(c1, Z) /\ Max(Z) = n + 1
    BY <1>1, <1>5, <2>1, GreatestOfChooses
  <2> QED BY <2>2 DEF GreatestOf
<1>7. \A s \in SUBSET S : c1[s] = c[s]
  BY <1>5 DEF GreatestOf
<1>8. \A i \in S : f1[i] = f[i]
  BY <1>1, <1>5
<1>9. f1[n + 1] = e[o].attempts
  BY <1>1, <1>5
<1> HIDE DEF f, f1, c, c1, S, Z, k, n
<1>10. Sums(g1, f, c, S)
  <2>1. g1[{}] = 0 /\ \A s \in SUBSET S : g1[s] \in Nat
    BY <1>4, <1>5 DEF Sums
  <2>2. ASSUME NEW s \in SUBSET S, s # {} PROVE g1[s] = f[c[s]] + g1[Rest(c, s)]
    <3>1. g1[s] = f1[c1[s]] + g1[Rest(c1, s)]
      BY <1>4, <1>5, <2>2 DEF Sums
    <3>2. c1[s] = c[s] /\ c[s] \in S
      BY <1>6, <1>7, <2>2 DEF Chooses
    <3> QED BY <1>8, <3>1, <3>2 DEF Rest
  <2> QED BY <2>1, <2>2 DEF Sums
<1>11. g1[S] = g[S]
  <2>1. IsFiniteSet(S)
    BY <1>1, FS_Interval DEF S
  <2>3. Sums(g1, f, c, S) /\ Sums(g, f, c, S) /\ Chooses(c, S)
    BY <1>2, <1>6, <1>10
  <2>4. \A s \in SUBSET S : g1[s] = g[s]
    BY <2>1, <2>3, SumsAgree
  <2> QED BY <2>4
<1>12. g1[Z] = f1[n + 1] + g1[S]
  BY <1>4, <1>5, <1>6 DEF Sums, Rest
<1>13. g[S] \in Nat /\ e[o].attempts \in Nat
  BY <1>2 DEF Sums
<1> QED BY <1>2, <1>4, <1>9, <1>11, <1>12, <1>13 DEF k

\* No message, no attempt.
LEMMA AttemptsOfNone == \A o : Attempts(<< >>, o) = 0
<1> SUFFICES ASSUME NEW o PROVE Attempts(<< >>, o) = 0
  OBVIOUS
<1>1. DOMAIN << >> = 1..0 /\ 1..0 = {} /\ 0 \in Nat
  OBVIOUS
<1>2. PICK g : /\ Sums(g, [i \in 1..0 |-> << >>[i][o].attempts], GreatestOf(1..0), 1..0)
               /\ g[1..0] = Attempts(<< >>, o)
  BY <1>1, AttemptsIs
<1> QED BY <1>1, <1>2 DEF Sums
-----------------------------------------------------------------------------
(* The ring *)

\* A number is quotient and remainder, in one way only.
LEMMA Division ==
  ASSUME NEW c \in Int, c > 0, NEW n \in Int
  PROVE  \E q, r \in Int : n = c * q + r /\ r < c /\ r >= 0 /\ r = n % c
OBVIOUS

LEMMA Quotients ==
  ASSUME NEW c \in Nat \ {0}, NEW n \in Nat
  PROVE  \E q \in Nat, r \in 0..(c - 1) : n = c * q + r /\ r = n % c
<1>1. PICK q \in Int, r \in Int : n = c * q + r /\ r < c /\ r >= 0 /\ r = n % c
  BY Division
<1>2. c * q \in Int /\ r \in 0..(c - 1)
  BY <1>1
<1>3. ~(q < 0)
  <2> SUFFICES ASSUME q < 0 PROVE FALSE
    OBVIOUS
  <2>1. c * q <= c * (0 - 1)
    BY <1>1
  <2>2. c * (0 - 1) = 0 - c
    OBVIOUS
  <2> QED BY <1>1, <1>2, <2>1, <2>2
<1>4. q \in Nat
  BY <1>1, <1>3
<1> QED BY <1>1, <1>2, <1>4

LEMMA RemainderIs ==
  ASSUME NEW c \in Nat \ {0}, NEW q \in Nat, NEW r \in 0..(c - 1)
  PROVE  (c * q + r) % c = r
<1> DEFINE n == c * q + r
           s == n % c
<1>1. n \in Nat
  OBVIOUS
<1>2. PICK p \in Nat, t \in 0..(c - 1) : n = c * p + t /\ t = s
  BY <1>1, Quotients
<1>3. ASSUME NEW a \in Nat, NEW b \in Nat, a < b PROVE c * a + c <= c * b
  <2>1. PICK d \in Nat : b = a + 1 + d
    <3>1. b - a - 1 \in Nat /\ b = a + 1 + (b - a - 1)
      BY <1>3
    <3> QED BY <3>1
  <2>2. c * b = c * a + c + c * d /\ c * d \in Nat
    BY <2>1
  <2> QED BY <2>2
<1> HIDE DEF n, s
<1>4. c * p \in Nat /\ c * q \in Nat
  BY <1>2
<1>5. ~(p < q)
  <2> SUFFICES ASSUME p < q PROVE FALSE
    OBVIOUS
  <2>1. c * p + c <= c * q
    BY <1>2, <1>3
  <2> QED BY <1>2, <1>4, <2>1 DEF n
<1>6. ~(q < p)
  <2> SUFFICES ASSUME q < p PROVE FALSE
    OBVIOUS
  <2>1. c * q + c <= c * p
    BY <1>2, <1>3
  <2> QED BY <1>2, <1>4, <2>1 DEF n
<1>7. p = q
  BY <1>2, <1>5, <1>6
<1>8. s = r
  BY <1>2, <1>4, <1>7 DEF n
<1> QED BY <1>8 DEF s, n

\* One slot further, and some slots back.
LEMMA NextSlot ==
  ASSUME NEW c \in Nat \ {0}, NEW n \in Nat
  PROVE  ((n % c) + 1) % c = (n + 1) % c
<1> DEFINE r == n % c
<1>1. PICK q \in Nat, s \in 0..(c - 1) : n = c * q + s /\ s = r
  BY Quotients
<1> HIDE DEF r
<1>2. c * q \in Nat /\ c * (q + 1) = c * q + c
  BY <1>1
<1>3. CASE r + 1 = c
  <2>1. (c * (q + 1) + 0) % c = 0
    BY <1>1, RemainderIs
  <2>2. (c * 1 + 0) % c = 0
    BY RemainderIs
  <2>3. n + 1 = c * (q + 1) + 0 /\ r + 1 = c * 1 + 0
    BY <1>1, <1>2, <1>3
  <2> QED BY <2>1, <2>2, <2>3 DEF r
<1>4. CASE r + 1 # c
  <2>1. r + 1 \in 0..(c - 1)
    BY <1>1, <1>4
  <2>2. (c * q + (r + 1)) % c = r + 1 /\ (c * 0 + (r + 1)) % c = r + 1
    BY <1>1, <2>1, RemainderIs
  <2>3. n + 1 = c * q + (r + 1) /\ c * 0 + (r + 1) = r + 1
    BY <1>1, <1>2
  <2>4. (n + 1) % c = r + 1 /\ (r + 1) % c = r + 1
    BY <2>2, <2>3
  <2> QED BY <2>4 DEF r
<1> QED BY <1>3, <1>4

LEMMA SlotBack ==
  ASSUME NEW c \in Nat \ {0}, NEW n \in Nat, NEW i \in 1..c, i <= n
  PROVE  ((n % c) - i + c) % c = (n - i) % c
<1> DEFINE r == n % c
<1>1. PICK q \in Nat, s \in 0..(c - 1) : n = c * q + s /\ s = r
  BY Quotients
<1> HIDE DEF r
<1>2. c * q \in Nat
  BY <1>1
<1>3. CASE i <= r
  <2>1. r - i \in 0..(c - 1)
    BY <1>1, <1>3
  <2>2. (c * q + (r - i)) % c = r - i /\ (c * 1 + (r - i)) % c = r - i
    BY <1>1, <2>1, RemainderIs
  <2>3. n - i = c * q + (r - i) /\ r - i + c = c * 1 + (r - i)
    BY <1>1, <1>2
  <2>4. (n - i) % c = r - i /\ (r - i + c) % c = r - i
    BY <2>2, <2>3
  <2> QED BY <2>4 DEF r
<1>4. CASE r < i
  <2>1. r - i + c \in 0..(c - 1)
    BY <1>1, <1>4
  <2>2. q - 1 \in Nat
    <3> SUFFICES ASSUME q = 0 PROVE FALSE
      BY <1>1
    <3> QED BY <1>1, <1>4
  <2>3. c * (q - 1) = c * q - c
    BY <1>1, <2>2
  <2>4. (c * (q - 1) + (r - i + c)) % c = r - i + c /\ (c * 0 + (r - i + c)) % c = r - i + c
    BY <2>1, <2>2, RemainderIs
  <2>5. n - i = c * (q - 1) + (r - i + c) /\ r - i + c = c * 0 + (r - i + c)
    BY <1>1, <1>2, <2>3
  <2>6. (n - i) % c = r - i + c /\ (r - i + c) % c = r - i + c
    BY <2>4, <2>5
  <2> QED BY <2>6 DEF r
<1> QED BY <1>1, <1>3, <1>4

\* Messages less than a round apart have slots of their own.
LEMMA SlotsDiffer ==
  ASSUME NEW c \in Nat \ {0}, NEW j \in Nat, NEW k \in Nat, j < k, k < j + c
  PROVE  j % c # k % c
<1> SUFFICES ASSUME j % c = k % c PROVE FALSE
  OBVIOUS
<1> DEFINE r == j % c
<1>1. PICK q \in Nat, s \in 0..(c - 1) : j = c * q + s /\ s = r
  BY Quotients
<1>2. PICK p \in Nat, z \in 0..(c - 1) : k = c * p + z /\ z = r
  BY Quotients
<1> HIDE DEF r
<1>3. c * q \in Nat /\ c * p \in Nat
  BY <1>1, <1>2
<1>4. c * p - c * q \in 1..(c - 1)
  BY <1>1, <1>2, <1>3
<1>5. c * p - c * q = c * (p - q)
  BY <1>1, <1>2
<1>6. p - q \in Int /\ (p - q <= 0 \/ p - q >= 1)
  BY <1>1, <1>2
<1>7. CASE p - q <= 0
  <2>1. c * (p - q) <= 0
    BY <1>6, <1>7
  <2> QED BY <1>4, <1>5, <2>1
<1>8. CASE p - q >= 1
  <2>1. c * (p - q) >= c
    BY <1>6, <1>8
  <2> QED BY <1>4, <1>5, <2>1
<1> QED BY <1>6, <1>7, <1>8
\* What the numbers of the log have as types.
TypesOfConstants ==
  /\ Capacity \in Nat \ {0} /\ Records \in Nat
  /\ \A r \in Results : /\ r.result \in resultNames /\ r.attempts \in Nat
                        /\ r.deadLettered \in BOOLEAN
                        /\ r.deadLettered => r.result = "failed"
                        /\ r.attempts > 0 <=> r.result \in {"sent", "failed"}

\* They follow from the assumption on the constants.
LEMMA ConstantsHaveTypes == TypesOfConstants
BY EventsAssumption DEF EventsAssumption, TypesOfConstants

\* The slots hold the last messages of the log.
RingInv == \A k \in 1..Len(log) : Len(log) - Capacity < k => buf[(k - 1) % Capacity] = log[k]

\* record overwrites the slot of the oldest message only.
LEMMA RingStep ==
  ASSUME EventsOK, RingInv, NEW ev \in [Outputs -> Results], record(ev)
  PROVE  /\ RingInv'
         /\ log' \in Seq([Outputs -> Results]) /\ Len(log') = Len(log) + 1 /\ Len(log') <= Records
         /\ buf' \in [0..Capacity-1 -> [Outputs -> Results] \cup {NoEvent}]
         /\ next' = Len(log') % Capacity /\ full' \in BOOLEAN /\ (full' <=> Len(log') >= Capacity)
<1> DEFINE n == Len(log)
<1>1. /\ log \in Seq([Outputs -> Results]) /\ n \in Nat /\ n <= Records
      /\ buf \in [0..Capacity-1 -> [Outputs -> Results] \cup {NoEvent}]
      /\ next = n % Capacity /\ full \in BOOLEAN /\ (full <=> n >= Capacity)
  BY DEF EventsOK
<1>2. /\ Capacity \in Nat \ {0} /\ Records \in Nat
  BY ConstantsHaveTypes DEF TypesOfConstants
<1>3. /\ n < Records /\ log' = Append(log, ev) /\ buf' = [buf EXCEPT ![next] = ev]
      /\ next' = (next + 1) % Capacity /\ full' = (full \/ (next + 1) % Capacity = 0)
      /\ full' \in BOOLEAN /\ (full' <=> full \/ (next + 1) % Capacity = 0)
  BY DEF record, FullAfter
<1>4. /\ log' \in Seq([Outputs -> Results]) /\ Len(log') = n + 1
      /\ log'[n + 1] = ev /\ \A k \in 1..n : log'[k] = log[k]
  BY <1>1, <1>3
<1>5. Len(log') <= Records
  BY <1>1, <1>2, <1>3, <1>4
<1>6. next \in 0..Capacity-1
  BY <1>1, <1>2, Quotients
<1>7. buf' \in [0..Capacity-1 -> [Outputs -> Results] \cup {NoEvent}]
  BY <1>1, <1>3, <1>6
<1>8. next' = (n + 1) % Capacity
  BY <1>1, <1>2, <1>3, NextSlot
<1>9. full' \in BOOLEAN /\ (full' <=> n + 1 >= Capacity)
  <2>1. CASE n >= Capacity
    <3>1. full = TRUE /\ n + 1 >= Capacity
      BY <1>1, <1>2, <2>1
    <3> QED BY <1>3, <3>1
  <2>2. CASE n + 1 = Capacity
    <3>1. (Capacity * 1 + 0) % Capacity = 0
      BY <1>2, RemainderIs
    <3>2. Capacity * 1 + 0 = n + 1
      BY <1>2, <2>2
    <3>3. (n + 1) % Capacity = 0
      BY <3>1, <3>2
    <3> QED BY <1>1, <1>2, <1>3, <1>8, <2>2, <3>3
  <2>3. CASE n + 1 < Capacity
    <3>0. n + 1 \in 0..(Capacity - 1) /\ n + 1 # 0
      BY <1>1, <1>2, <2>3
    <3>1. (Capacity * 0 + (n + 1)) % Capacity = n + 1
      BY <1>2, <3>0, RemainderIs
    <3>2. Capacity * 0 + (n + 1) = n + 1
      BY <1>1, <1>2
    <3>3. (n + 1) % Capacity = n + 1
      BY <3>1, <3>2
    <3>4. ~(n >= Capacity) /\ ~(n + 1 >= Capacity)
      BY <1>1, <1>2, <2>3
    <3>5. full = FALSE
      BY <1>1, <3>4
    <3>6. (next + 1) % Capacity # 0
      BY <1>3, <1>8, <3>0, <3>3
    <3>7. full' = FALSE
      BY <1>3, <3>5, <3>6
    <3> QED BY <3>4, <3>7
  <2> QED BY <1>1, <1>2, <2>1, <2>2, <2>3
<1>10. ASSUME NEW k \in 1..(n + 1), n + 1 - Capacity < k
       PROVE  buf'[(k - 1) % Capacity] = log'[k]
  <2>1. CASE k = n + 1
    <3>1. (k - 1) % Capacity = next
      BY <1>1, <2>1
    <3> QED BY <1>1, <1>3, <1>4, <1>6, <2>1, <3>1
  <2>2. CASE k # n + 1
    <3>1. k \in 1..n /\ k - 1 \in Nat /\ n - Capacity < k
      BY <1>1, <1>2, <1>10, <2>2
    <3>2. buf[(k - 1) % Capacity] = log[k]
      BY <3>1 DEF RingInv
    <3>3. k - 1 < n /\ n < k - 1 + Capacity
      BY <1>1, <1>2, <1>10, <3>1
    <3>4. (k - 1) % Capacity # n % Capacity
      BY <1>1, <1>2, <3>1, <3>3, SlotsDiffer
    <3>5. (k - 1) % Capacity \in 0..Capacity-1
      BY <1>2, <3>1, Quotients
    <3>6. buf'[(k - 1) % Capacity] = buf[(k - 1) % Capacity]
      BY <1>1, <1>3, <3>4, <3>5
    <3> QED BY <1>4, <3>1, <3>2, <3>6
  <2> QED BY <2>1, <2>2
<1>11. RingInv'
  <2> SUFFICES ASSUME NEW k \in 1..Len(log'), Len(log') - Capacity < k
               PROVE  buf'[(k - 1) % Capacity] = log'[k]
    BY DEF RingInv
  <2>1. k \in 1..(n + 1) /\ n + 1 - Capacity < k
    BY <1>2, <1>4
  <2> QED BY <1>10, <2>1
<1> QED BY <1>4, <1>5, <1>7, <1>8, <1>9, <1>11

\* Going backwards from next gives the messages kept, the newest first.
LEMMA RingIsNewest == EventsOK /\ RingInv => ListIsNewest
<1> SUFFICES ASSUME EventsOK, RingInv, NEW q \in Queries
             PROVE  list(q) = First(SelectSeq(Reverse(Kept), LAMBDA ev : Wanted(q.result, ev)), q.limit)
  BY DEF ListIsNewest
<1> DEFINE n == Len(log)
           m == IF full THEN Capacity ELSE next
           s == [i \in 1..m |-> buf[Slot(i)]]
<1>1. /\ log \in Seq([Outputs -> Results]) /\ n \in Nat
      /\ next = n % Capacity /\ full \in BOOLEAN /\ (full <=> n >= Capacity)
  BY DEF EventsOK
<1>2. Capacity \in Nat \ {0}
  BY ConstantsHaveTypes DEF TypesOfConstants
<1>3. /\ m = Len(Kept) /\ m \in Nat /\ m <= n /\ m <= Capacity
      /\ \A i \in 1..m : Kept[m - i + 1] = log[n - i + 1]
  <2>1. CASE n > Capacity
    <3>0. full = TRUE
      BY <1>1, <1>2, <2>1
    <3>1. Kept = SubSeq(log, n - Capacity + 1, n) /\ m = Capacity
      BY <2>1, <3>0 DEF Kept
    <3>2. /\ Len(SubSeq(log, n - Capacity + 1, n)) = Capacity
          /\ \A j \in 1..Capacity : SubSeq(log, n - Capacity + 1, n)[j] = log[n - Capacity + 1 + j - 1]
      BY <1>1, <1>2, <2>1
    <3>3. ASSUME NEW i \in 1..m PROVE Kept[m - i + 1] = log[n - i + 1]
      <4>1. m - i + 1 \in 1..Capacity /\ n - Capacity + 1 + (m - i + 1) - 1 = n - i + 1
        BY <1>1, <1>2, <3>1
      <4> QED BY <3>1, <3>2, <4>1
    <3>4. Len(Kept) = Capacity
      BY <3>1, <3>2
    <3>5. m = Len(Kept) /\ m \in Nat /\ m <= n /\ m <= Capacity
      BY <1>1, <1>2, <2>1, <3>1, <3>4
    <3> HIDE DEF m
    <3> QED BY <3>3, <3>5
  <2>2. CASE n = Capacity
    <3>0. full = TRUE /\ ~(n > Capacity)
      BY <1>1, <1>2, <2>2
    <3>1. Kept = log /\ m = Capacity
      BY <3>0 DEF Kept
    <3> QED BY <1>1, <1>2, <2>2, <3>1
  <2>3. CASE n < Capacity
    <3>1. (Capacity * 0 + n) % Capacity = n
      BY <1>1, <1>2, <2>3, RemainderIs
    <3>2. Capacity * 0 + n = n
      BY <1>1, <1>2
    <3>0. full = FALSE /\ ~(n > Capacity)
      BY <1>1, <1>2, <2>3
    <3>3. Kept = log /\ m = next
      BY <3>0 DEF Kept
    <3>4. m = n
      BY <1>1, <3>1, <3>2, <3>3
    <3> QED BY <1>1, <1>2, <2>3, <3>3, <3>4
  <2>4. n > Capacity \/ n = Capacity \/ n < Capacity
    BY <1>1, <1>2
  <2> QED BY <2>1, <2>2, <2>3, <2>4
<1> HIDE DEF m
<1>4. ASSUME NEW i \in 1..m PROVE buf[Slot(i)] = Kept[m - i + 1]
  <2>1. i \in 1..Capacity /\ i <= n /\ n - i + 1 \in 1..n /\ n - Capacity < n - i + 1
    BY <1>1, <1>2, <1>3
  <2>2. Slot(i) = (n - i) % Capacity
    BY <1>1, <1>2, <2>1, SlotBack DEF Slot
  <2>3. n - i = (n - i + 1) - 1
    BY <1>1, <2>1
  <2>4. buf[(n - i + 1 - 1) % Capacity] = log[n - i + 1]
    BY <2>1 DEF RingInv
  <2> QED BY <1>3, <2>2, <2>3, <2>4
<1>5. s = Reverse(Kept)
  BY <1>3, <1>4 DEF Reverse
<1>6. list(q) = First(SelectSeq(s, LAMBDA ev : Wanted(q.result, ev)), q.limit)
  BY DEF list, m
<1> HIDE DEF s
<1> QED BY <1>5, <1>6
-----------------------------------------------------------------------------
(* The counters *)

\* What the counters add up to.
SumsInv ==
  /\ messages[TRUE] + messages[FALSE] = Len(log)
  /\ \A o \in Outputs :
       /\ Row(counts, o, resultNames) = Len(log)
       /\ counts[<<o, "sent">>] + counts[<<o, "failed">>] + retries[o] = Attempts(log, o)
       /\ parked[o] <= counts[<<o, "failed">>]
       /\ messages[FALSE] <= counts[<<o, "filtered">>]

\* The named sums are the sums of the property.
LEMMA SumsSuffice == SumsInv => CountersAddUp
BY DEF SumsInv, CountersAddUp, Row, Attempts

\* There are five results.
LEMMA ResultNamesAreFinite == IsFiniteSet(resultNames)
<1>1. IsFiniteSet({"sent"}) /\ IsFiniteSet({"failed"}) /\ IsFiniteSet({"filtered"})
      /\ IsFiniteSet({"dry-run"}) /\ IsFiniteSet({"throttled"})
  BY FS_Singleton
<1>2. resultNames = ((({"sent"} \cup {"failed"}) \cup {"filtered"}) \cup {"dry-run"}) \cup {"throttled"}
  BY DEF resultNames
<1> QED BY <1>1, <1>2, FS_Union

\* A row of which one counter went up.
LEMMA RowStep ==
  ASSUME NEW S, IsFiniteSet(S), NEW a \in S, NEW m, NEW k, NEW o,
         \A x \in S : /\ m[<<o, x>>] \in Nat
                      /\ k[<<o, x>>] = m[<<o, x>>] + IF x = a THEN 1 ELSE 0
  PROVE  Row(m, o, S) \in Nat /\ Row(k, o, S) = Row(m, o, S) + 1
<1> DEFINE f  == [x \in S |-> m[<<o, x>>]]
           f1 == [x \in S |-> k[<<o, x>>]]
<1>1. \A x \in S : f[x] \in Nat /\ f1[x] = f[x] + IF x = a THEN 1 ELSE 0
  OBVIOUS
<1>2. \A x \in S : m[<<o, x>>] \in Nat /\ k[<<o, x>>] \in Nat
  OBVIOUS
<1>3. Row(m, o, S) = Total(f, S) /\ Row(k, o, S) = Total(f1, S)
  BY <1>2, RowIs
<1> HIDE DEF f, f1
<1>4. Total(f, S) \in Nat /\ Total(f1, S) = Total(f, S) + 1
  BY <1>1, OneMore
<1> QED BY <1>3, <1>4

\* A row of zeros.
LEMMA RowOfNone ==
  ASSUME NEW S, IsFiniteSet(S), NEW m, NEW o, \A x \in S : m[<<o, x>>] = 0
  PROVE  Row(m, o, S) = 0
<1> DEFINE f == [x \in S |-> m[<<o, x>>]]
<1>1. Row(m, o, S) = Total(f, S)
  BY RowIs
<1>2. Total(f, S) = 0
  BY TotalOfNone
<1> QED BY <1>1, <1>2

\* The types of the counters.
CountersOK ==
  /\ counts \in [series -> Nat] /\ messages \in [BOOLEAN -> Nat]
  /\ retries \in [Outputs -> Nat] /\ parked \in [Outputs -> Nat]

\* record raises one counter of every output's row, and the sums follow.
LEMMA CountersStep ==
  ASSUME EventsOK, SumsInv, NEW ev \in [Outputs -> Results], record(ev)
  PROVE  CountersOK' /\ SumsInv'
<1>1. /\ log \in Seq([Outputs -> Results]) /\ Len(log) \in Nat
      /\ counts \in [series -> Nat] /\ messages \in [BOOLEAN -> Nat]
      /\ retries \in [Outputs -> Nat] /\ parked \in [Outputs -> Nat]
  BY DEF EventsOK
<1>2. /\ log' = Append(log, ev)
      /\ counts' = [s \in series |-> counts[s] + IF ev[s[1]].result = s[2] THEN 1 ELSE 0]
      /\ retries' = [o \in Outputs |-> retries[o] + Retries(ev[o])]
      /\ parked' = [o \in Outputs |-> parked[o] + IF ev[o].deadLettered THEN 1 ELSE 0]
      /\ messages' = [messages EXCEPT ![Routed(ev)] = @ + 1]
  BY DEF record
<1>3. \A o \in Outputs : /\ ev[o] \in Results /\ ev[o].result \in resultNames
                         /\ ev[o].attempts \in Nat /\ ev[o].deadLettered \in BOOLEAN
                         /\ ev[o].deadLettered => ev[o].result = "failed"
                         /\ ev[o].attempts > 0 <=> ev[o].result \in {"sent", "failed"}
  BY ConstantsHaveTypes DEF TypesOfConstants
<1>4. \A o \in Outputs : Retries(ev[o]) \in Nat /\
        Retries(ev[o]) + (IF ev[o].result \in {"sent", "failed"} THEN 1 ELSE 0) = ev[o].attempts
  BY <1>3 DEF Retries
<1>5. Len(log') = Len(log) + 1
  BY <1>1, <1>2
<1>6. ASSUME NEW o \in Outputs, NEW r \in resultNames
      PROVE  /\ counts[<<o, r>>] \in Nat /\ counts'[<<o, r>>] \in Nat
             /\ counts'[<<o, r>>] = counts[<<o, r>>] + IF r = ev[o].result THEN 1 ELSE 0
  <2>1. <<o, r>> \in series /\ <<o, r>>[1] = o /\ <<o, r>>[2] = r
    BY DEF series
  <2>2. counts[<<o, r>>] \in Nat
    BY <1>1, <2>1
  <2>3. counts'[<<o, r>>] = counts[<<o, r>>] + IF r = ev[o].result THEN 1 ELSE 0
    BY <1>2, <2>1
  <2> QED BY <2>2, <2>3
<1>7. CountersOK'
  <2>1. counts' \in [series -> Nat]
    <3>1. \A s \in series : counts'[s] \in Nat
      BY <1>1, <1>2
    <3> QED BY <1>2, <3>1
  <2>2. retries' \in [Outputs -> Nat]
    BY <1>1, <1>2, <1>4
  <2>3. parked' \in [Outputs -> Nat]
    BY <1>1, <1>2
  <2>4. messages' \in [BOOLEAN -> Nat]
    <3>1. CASE Routed(ev) = TRUE
      <4>1. PICK u \in Nat : u = messages[TRUE]
        BY <1>1, Zenon
      <4>2. PICK v \in Nat : v = u + 1
        OBVIOUS
      <4>3. messages' = [messages EXCEPT ![TRUE] = v]
        BY <1>2, <3>1, <4>1, <4>2, Zenon
      <4> QED BY <1>1, <4>3, Zenon
    <3>2. CASE Routed(ev) = FALSE
      <4>1. PICK u \in Nat : u = messages[FALSE]
        BY <1>1, Zenon
      <4>2. PICK v \in Nat : v = u + 1
        OBVIOUS
      <4>3. messages' = [messages EXCEPT ![FALSE] = v]
        BY <1>2, <3>2, <4>1, <4>2, Zenon
      <4> QED BY <1>1, <4>3, Zenon
    <3>3. Routed(ev) \in BOOLEAN
      BY DEF Routed
    <3> QED BY <3>1, <3>2, <3>3
  <2> QED BY <2>1, <2>2, <2>3, <2>4 DEF CountersOK
<1> DEFINE t  == messages[TRUE]
           f  == messages[FALSE]
           t1 == messages'[TRUE]
           f1 == messages'[FALSE]
<1>8. /\ t1 + f1 = Len(log') /\ f \in Nat
      /\ Routed(ev) => f1 = f
      /\ ~Routed(ev) => f1 = f + 1
  <2>1. t \in Nat /\ f \in Nat /\ TRUE # FALSE
    BY <1>1
  <2>2. t + f = Len(log)
    BY DEF SumsInv
  <2>3. CASE Routed(ev)
    <3>1. Routed(ev) = TRUE
      BY <2>3 DEF Routed
    <3>2. messages' = [messages EXCEPT ![TRUE] = @ + 1]
      BY <1>2, <3>1
    <3>3. t1 = t + 1 /\ f1 = f
      BY <1>1, <3>2
    <3> HIDE DEF t, f, t1, f1
    <3> QED BY <1>5, <2>1, <2>2, <2>3, <3>3
  <2>4. CASE ~Routed(ev)
    <3>1. Routed(ev) = FALSE
      BY <2>4 DEF Routed
    <3>2. messages' = [messages EXCEPT ![FALSE] = @ + 1]
      BY <1>2, <3>1
    <3>3. f1 = f + 1 /\ t1 = t
      BY <1>1, <3>2
    <3> HIDE DEF t, f, t1, f1
    <3> QED BY <1>5, <2>1, <2>2, <2>4, <3>3
  <2> QED BY <2>1, <2>3, <2>4
<1>9. ASSUME NEW o \in Outputs
      PROVE  /\ Row(counts', o, resultNames) = Len(log')
             /\ counts'[<<o, "sent">>] + counts'[<<o, "failed">>] + retries'[o] = Attempts(log', o)
             /\ parked'[o] <= counts'[<<o, "failed">>]
             /\ messages'[FALSE] <= counts'[<<o, "filtered">>]
  <2>1. "sent" \in resultNames /\ "failed" \in resultNames /\ "filtered" \in resultNames
    BY DEF resultNames
  <2>2. /\ Row(counts, o, resultNames) = Len(log)
        /\ counts[<<o, "sent">>] + counts[<<o, "failed">>] + retries[o] = Attempts(log, o)
        /\ parked[o] <= counts[<<o, "failed">>]
        /\ messages[FALSE] <= counts[<<o, "filtered">>]
    BY DEF SumsInv
  <2>3. Row(counts', o, resultNames) = Row(counts, o, resultNames) + 1
    BY <1>3, <1>6, ResultNamesAreFinite, RowStep
  <2>4. Attempts(log', o) = Attempts(log, o) + ev[o].attempts
    <3>1. \A d \in [Outputs -> Results] : d[o].attempts \in Nat
      BY ConstantsHaveTypes DEF TypesOfConstants
    <3> QED BY <1>1, <1>2, <3>1, AttemptsAppend
  <2>5. counts'[<<o, "sent">>] + counts'[<<o, "failed">>] + retries'[o]
        = counts[<<o, "sent">>] + counts[<<o, "failed">>] + retries[o] + ev[o].attempts
    <3>1. /\ counts[<<o, "sent">>] \in Nat /\ counts[<<o, "failed">>] \in Nat
          /\ counts'[<<o, "sent">>] = counts[<<o, "sent">>] + IF "sent" = ev[o].result THEN 1 ELSE 0
          /\ counts'[<<o, "failed">>] = counts[<<o, "failed">>] + IF "failed" = ev[o].result THEN 1 ELSE 0
      BY <1>6, <2>1
    <3>2. retries[o] \in Nat /\ retries'[o] = retries[o] + Retries(ev[o])
      BY <1>1, <1>2
    <3>3. /\ Retries(ev[o]) \in Nat /\ ev[o].attempts \in Nat
          /\ Retries(ev[o]) + (IF ev[o].result \in {"sent", "failed"} THEN 1 ELSE 0) = ev[o].attempts
      BY <1>3, <1>4
    <3> QED BY <3>1, <3>2, <3>3
  <2>6. parked'[o] <= counts'[<<o, "failed">>]
    <3>1. /\ counts[<<o, "failed">>] \in Nat
          /\ counts'[<<o, "failed">>] = counts[<<o, "failed">>] + IF "failed" = ev[o].result THEN 1 ELSE 0
      BY <1>6, <2>1
    <3>2. parked[o] \in Nat /\ parked'[o] = parked[o] + IF ev[o].deadLettered THEN 1 ELSE 0
      BY <1>1, <1>2
    <3> QED BY <1>3, <2>2, <3>1, <3>2
  <2>7. f1 <= counts'[<<o, "filtered">>]
    <3> DEFINE n  == counts[<<o, "filtered">>]
               n1 == counts'[<<o, "filtered">>]
    <3>1. n \in Nat /\ n1 = n + IF "filtered" = ev[o].result THEN 1 ELSE 0
      BY <1>6, <2>1
    <3>2. f <= n
      BY <2>2
    <3>3. ~Routed(ev) => ev[o].result = "filtered"
      BY DEF Routed
    <3> HIDE DEF f, f1, n, n1
    <3>4. Routed(ev) => f1 <= n1
      BY <1>8, <3>1, <3>2
    <3>5. ~Routed(ev) => f1 <= n1
      BY <1>8, <3>1, <3>2, <3>3
    <3> QED BY <3>4, <3>5 DEF n1
  <2> QED BY <1>5, <2>2, <2>3, <2>4, <2>5, <2>6, <2>7
<1>10. SumsInv'
  BY <1>8, <1>9 DEF SumsInv
<1> QED BY <1>7, <1>10

\* Everything about the event log.
EventsInv == EventsOK /\ RingInv /\ SumsInv

\* record keeps it all, and a new log has it.
LEMMA EventsStep ==
  ASSUME EventsInv, NEW ev \in [Outputs -> Results], record(ev)
  PROVE  EventsInv'
<1>1. EventsOK /\ RingInv /\ SumsInv
  BY DEF EventsInv
<1>2. CountersOK' /\ SumsInv'
  BY <1>1, CountersStep
<1>3. /\ RingInv'
      /\ log' \in Seq([Outputs -> Results]) /\ Len(log') <= Records
      /\ buf' \in [0..Capacity-1 -> [Outputs -> Results] \cup {NoEvent}]
      /\ next' = Len(log') % Capacity
      /\ full' \in BOOLEAN /\ (full' <=> Len(log') >= Capacity)
  BY <1>1, RingStep
<1>4. EventsOK'
  BY <1>2, <1>3 DEF EventsOK, CountersOK
<1> QED BY <1>2, <1>3, <1>4 DEF EventsInv

LEMMA EventsInit == newEvents => EventsInv
<1> SUFFICES ASSUME newEvents PROVE EventsInv
  OBVIOUS
<1>1. Capacity \in Nat \ {0} /\ Records \in Nat /\ IsFiniteSet(Outputs)
  BY EventsAssumption DEF EventsAssumption
<1>2. log = << >> /\ Len(log) = 0 /\ log \in Seq([Outputs -> Results])
  BY DEF newEvents
<1>3. EventsOK
  <2>1. 0 % Capacity = 0
    <3>1. (Capacity * 0 + 0) % Capacity = 0
      BY <1>1, RemainderIs
    <3>2. Capacity * 0 + 0 = 0
      BY <1>1
    <3> QED BY <3>1, <3>2
  <2>2. next = Len(log) % Capacity /\ full \in BOOLEAN /\ (full <=> Len(log) >= Capacity)
    <3>1. next = 0 /\ full = FALSE
      BY DEF newEvents
    <3>2. next = Len(log) % Capacity
      BY <1>2, <2>1, <3>1
    <3>3. ~(Len(log) >= Capacity)
      BY <1>1, <1>2
    <3> QED BY <3>1, <3>2, <3>3
  <2>3. /\ buf \in [0..Capacity-1 -> [Outputs -> Results] \cup {NoEvent}]
        /\ counts \in [series -> Nat] /\ messages \in [BOOLEAN -> Nat]
        /\ retries \in [Outputs -> Nat] /\ parked \in [Outputs -> Nat]
    BY DEF newEvents
  <2>4. Len(log) <= Records
    BY <1>1, <1>2
  <2> QED BY <1>2, <2>2, <2>3, <2>4 DEF EventsOK
<1>4. RingInv
  <2>1. 1..Len(log) = {}
    BY <1>2
  <2> QED BY <2>1 DEF RingInv
<1>5. SumsInv
  <2>1. messages[TRUE] = 0 /\ messages[FALSE] = 0
    BY DEF newEvents
  <2>2. ASSUME NEW o \in Outputs
        PROVE  /\ Row(counts, o, resultNames) = 0 /\ Attempts(log, o) = 0
               /\ retries[o] = 0 /\ parked[o] = 0
               /\ \A r \in resultNames : counts[<<o, r>>] = 0
    <3>1. \A r \in resultNames : counts[<<o, r>>] = 0
      BY DEF newEvents, series
    <3>2. Row(counts, o, resultNames) = 0
      BY <3>1, ResultNamesAreFinite, RowOfNone
    <3>3. Attempts(log, o) = 0
      BY <1>2, AttemptsOfNone
    <3>4. retries[o] = 0 /\ parked[o] = 0
      BY DEF newEvents
    <3> QED BY <3>1, <3>2, <3>3, <3>4
  <2>3. "sent" \in resultNames /\ "failed" \in resultNames /\ "filtered" \in resultNames
    BY DEF resultNames
  <2> QED BY <1>2, <2>1, <2>2, <2>3 DEF SumsInv
<1> QED BY <1>3, <1>4, <1>5 DEF EventsInv
-----------------------------------------------------------------------------
(* The worker, a scrape, and the types *)

\* The dispatch in flight: an output owes a parking until it is marked.
WorkerInv ==
  /\ worker = [ev |-> worker.ev, owed |-> worker.owed] /\ worker.owed \subseteq Outputs
  /\ worker # Idle =>
       /\ worker.ev \in [Outputs -> Results]
       /\ \A o \in worker.owed : worker.ev[o].result = "failed" /\ worker.ev[o].deadLettered = FALSE

\* What a dispatch has parked.
Marks(ev) == [o \in Outputs |-> IF ev[o].deadLettered THEN 1 ELSE 0]

\* The stream holds all that is counted as parked and what the dispatch in
\* flight has parked; a scrape has read the counters at some time before.
ScrapeInv ==
  /\ backlog \in Nat
  /\ ~removed =>
       /\ Total(parked, Outputs) <= backlog
       /\ worker # Idle => Total(parked, Outputs) + Total(Marks(worker.ev), Outputs) <= backlog
  /\ request.parked # None => request.parked \in Nat /\ request.parked <= Total(parked, Outputs)
  /\ request.pending # None => request.pending \in Nat
  /\ Asks("counters") => request.pending = None
  /\ ScrapeAddsUp

\* The rest of the types.
TypesInv ==
  /\ env \in Envs /\ code \in {None, 0, 1, Killed}
  /\ term \in BOOLEAN /\ shutdown \in BOOLEAN /\ ready \in BOOLEAN
  /\ hooks \subseteq {"ping", "dead letter"}
  /\ waited \in 0..StartupTimeout /\ left \in 0..Grace
  /\ http \in {"off", "starting", "up", "failed", "closed"}
  /\ redis \in BOOLEAN /\ client \in BOOLEAN

DataInv == EventsInv /\ WorkerInv /\ ScrapeInv

\* The other steps leave the log alone.
LEMMA EventsKept == EventsInv /\ UNCHANGED events => EventsInv'
<1> SUFFICES ASSUME EventsInv, UNCHANGED events PROVE EventsInv'
  OBVIOUS
<1>1. /\ buf' = buf /\ next' = next /\ full' = full /\ counts' = counts /\ retries' = retries
      /\ parked' = parked /\ messages' = messages /\ log' = log
  BY DEF events
<1>2. EventsOK' /\ RingInv' /\ SumsInv'
  BY <1>1 DEF EventsInv, EventsOK, RingInv, SumsInv
<1> QED BY <1>2 DEF EventsInv

\* Most steps leave all of it alone.
LEMMA DataKept ==
  ASSUME DataInv, UNCHANGED <<events, worker, backlog, removed>>,
         request'.parked = request.parked, request'.pending = request.pending,
         Asks("counters")' => Asks("counters")
  PROVE  DataInv'
<1>1. EventsInv'
  BY EventsKept DEF DataInv
<1>2. WorkerInv'
  BY DEF DataInv, WorkerInv
<1>3. ScrapeInv'
  <2>1. parked' = parked
    BY DEF events
  <2> QED BY <2>1 DEF DataInv, ScrapeInv, ScrapeAddsUp
<1> QED BY <1>1, <1>2, <1>3 DEF DataInv

\* What a step of a handler does to the numbers of its scrape.
LEMMA ServeNumbers ==
  ASSUME RequestInv, Serve
  PROVE  \/ request'.parked = request.parked /\ request'.pending = request.pending
         \/ Asks("counters") /\ request'.parked = Total(parked, Outputs) /\ request'.pending = request.pending
         \/ request'.parked = request.parked /\ request'.pending \in {backlog, None}
<1>1. IsRequest(request)
  BY DEF RequestInv
<1>2. CASE ReadCounters
  <2>1. /\ request' = [[request EXCEPT !.todo = Tail(@)] EXCEPT !.parked = Total(parked, Outputs)]
        /\ Asks("counters")
    BY <1>2 DEF ReadCounters, Then, Total
  <2> HIDE DEF Total
  <2> QED BY <1>1, <2>1 DEF IsRequest
<1>3. CASE AskPing
  BY <1>1, <1>3 DEF AskPing, Then, IsRequest
<1>4. CASE Ping
  BY <1>1, <1>4 DEF Ping, Then, IsRequest
<1>5. CASE AskDeadLetter
  BY <1>1, <1>5 DEF AskDeadLetter, Answer, IsRequest
<1>6. CASE ReadDeadLetter
  <2>1. CASE request' = Answer(request)
    BY <1>1, <2>1 DEF Answer, IsRequest
  <2>2. CASE request' # Answer(request)
    <3> DEFINE l == IF Tail(request.todo) = <<"recent">> THEN request.left ELSE None
               p == IF Asks("len") /\ Tail(request.todo) # <<"recent">> THEN backlog ELSE None
               t == Tail(request.todo)
    <3>1. request' = [[request EXCEPT !.todo = t] EXCEPT !.left = l, !.pending = p]
      <4>1. Then(request).left = request.left
        BY <1>1 DEF Then, IsRequest
      <4> QED BY <1>6, <2>2, <4>1 DEF ReadDeadLetter, Then
    <3>2. p \in {backlog, None}
      OBVIOUS
    <3> HIDE DEF l, p, t
    <3>3. request'.parked = request.parked /\ request'.pending = p
      BY <1>1, <3>1 DEF IsRequest
    <3> QED BY <3>2, <3>3
  <2> QED BY <2>1, <2>2
<1> QED BY <1>2, <1>3, <1>4, <1>5, <1>6 DEF Serve

\* The total of what is counted.
LEMMA ParkedTotal ==
  ASSUME EventsInv
  PROVE  IsFiniteSet(Outputs) /\ Total(parked, Outputs) \in Nat /\ \A o \in Outputs : parked[o] \in Nat
<1>1. IsFiniteSet(Outputs)
  BY EventsAssumption DEF EventsAssumption
<1>2. \A o \in Outputs : parked[o] \in Nat
  BY DEF EventsInv, EventsOK
<1>3. PICK g : Sums(g, parked, SomeOf(Outputs), Outputs) /\ g[Outputs] = Total(parked, Outputs)
  BY <1>1, <1>2, TotalIs
<1> QED BY <1>1, <1>2, <1>3 DEF Sums

\* The counters are read first or not at all.
LEMMA ServeGoesOn == Inv /\ Serve => ~Asks("counters")'
<1> SUFFICES ASSUME Inv, Serve PROVE ~Asks("counters")'
  OBVIOUS
<1>1. Reading
  BY ServeReads DEF Inv
<1>2. "ping" # "counters" /\ "len" # "counters" /\ "recent" # "counters"
  OBVIOUS
<1>3. CASE request'.todo \in {<< >>, <<"len">>, <<"recent">>, <<"len", "recent">>}
  BY <1>2, <1>3, AsksAfter
<1>4. CASE request'.todo = request.todo /\ (Asks("ping") \/ Asks("len"))
  <2>1. ~Asks("counters")
    BY <1>2, <1>4 DEF Asks
  <2> QED BY <1>4, <2>1, AsksAfter
<1> QED BY <1>1, <1>3, <1>4 DEF Reading

\* A handler's step: a scrape reads what is counted, and later what is there.
LEMMA ServeData ==
  ASSUME Inv, DataInv, Serve
  PROVE  DataInv'
<1>1. UNCHANGED <<events, worker, backlog, removed>>
  BY DEF Serve, ReadCounters, AskPing, Ping, AskDeadLetter, ReadDeadLetter, store
<1>2. Total(parked, Outputs) \in Nat
  BY ParkedTotal DEF DataInv
<1>3. CASE request'.parked = request.parked /\ request'.pending = request.pending
  BY <1>1, <1>3, DataKept, ServeGoesOn
<1>4. EventsInv' /\ WorkerInv'
  BY <1>1, EventsKept DEF DataInv, WorkerInv
<1>5. parked' = parked
  BY <1>1 DEF events
<1>6. None = -1
  BY DEF None
<1>7. CASE /\ Asks("counters") /\ request'.parked = Total(parked, Outputs)
           /\ request'.pending = request.pending
  <2>1. request.pending = None
    BY <1>7 DEF DataInv, ScrapeInv
  <2>2. ScrapeInv'
    BY <1>1, <1>2, <1>5, <1>7, <2>1, ServeGoesOn DEF DataInv, ScrapeInv, ScrapeAddsUp
  <2> QED BY <1>4, <2>2 DEF DataInv
<1>8. CASE request'.parked = request.parked /\ request'.pending \in {backlog, None}
  <2>1. ScrapeInv'
    BY <1>1, <1>2, <1>5, <1>6, <1>8, ServeGoesOn DEF DataInv, ScrapeInv, ScrapeAddsUp
  <2> QED BY <1>4, <2>1 DEF DataInv
<1> QED BY <1>3, <1>7, <1>8, ServeNumbers DEF Inv

\* A dispatch has parked nothing yet.
LEMMA DispatchData ==
  ASSUME DataInv, Dispatch
  PROVE  DataInv'
<1>1. /\ UNCHANGED <<events, request, backlog, removed>> /\ worker = Idle
      /\ Asks("counters")' => Asks("counters")
  BY DEF Dispatch, store, Asks, Answered
<1>2. PICK ev \in Dispatches :
        worker' = [ev |-> ev, owed |-> IF DeadLetterOn THEN {o \in Outputs : ev[o].result = "failed"} ELSE {}]
  BY DEF Dispatch
<1>3. /\ ev \in [Outputs -> Results] /\ \A o \in Outputs : ev[o] \in Results /\ ~ev[o].deadLettered
      /\ IsFiniteSet(Outputs)
  BY ServiceAssumption, EventsAssumption DEF ServiceAssumption, EventsAssumption
<1>4. \A o \in Outputs : ev[o].deadLettered = FALSE
  BY <1>3, ConstantsHaveTypes DEF TypesOfConstants
<1>5. /\ worker'.ev = ev
      /\ worker'.owed = IF DeadLetterOn THEN {o \in Outputs : ev[o].result = "failed"} ELSE {}
      /\ worker' = [ev |-> worker'.ev, owed |-> worker'.owed]
  BY <1>2
<1>6. EventsInv'
  BY <1>1, EventsKept DEF DataInv
<1>7. WorkerInv'
  BY <1>3, <1>4, <1>5 DEF WorkerInv
<1>8. Total(Marks(ev), Outputs) = 0
  <2>1. \A o \in Outputs : Marks(ev)[o] = 0
    BY <1>4 DEF Marks
  <2> QED BY <1>3, <2>1, TotalOfNone
<1>9. ScrapeInv'
  <2>1. parked' = parked /\ Total(parked, Outputs) \in Nat /\ Marks(worker.ev)' = Marks(ev)
    BY <1>1, <1>5, ParkedTotal DEF DataInv, events, Marks
  <2> QED BY <1>1, <1>8, <2>1 DEF DataInv, ScrapeInv, ScrapeAddsUp
<1> QED BY <1>6, <1>7, <1>9 DEF DataInv

\* A parking puts one into the stream and marks one.
LEMMA ParkData ==
  ASSUME DataInv, NEW o \in Outputs, Park(o)
  PROVE  DataInv'
<1>1. /\ UNCHANGED events /\ request' = request /\ removed' = removed
      /\ Asks("counters")' => Asks("counters")
  BY DEF Park, Asks, Answered
<1>2. /\ o \in worker.owed /\ worker # Idle
      /\ worker' = [ev   |-> IF redis THEN [worker.ev EXCEPT ![o].deadLettered = TRUE] ELSE worker.ev,
                    owed |-> worker.owed \ {o}]
      /\ backlog' = IF redis THEN backlog + 1 ELSE backlog
  BY DEF Park, Idle
<1>3. PICK ev \in [Outputs -> Results] : ev = worker.ev
  BY <1>2 DEF DataInv, WorkerInv
<1>4. /\ worker.owed \subseteq Outputs
      /\ \A p \in worker.owed : ev[p].result = "failed" /\ ev[p].deadLettered = FALSE
  BY <1>2, <1>3 DEF DataInv, WorkerInv
<1>5. EventsInv'
  <2>1. UNCHANGED events
    BY <1>1
  <2>2. EventsInv
    BY DEF DataInv
  <2> QED BY <2>1, <2>2, EventsKept
<1>6. parked' = parked /\ Total(parked, Outputs) \in Nat /\ IsFiniteSet(Outputs)
  <2>1. UNCHANGED events
    BY <1>1
  <2>2. EventsInv
    BY DEF DataInv
  <2> QED BY <2>1, <2>2, ParkedTotal DEF events
<1>0. None = -1
  BY DEF None
<1>10. /\ backlog \in Nat
       /\ ~removed => Total(parked, Outputs) + Total(Marks(worker.ev), Outputs) <= backlog
       /\ ~removed => Total(parked, Outputs) <= backlog
       /\ request.parked # None => request.parked \in Nat /\ request.parked <= Total(parked, Outputs)
       /\ request.pending # None => request.pending \in Nat
       /\ Asks("counters") => request.pending = None
       /\ ScrapeAddsUp
  BY <1>2 DEF DataInv, ScrapeInv
<1>7. CASE ~redis
  <2>1. worker'.ev = ev /\ worker'.owed = worker.owed \ {o} /\ backlog' = backlog
        /\ worker' = [ev |-> worker'.ev, owed |-> worker'.owed]
    BY <1>2, <1>3, <1>7
  <2>2. WorkerInv'
    BY <1>3, <1>4, <2>1 DEF WorkerInv
  <2>3. Marks(worker.ev)' = Marks(ev) /\ Marks(worker.ev) = Marks(ev)
    BY <1>3, <2>1 DEF Marks
  <2>4. ScrapeInv'
    BY <1>1, <1>6, <1>10, <2>1, <2>3 DEF ScrapeInv, ScrapeAddsUp
  <2> QED BY <1>5, <2>2, <2>4 DEF DataInv
<1>8. CASE redis
  <2> DEFINE e == [ev EXCEPT ![o].deadLettered = TRUE]
  <2>1. worker'.ev = e /\ worker'.owed = worker.owed \ {o} /\ backlog' = backlog + 1
        /\ worker' = [ev |-> worker'.ev, owed |-> worker'.owed]
    BY <1>2, <1>3, <1>8
  <2>2. ev[o] \in Results /\ ev[o].result = "failed" /\ ev[o].deadLettered = FALSE
    BY <1>2, <1>4
  <2>3. [ev[o] EXCEPT !.deadLettered = TRUE] \in Results
    BY <2>2, ServiceAssumption DEF ServiceAssumption
  <2>4. e \in [Outputs -> Results] /\ e[o] = [ev[o] EXCEPT !.deadLettered = TRUE]
        /\ \A x \in Outputs \ {o} : e[x] = ev[x]
    BY <2>3
  <2>5. e[o].deadLettered = TRUE
    <3>1. ev[o] \in [result : resultNames, attempts : Nat, deadLettered : BOOLEAN]
      BY <2>2, EventsAssumption DEF EventsAssumption
    <3> QED BY <2>4, <3>1
  <2> HIDE DEF e
  <2>6. WorkerInv'
    BY <1>4, <2>1, <2>4 DEF WorkerInv
  <2>8. /\ Total(Marks(ev), Outputs) \in Nat
        /\ Total(Marks(e), Outputs) = Total(Marks(ev), Outputs) + 1
    <3>1. ASSUME NEW x \in Outputs
          PROVE  Marks(ev)[x] \in Nat /\ Marks(e)[x] = Marks(ev)[x] + IF x = o THEN 1 ELSE 0
      <4>1. CASE x = o
        BY <2>2, <2>5, <4>1 DEF Marks
      <4>2. CASE x # o
        BY <2>4, <4>2 DEF Marks
      <4> QED BY <4>1, <4>2
    <3> QED BY <1>6, <3>1, OneMore
  <2>10. Marks(worker.ev)' = Marks(e) /\ Marks(worker.ev) = Marks(ev)
    BY <1>3, <2>1 DEF Marks
  <2>12. ~removed => Total(parked, Outputs) + Total(Marks(e), Outputs) <= backlog + 1
    BY <1>6, <1>10, <2>8, <2>10
  <2>11. ScrapeInv'
    <3>1. backlog' \in Nat /\ (~removed => Total(parked, Outputs) <= backlog')
      BY <1>6, <1>10, <2>1
    <3> QED BY <1>1, <1>6, <1>10, <2>1, <2>10, <2>12, <3>1 DEF ScrapeInv, ScrapeAddsUp
  <2> QED BY <1>5, <2>6, <2>11 DEF DataInv
<1> QED BY <1>7, <1>8

\* What was marked is counted.
LEMMA RecordData ==
  ASSUME DataInv, Record
  PROVE  DataInv'
<1>1. /\ UNCHANGED <<request, backlog, removed>> /\ worker # Idle /\ worker' = Idle
      /\ Asks("counters")' => Asks("counters")
  BY DEF Record, store, Asks, Answered
<1>2. PICK ev \in [Outputs -> Results] : ev = worker.ev
  BY <1>1 DEF DataInv, WorkerInv
<1>3. record(ev)
  BY <1>2 DEF Record
<1>4. EventsInv'
  BY <1>3, EventsStep DEF DataInv
<1>5. WorkerInv'
  BY <1>1 DEF WorkerInv, Idle
<1>6. /\ IsFiniteSet(Outputs) /\ Total(parked, Outputs) \in Nat /\ \A o \in Outputs : parked[o] \in Nat
  BY ParkedTotal DEF DataInv
<1>7. \A o \in Outputs : /\ parked[o] \in Nat /\ Marks(ev)[o] \in Nat
                         /\ parked'[o] = parked[o] + Marks(ev)[o]
  BY <1>3, <1>6 DEF record, Marks
<1>8. /\ Total(Marks(ev), Outputs) \in Nat
      /\ Total(parked', Outputs) = Total(parked, Outputs) + Total(Marks(ev), Outputs)
  BY <1>6, <1>7, TotalAdds
<1>9. ScrapeInv'
  <2>1. ~removed => Total(parked, Outputs) + Total(Marks(ev), Outputs) <= backlog
    BY <1>1, <1>2 DEF DataInv, ScrapeInv
  <2>2. /\ backlog \in Nat
        /\ request.parked # None => request.parked \in Nat /\ request.parked <= Total(parked, Outputs)
        /\ request.pending # None => request.pending \in Nat
        /\ Asks("counters") => request.pending = None
        /\ ScrapeAddsUp
    BY DEF DataInv, ScrapeInv
  <2>3. Total(parked, Outputs) <= Total(parked', Outputs)
    BY <1>6, <1>8
  <2>4. request.parked # None => request.parked <= Total(parked', Outputs)
    BY <1>6, <1>8, <2>2
  <2> QED BY <1>1, <1>6, <1>8, <2>1, <2>2, <2>4 DEF ScrapeInv, ScrapeAddsUp
<1> QED BY <1>4, <1>5, <1>9 DEF DataInv

\* So every step keeps it.
LEMMA DataStep ==
  ASSUME Inv, DataInv, [Next]_vars
  PROVE  DataInv'
<1>0. IsRequest(request)
  BY DEF Inv, RequestInv
<1>1. ASSUME UNCHANGED <<events, worker, backlog, removed, request>> PROVE DataInv'
  <2>1. Asks("counters")' => Asks("counters")
    BY <1>1 DEF Asks, Answered
  <2> QED BY <1>1, <2>1, DataKept
<1>2. CASE Main
  <2>1. UNCHANGED <<events, worker, backlog, removed, request>>
    BY <1>2 DEF Main, Start, LoadRedisStartupTimeout, WaitForRedis, NewRedisCatcher, SetPing,
                SetDeadLetter, Run, Proceed, RunReturns, Exit, store
  <2> QED BY <1>1, <2>1
<1>3. CASE Stop \/ Sigterm \/ Listen \/ Outage \/ Recover \/ UNCHANGED vars
  <2>1. UNCHANGED <<events, worker, backlog, removed, request>>
    BY <1>3 DEF Stop, Sigterm, Listen, Outage, Recover, store, vars
  <2> QED BY <1>1, <2>1
<1>4. CASE Dispatch
  BY <1>4, DispatchData
<1>5. CASE Work
  BY <1>5, ParkData, RecordData DEF Work
<1>6. CASE Serve
  BY <1>6, ServeData
<1>7. ASSUME NEW kind \in {"healthz", "metrics", "dead-letter"}, Request(kind) PROVE DataInv'
  <2>1. /\ UNCHANGED <<events, worker, backlog, removed>>
        /\ request'.parked = None /\ request'.pending = None
    BY <1>7 DEF Request, NoRequest, store
  <2>2. EventsInv' /\ WorkerInv'
    BY <2>1, EventsKept DEF DataInv, WorkerInv
  <2>3. parked' = parked
    BY <2>1 DEF events
  <2>4. ScrapeInv'
    BY <2>1, <2>3 DEF DataInv, ScrapeInv, ScrapeAddsUp
  <2> QED BY <2>2, <2>4 DEF DataInv
<1>8. CASE Replay
  <2>1. /\ UNCHANGED <<events, worker, request>> /\ backlog > 0 /\ backlog' = backlog - 1
        /\ removed' = TRUE
        /\ Asks("counters")' => Asks("counters")
    BY <1>8 DEF Replay, Asks, Answered
  <2>2. EventsInv' /\ WorkerInv'
    BY <2>1, EventsKept DEF DataInv, WorkerInv
  <2>3. parked' = parked
    BY <2>1 DEF events
  <2>5. /\ backlog \in Nat
        /\ request.parked # None => request.parked \in Nat /\ request.parked <= Total(parked, Outputs)
        /\ request.pending # None => request.pending \in Nat
        /\ Asks("counters") => request.pending = None
    BY DEF DataInv, ScrapeInv
  <2>6. backlog' \in Nat
    BY <2>1, <2>5
  <2>7. removed' /\ request' = request
    BY <2>1
  <2>8. Total(parked, Outputs)' = Total(parked, Outputs)
    BY <2>3
  <2>4. ScrapeInv'
    BY <2>1, <2>5, <2>6, <2>7, <2>8 DEF ScrapeInv, ScrapeAddsUp
  <2> QED BY <2>2, <2>4 DEF DataInv
<1>9. CASE Tick
  <2>1. /\ UNCHANGED <<events, worker, backlog, removed>>
        /\ request' = [request EXCEPT !.left = IF @ = None THEN None ELSE @ - 1]
    BY <1>9 DEF Tick, store
  <2>2. /\ request'.todo = request.todo /\ request'.parked = request.parked
        /\ request'.pending = request.pending
    BY <1>0, <2>1 DEF IsRequest
  <2>3. Asks("counters")' => Asks("counters")
    BY <2>2 DEF Asks, Answered
  <2> QED BY <2>1, <2>2, <2>3, DataKept
<1> QED BY <1>2, <1>3, <1>4, <1>5, <1>6, <1>7, <1>8, <1>9 DEF Next

\* A new process has counted nothing.
LEMMA DataInit == Init => DataInv
<1> SUFFICES ASSUME Init PROVE DataInv
  OBVIOUS
<1>1. EventsInv
  BY EventsInit DEF Init
<1>2. WorkerInv
  BY DEF Init, Idle, WorkerInv
<1>3. ScrapeInv
  <2>1. request.parked = None /\ request.pending = None /\ backlog = 0 /\ worker = Idle
    BY DEF Init, NoRequest
  <2>2. Total(parked, Outputs) = 0
    <3>1. IsFiniteSet(Outputs) /\ \A o \in Outputs : parked[o] = 0
      BY EventsAssumption DEF EventsAssumption, Init, newEvents
    <3> QED BY <3>1, TotalOfNone
  <2> QED BY <2>1, <2>2 DEF ScrapeInv, ScrapeAddsUp
<1> QED BY <1>1, <1>2, <1>3 DEF DataInv

\* The other variables keep their types.
LEMMA TypesInit == Init => TypesInv
<1> SUFFICES ASSUME Init PROVE TypesInv
  OBVIOUS
<1>1. 0 \in 0..StartupTimeout /\ 0 \in 0..Grace
  BY ServiceAssumption DEF ServiceAssumption
<1> QED BY <1>1 DEF Init, TypesInv

LEMMA TypesStep ==
  ASSUME Inv, TypesInv, [Next]_vars
  PROVE  TypesInv'
<1>1. CASE Main
  <2>1. CASE Start
    BY <2>1 DEF Start, TypesInv, store
  <2>2. CASE LoadRedisStartupTimeout
    BY <2>2 DEF LoadRedisStartupTimeout, Leave, TypesInv, store
  <2>3. CASE WaitForRedis
    BY <2>3 DEF WaitForRedis, Leave, TypesInv, store
  <2>4. CASE NewRedisCatcher
    BY <2>4 DEF NewRedisCatcher, Leave, TypesInv
  <2>5. CASE SetPing \/ SetDeadLetter \/ Run
    BY <2>5 DEF SetPing, SetDeadLetter, Run, Proceed, TypesInv, store
  <2>6. CASE RunReturns
    BY <2>6 DEF RunReturns, Leave, TypesInv
  <2>7. CASE Exit
    BY <2>7 DEF Exit, TypesInv, store
  <2> QED BY <1>1, <2>1, <2>2, <2>3, <2>4, <2>5, <2>6, <2>7 DEF Main
<1>2. CASE Stop \/ Sigterm
  BY <1>2 DEF Stop, Sigterm, TypesInv, store
<1>3. CASE Dispatch \/ Work
  BY <1>3 DEF Dispatch, Work, Park, Record, TypesInv, process, store
<1>4. CASE Listen
  BY <1>4 DEF Listen, TypesInv, store
<1>5. CASE Serve
  BY <1>5 DEF Serve, ReadCounters, AskPing, Ping, AskDeadLetter, ReadDeadLetter, TypesInv, process, store
<1>6. CASE \E kind \in {"healthz", "metrics", "dead-letter"} : Request(kind)
  BY <1>6 DEF Request, TypesInv, process, store
<1>7. CASE Outage \/ Recover \/ Replay
  BY <1>7 DEF Outage, Recover, Replay, TypesInv, process
<1>8. CASE Tick
  <2>1. StartupTimeout \in Nat /\ Grace \in Nat
    BY ServiceAssumption DEF ServiceAssumption
  <2>2. waited' \in 0..StartupTimeout
    <3>1. /\ waited \in 0..StartupTimeout
          /\ phase = "waiting" => waited < StartupTimeout
          /\ waited' = IF phase = "waiting" THEN waited + 1 ELSE waited
      BY <1>8 DEF Tick, TypesInv
    <3> QED BY <2>1, <3>1
  <2>3. left' \in 0..Grace
    <3>1. /\ left \in 0..Grace
          /\ phase = "leaving" => left < Grace
          /\ left' = IF phase = "leaving" THEN left + 1 ELSE left
      BY <1>8 DEF Tick, TypesInv
    <3> QED BY <2>1, <3>1
  <2> QED BY <1>8, <2>2, <2>3 DEF Tick, TypesInv, store
<1>9. CASE UNCHANGED vars
  BY <1>9 DEF vars, TypesInv, process, store
<1> QED BY <1>1, <1>2, <1>3, <1>4, <1>5, <1>6, <1>7, <1>8, <1>9 DEF Next

\* No call has more time than the two timeouts together.
LEMMA CallTime == Inv => request.left \in None..(PingTimeout + DeadLetterTimeout)
<1> SUFFICES ASSUME Inv PROVE request.left \in None..(PingTimeout + DeadLetterTimeout)
  OBVIOUS
<1>1. PingTimeout \in Nat /\ DeadLetterTimeout \in Nat /\ None = -1
  BY ServiceAssumption DEF ServiceAssumption, None
<1>2. request.left \in Int /\ request.left >= None /\ request.todo \in Shapes
  BY DEF Inv, RequestInv
<1>3. CASE Answered \/ Asks("counters")
  BY <1>1, <1>2, <1>3 DEF Inv, RequestInv
<1>4. CASE Asks("ping") \/ Asks("len") \/ Asks("recent")
  BY <1>1, <1>2, <1>4 DEF Inv, RequestInv
<1> QED BY <1>2, <1>3, <1>4, ShapesAre

Everything == Inv /\ DataInv /\ TypesInv

\* The three together are inductive.
LEMMA EverythingHolds == Spec => []Everything
<1>1. Init => Everything
  BY InvInit, DataInit, TypesInit DEF Everything
<1>2. Everything /\ [Next]_vars => Everything'
  BY InvStep, DataStep, TypesStep DEF Everything
<1> QED BY <1>1, <1>2, PTL DEF Spec

\* The process, the requests, the event log and the dead-letter stream's length
\* have their types.
THEOREM TypeCorrect == Spec => []TypeOK
<1>1. Everything => TypeOK
  <2> SUFFICES ASSUME Everything PROVE TypeOK
    OBVIOUS
  <2>1. EventsOK /\ phase \in Phases /\ worker.owed \subseteq Outputs /\ backlog \in Nat
    BY DEF Everything, DataInv, EventsInv, WorkerInv, ScrapeInv, Inv, MainInv
  <2>2. request.left \in None..(PingTimeout + DeadLetterTimeout)
    BY CallTime DEF Everything
  <2>3. request.parked \in Nat \cup {None} /\ request.pending \in Nat \cup {None}
    BY DEF Everything, DataInv, ScrapeInv
  <2> QED BY <2>1, <2>2, <2>3 DEF TypeOK, Everything, TypesInv
<1> QED BY <1>1, EverythingHolds, PTL

\* Whatever the capacity and however often the ring has wrapped, list gives the
\* newest events that pass, the newest first.
THEOREM NewestAreListed == Spec => []ListIsNewest
<1>1. Everything => ListIsNewest
  BY RingIsNewest DEF Everything, DataInv, EventsInv
<1> QED BY <1>1, EverythingHolds, PTL

\* The counters agree with each other and with everything dispatched, of which
\* the ring has dropped the older part.
THEOREM CountersHold == Spec => []CountersAddUp
<1>1. Everything => CountersAddUp
  BY SumsSuffice DEF Everything, DataInv, EventsInv
<1> QED BY <1>1, EverythingHolds, PTL

\* The sends a scrape counts as parked are in the stream whose length it gives.
THEOREM ScrapesHold == Spec => []ScrapeAddsUp
<1>1. Everything => ScrapeAddsUp
  BY DEF Everything, DataInv, ScrapeInv
<1> QED BY <1>1, EverythingHolds, PTL
=============================================================================
