------------------------------ MODULE Service ------------------------------
(***************************************************************************)
(* The life of the catcher's process: runServer (main.go) from the config  *)
(* over the wait for Redis to SIGTERM, the HTTP surface beside it          *)
(* (server/server.go, deadletter.go) and the event log behind that         *)
(* (Events.tla).                                                           *)
(*                                                                         *)
(* Goroutines: main, the one that waits for ctx.Done, the consumer's       *)
(* worker, one request.  Requests only read, so one at a time shows what   *)
(* they can see.  Redis is up or not; a call to it ends with its context   *)
(* at the latest.  The consumer is external: it remembers a Shutdown that  *)
(* comes before Run.                                                       *)
(***************************************************************************)
EXTENDS Events

CONSTANTS Dispatches,         \* what the outputs may do with a message, before parking
          DeadLetterOn,       \* DEAD_LETTER_STREAM is not "off"
          StartupTimeout,     \* REDIS_STARTUP_TIMEOUT
          PingTimeout, DeadLetterTimeout,
          Grace,              \* of http.Server.Shutdown
          Outages             \* bound: times Redis goes away

ASSUME ServiceAssumption ==
  /\ Dispatches \subseteq [Outputs -> Results]
  /\ \A ev \in Dispatches, o \in Outputs : ~ev[o].deadLettered
  \* parking makes one result of another
  /\ \A r \in Results : r.result = "failed" => [r EXCEPT !.deadLettered = TRUE] \in Results
  /\ DeadLetterOn \in BOOLEAN
  /\ StartupTimeout \in Nat /\ PingTimeout \in Nat /\ DeadLetterTimeout \in Nat
  /\ Grace \in Nat /\ PingTimeout + DeadLetterTimeout < Grace
  /\ Outages \in Nat

VARIABLES
  \* the process
  phase,      \* of main: see Phases
  env,        \* the environment: what of it is wrong, see Envs
  code,       \* exit code
  term,       \* SIGTERM came: ctx is done
  waited,     \* time in WaitForRedisContext
  shutdown,   \* Stop and Shutdown were called
  hooks,      \* what main has set: "ping", "dead letter"
  ready,      \* history: an answer said that Redis is ok
  worker,     \* [ev, owed]: the dispatch and its failed sends that are not parked yet
  http,       \* "off", "starting", "up", "failed", "closed"
  left,       \* time in http.Server.Shutdown
  request,    \* [todo, left, parked, pending]: reads to come, time of the call,
              \* what a scrape tells
  \* Redis
  redis, client,    \* it is up; the payload client is open
  backlog,          \* length of the dead-letter stream
  removed,          \* history: a replay took entries since the start
  outages

process == <<phase, env, code, term, waited, shutdown, hooks, ready, http, left>>
store   == <<redis, client, backlog, removed, outages>>
vars    == <<events, process, worker, request, store>>

Phases == {"new", "listening", "waiting", "connecting", "created", "pinging", "wired", "running",
           "leaving", "exited"}
Envs   == {"good", "config", "timeout", "startID"}
Killed == 143
None   == -1
Idle   == [ev |-> << >>, owed |-> {}]
NoRequest == [todo |-> << >>, left |-> None, parked |-> None, pending |-> None]
Answered  == request.todo = << >>

Init == /\ newEvents
        /\ phase = "new" /\ env \in Envs /\ code = None
        /\ term = FALSE /\ waited = 0 /\ shutdown = FALSE /\ http = "off" /\ left = 0
        /\ worker = Idle /\ request = NoRequest
        /\ hooks = {} /\ ready = FALSE
        /\ redis \in BOOLEAN /\ client = FALSE
        /\ backlog = 0 /\ removed = FALSE /\ outages = 0
-----------------------------------------------------------------------------
(* main *)

\* A return of runServer: the deferred Shutdown of the HTTP server closes the
\* listener first, if there is one.
Leave(c) == /\ phase' = "leaving" /\ code' = c
            /\ http' = "closed"

\* Config, dispatcher, signals, HTTP server.
Start ==
  /\ phase = "new"
  /\ IF env = "config" THEN phase' = "exited" /\ code' = 1 /\ UNCHANGED http
     ELSE phase' = "listening" /\ http' = "starting" /\ UNCHANGED code
  /\ UNCHANGED <<events, env, term, waited, shutdown, hooks, ready, left, worker, request, store>>

LoadRedisStartupTimeout ==
  /\ phase = "listening"
  /\ IF env = "timeout" THEN Leave(1) ELSE phase' = "waiting" /\ UNCHANGED <<code, http>>
  /\ UNCHANGED <<events, env, term, waited, shutdown, hooks, ready, left, worker, request, store>>

\* WaitForRedisContext: the first ping that works ends it, and so do SIGTERM
\* and the timeout.
WaitForRedis ==
  /\ phase = "waiting"
  /\ \/ redis /\ phase' = "connecting" /\ UNCHANGED <<code, http>>
     \/ term /\ Leave(0)
     \/ ~redis /\ waited = StartupTimeout /\ Leave(IF term THEN 0 ELSE 1)
  /\ UNCHANGED <<events, env, term, waited, shutdown, hooks, ready, left, worker, request, store>>

\* The start ID is checked, and the consumer's preflight dials Redis once.
NewRedisCatcher ==
  /\ phase = "connecting"
  /\ IF redis /\ env # "startID" THEN phase' = "created" /\ client' = TRUE /\ UNCHANGED <<code, http>>
     ELSE Leave(1) /\ UNCHANGED client
  /\ UNCHANGED <<events, env, term, waited, shutdown, hooks, ready, left, worker, request,
                 redis, backlog, removed, outages>>

Proceed(from, to, set) ==
  /\ phase = from /\ phase' = to
  /\ hooks' = hooks \cup set
  /\ UNCHANGED <<events, env, code, term, waited, shutdown, ready, http, left, worker, request, store>>

SetPing       == Proceed("created", "pinging", {"ping"})
\* Of the page, and of the dispatcher.
SetDeadLetter == Proceed("pinging", "wired", IF DeadLetterOn THEN {"dead letter"} ELSE {})
Run           == Proceed("wired", "running", {})

\* The goroutine of ctx.Done is started before Run, which blocks.
WaitsBehindRun == phase = "leaving"     \* bug
WaitsForDone   == phase \in {"wired", "running"}

Stop ==
  /\ WaitsForDone /\ term /\ ~shutdown
  /\ shutdown' = TRUE
  /\ UNCHANGED <<events, phase, env, code, term, waited, hooks, ready, http, left, worker, request, store>>

\* Run returns when the message in flight is handled, and closes the client.
RunReturns ==
  /\ phase = "running" /\ shutdown /\ worker = Idle
  /\ client' = FALSE /\ Leave(0)
  /\ UNCHANGED <<events, env, term, waited, shutdown, hooks, ready, left, worker, request,
                 redis, backlog, removed, outages>>

\* http.Server.Shutdown waits for the requests in flight, or gives up.
Closed    == TRUE                       \* bug: Close instead of Shutdown
Drained   == Answered \/ left = Grace

Exit ==
  /\ phase = "leaving" /\ Drained
  /\ phase' = "exited"
  /\ UNCHANGED <<events, env, code, term, waited, shutdown, hooks, ready, http, left, worker, request, store>>

Main == \/ Start \/ LoadRedisStartupTimeout \/ WaitForRedis \/ NewRedisCatcher \/ SetPing \/ SetDeadLetter \/ Run
        \/ RunReturns \/ Exit

\* Before signal.NotifyContext SIGTERM kills.
Sigterm ==
  /\ phase # "exited" /\ ~term
  /\ term' = TRUE
  /\ IF phase = "new" THEN phase' = "exited" /\ code' = Killed ELSE UNCHANGED <<phase, code>>
  /\ UNCHANGED <<events, env, waited, shutdown, hooks, ready, http, left, worker, request, store>>
-----------------------------------------------------------------------------
(* The worker: Dispatch parks what failed, then records *)

Dispatch ==
  /\ phase = "running" /\ worker = Idle /\ Len(log) < Records
  /\ \E ev \in Dispatches :
       worker' = [ev |-> ev, owed |-> IF DeadLetterOn THEN {o \in Outputs : ev[o].result = "failed"}
                                      ELSE {}]
  /\ UNCHANGED <<events, process, request, store>>

Park(o) ==
  /\ o \in worker.owed
  /\ worker' = [ev   |-> IF redis THEN [worker.ev EXCEPT ![o].deadLettered = TRUE] ELSE worker.ev,
                owed |-> worker.owed \ {o}]
  /\ backlog' = IF redis THEN backlog + 1 ELSE backlog
  /\ UNCHANGED <<events, process, request, redis, client, removed, outages>>

\* OnDispatch.
Record ==
  /\ worker # Idle /\ worker.owed = {}
  /\ record(worker.ev)
  /\ worker' = Idle
  /\ UNCHANGED <<process, request, store>>

Work == Record \/ \E o \in Outputs : Park(o)
-----------------------------------------------------------------------------
(* The HTTP surface *)

\* ListenAndServe in its own goroutine; an error is only logged.
Listen ==
  /\ http = "starting" /\ http' \in {"up", "failed"}
  /\ UNCHANGED <<events, phase, env, code, term, waited, shutdown, hooks, ready, left, worker, request, store>>

\* What the handlers read, in their order.
GaugeFirst(kind) ==      \* bug: the gauge before the counters
  CASE kind = "healthz"     -> <<"ping">>
    [] kind = "metrics"     -> <<"len", "counters">>
    [] kind = "dead-letter" -> <<"ping", "len", "recent">>
Reads(kind) ==
  CASE kind = "healthz"     -> <<"ping">>
    [] kind = "metrics"     -> <<"counters", "len">>
    [] kind = "dead-letter" -> <<"ping", "len", "recent">>

Request(kind) ==
  /\ http = "up" /\ Answered
  /\ request' = [NoRequest EXCEPT !.todo = Reads(kind)]
  /\ UNCHANGED <<events, process, worker, store>>

Asks(read) == ~Answered /\ Head(request.todo) = read
Then(r)    == [r EXCEPT !.todo = Tail(@)]
Answer(r)  == [r EXCEPT !.todo = << >>, !.left = None]

\* writeMetrics.
ReadCounters ==
  /\ Asks("counters")
  /\ request' = [Then(request) EXCEPT !.parked = MapThenSumSet(LAMBDA o : parked[o], Outputs)]
  /\ UNCHANGED <<events, process, worker, store>>

\* A context for the ping, and one for the reads of the stream.  Redis is not
\* asked before main has connected: "connecting", "not connected to Redis
\* yet", or no gauge.
AskPing ==
  /\ Asks("ping") /\ request.left = None
  /\ request' = IF "ping" \in hooks THEN [request EXCEPT !.left = PingTimeout] ELSE Then(request)
  /\ UNCHANGED <<events, process, worker, store>>

AskDeadLetter ==
  /\ Asks("len") /\ request.left = None
  /\ request' = IF "dead letter" \in hooks THEN [request EXCEPT !.left = DeadLetterTimeout]
                ELSE Answer(request)
  /\ UNCHANGED <<events, process, worker, store>>

Answers == redis /\ client
Refuses == ~Answers \/ request.left = 0

Ping ==
  /\ Asks("ping") /\ request.left # None
  /\ request' = [Then(request) EXCEPT !.left = None]
  /\ \/ Answers /\ ready' = TRUE
     \/ Refuses /\ UNCHANGED ready
  /\ UNCHANGED <<events, env, phase, code, term, waited, shutdown, hooks, http, left, worker, store>>

\* The gauge is one read; the page has two, which share the time, and keeps
\* none of them if one fails.  (The page's numbers are left out.)
ReadDeadLetter ==
  /\ Asks("len") \/ Asks("recent")
  /\ request.left # None
  /\ \/ /\ Answers
        /\ request' = [Then(request) EXCEPT
             !.left    = IF Tail(request.todo) = <<"recent">> THEN @ ELSE None,
             !.pending = IF Asks("len") /\ Tail(request.todo) # <<"recent">> THEN backlog ELSE None]
     \/ Refuses /\ request' = Answer(request)
  /\ UNCHANGED <<events, process, worker, store>>

Serve == ReadCounters \/ AskPing \/ Ping \/ AskDeadLetter \/ ReadDeadLetter
-----------------------------------------------------------------------------
(* Redis, other pods, time *)

Outage == /\ redis /\ outages < Outages
          /\ redis' = FALSE /\ outages' = outages + 1
          /\ UNCHANGED <<events, process, worker, request, client, backlog, removed>>
Recover == /\ ~redis /\ redis' = TRUE
           /\ UNCHANGED <<events, process, worker, request, client, backlog, removed,
                          outages>>

\* A replay takes an entry out; one is enough to tell.
Replay == /\ redis /\ ~removed /\ backlog > 0
          /\ backlog' = backlog - 1 /\ removed' = TRUE
          /\ UNCHANGED <<events, process, worker, request, redis, client, outages>>

\* Time counts where a timeout runs.  A call ends at its deadline, and a
\* handler takes no time between its calls.
Tick ==
  /\ phase \in {"waiting", "leaving"} \/ ~Answered
  /\ ~Answered => request.left > 0
  /\ phase = "waiting" => waited < StartupTimeout
  /\ phase = "leaving" => left < Grace
  /\ waited' = IF phase = "waiting" THEN waited + 1 ELSE waited
  /\ left' = IF phase = "leaving" THEN left + 1 ELSE left
  /\ request' = [request EXCEPT !.left = IF @ = None THEN None ELSE @ - 1]
  /\ UNCHANGED <<events, env, phase, code, term, shutdown, hooks, ready, http, worker, store>>

Next ==
  \/ Main \/ Stop \/ Sigterm \/ Dispatch \/ Work \/ Listen \/ Serve
  \/ \E kind \in {"healthz", "metrics", "dead-letter"} : Request(kind)
  \/ Outage \/ Recover \/ Replay \/ Tick

Spec == Init /\ [][Next]_vars

\* The process runs while it lives: main, the goroutine of ctx.Done, a dispatch
\* in flight (it ends, Dispatch.tla) and a request; calls end at their
\* deadline.  Redis need not come back.
FairSpec == Spec /\ WF_vars(Main) /\ WF_vars(Stop) /\ WF_vars(Work) /\ WF_vars(Serve) /\ WF_vars(Tick)
-----------------------------------------------------------------------------
(* Properties *)

\* Every variable has its type.
TypeOK ==
  /\ EventsOK
  /\ phase \in Phases /\ env \in Envs /\ code \in {None, 0, 1, Killed}
  /\ term \in BOOLEAN /\ shutdown \in BOOLEAN /\ ready \in BOOLEAN
  /\ hooks \subseteq {"ping", "dead letter"}
  /\ waited \in 0..StartupTimeout /\ left \in 0..Grace
  /\ http \in {"off", "starting", "up", "failed", "closed"}
  /\ worker.owed \subseteq Outputs
  /\ request.left \in None..(PingTimeout + DeadLetterTimeout)
  /\ request.parked \in Nat \cup {None} /\ request.pending \in Nat \cup {None}
  /\ redis \in BOOLEAN /\ client \in BOOLEAN /\ backlog \in Nat

\* What a scrape says adds up, although dispatches go on while it is answered
\* and the gauge comes from Redis: every send counted as parked waits in the
\* stream, unless a replay took some out (docs/http-ui.md).  The stream is
\* below its MaxLen.
ScrapeAddsUp ==
  request.parked # None /\ request.pending # None /\ ~removed => request.parked <= request.pending

\* Nothing is cut off at the end: neither a dispatch nor an answer, the slowest
\* page in the slowest outage included, whenever SIGTERM comes.  The process
\* ends by itself with 1 only, and that before it was ready or took a message.
NothingCutOff ==
  phase = "exited" /\ code # Killed =>
    /\ worker = Idle /\ Answered
    /\ code = 0 => term
    /\ code = 1 => ~ready /\ log = << >>

\* SIGTERM ends the process, in the wait for Redis, between the wait and the
\* consumer's start, and with requests that hang.
StopsWhenTold == term ~> phase = "exited"
=============================================================================
