# homerun2-notification-catcher in TLA+

TLA+ modules of the catcher's own logic, TLC runs that check them on small
instances, and theorems that TLAPS proves for every value of the constants.
Every definition that stands for code is mapped to its lines in `PROJECT.json`.

    tlc -workers 2 -config MCDispatch.cfg MCDispatch
    tlapm DispatchProofs.tla

## The system

A pitcher stores a message as a Redis JSON document and appends its id to a
stream. The catcher pod reads the stream through a consumer group, resolves the
document and dispatches the message to every output (Teams or a webhook) whose
filters match. A send that fails after its retries is parked in a dead-letter
stream; an operator replays it later. Outputs may be throttled; what a throttle
held back is summarised in one post. Two pods share the group while a new
version rolls out, or for good with more replicas.

| Component | State | Operations | What is hard |
|---|---|---|---|
| dispatcher (`notify/dispatcher.go`, `retry.go`) | per call: a goroutine per output with attempt and wait; `stop` channel | Dispatch, deliver, send, park, Stop, SendTo | parallel outputs, one deadline, Retry-After, stop during a wait, failure of the dead letter |
| throttle (`throttle.go`) | last sent per key, current window, pending summaries | admit, roll, due | window boundaries, worker and flusher interleaving |
| flusher (`throttle.go`) | ticker, batch in progress | RunThrottle, FlushThrottle | one deadline for all outputs, SIGTERM |
| catcher (`catcher/catcher.go`, `main.go`) | per pod: consumer buffer, message in flight, payload client; shared: the group's pending list | handleMessage, Run, Shutdown | redelivery to any pod, order, crash between send and ack, shutdown order |
| dead letter (`catcher/deadletter.go`) | a trimmed Redis stream | Park, Range, Recent, Len, Delete | a write that timed out, trimming |
| replay (`main.go`) | none | runReplay | stop between send and delete |
| routing (`filter.go`, `status.go`) | none | Matches, AlertStatus | boundary cases of a pure predicate |
| cards (`teams.go`, `webhook.go`) | none | buildCard, Send | what a reader, and the sink, find in the text again |
| config (`config/notify.go`) | none after start | load, Validate, RetryFor, ThrottleFor | inheritance of unset fields |
| process (`main.go`) | config, hooks, ctx of the signals | runServer | SIGTERM at any line, a Redis that is late |
| event log (`server/events.go`) | ring buffer, counters | record, list, writeMetrics | wrap-around, counters of several dimensions |
| HTTP server and UI (`server/`, `webui/`) | the hooks main sets | healthz, metrics, dead letter, events, config | reads of Redis beside dispatches, its shutdown |
| sink (`sink/`) | notifications, groups, faults, subscribers | receive, group, fault, assert, events | grouping, one-shot faults, slow subscribers |

Interaction: one worker calls `handleMessage`, which calls `Dispatch`
synchronously; `Dispatch` asks each output's throttle and starts a goroutine per
output; the flusher is a second goroutine that shares the throttles' mutexes;
the shutdown goroutine calls `Dispatcher.Stop` and then `Shutdown`, and `Run`
closes the payload client when the consumer has returned. The stream entry is
acked by redisqueue when `handleMessage` returns nil. `Dispatch` hands its record
to the event log, which requests read under its mutex; they ask Redis, through
the hooks, for a ping and for the backlog of the dead letter.

What makes each correct: the dispatcher ends in its budget, keeps every failed
send and reports what it could not keep; the throttle decides as its history
says and accounts for everything it held back; the flusher keeps its rhythm and
leaves no summary behind; the catcher acks only what is delivered or parked,
keeps stream order, and settles every entry in the end; a replay deletes only
what it sent; the routing lets an alert's firings and resolutions come in pairs,
and a fallback takes what no other output matches; a card says what the alert is,
and the posts of one message can be told to be one; the sink shows a message once,
whatever order its posts come in, and the assertion on it neither passes nor
fails by accident; the event log lists the newest events and its counters agree,
with each other and with the backlog; SIGTERM ends the process wherever it is and
cuts nothing off.

## Modules

| Module | Models | Runs |
|---|---|---|
| `Fanout` | what one Dispatch call promises, without time (abstract) | through refinement |
| `Dispatch` | Dispatch, deliver, send, park, Stop, in time | `dispatch` |
| `DispatchProofs` | theorems about `Dispatch` | - |
| `Throttle` | the throttle of one output with its history | `throttle` |
| `ThrottleProofs` | theorems about `Throttle` | - |
| `Flush` | RunThrottle and FlushThrottle over several outputs | `flush` |
| `FlushProofs` | theorems about `Flush` | - |
| `Catcher` | the pods on their consumer group; instantiates `Fanout` | `catcher`, `catcher_settles`, `catcher_throttled` |
| `CatcherProofs` | theorems about `Catcher` | - |
| `Replay` | runReplay on the dead-letter stream | `replay` |
| `ReplayProofs` | theorems about `Replay` | - |
| `Message` | what filters, throttles and cards read of a message | through `Routing` |
| `Card` | cards, webhook bodies, and the sink's reading of them | through `Routing` |
| `Routing` | config, filters, fallbacks, throttle keys, over alerts | `routing`, `routing_again` |
| `RoutingProofs` | theorems about `Routing` | - |
| `Events` | the event log and the counters | through `Service` |
| `Service` | the process: main, its HTTP surface, its end | `service` |
| `ServiceProofs` | theorems about `Service` and `Events` | - |
| `Sink` | the store of the sink, its faults, its page | `sink` |
| `AssertCard` | the polling assertion on a sink | `assert_card` |
| `SinkProofs` | theorems about `Sink` and `AssertCard` | - |

Each `MC<module>` gives the constants of its module their values. `AssertCard`
calls its specification `AssertSpec` and its types `AssertTypeOK`, so that
`SinkProofs` can extend it beside `Sink`.

### Dispatch and Fanout

`Begin` is the first part of `Dispatch`: it routes the message (any set of
matching outputs, any set the throttles hold back) before the first goroutine
starts. From there each output is a process: `SendOK` and `SendFails` are the
answers of `Notifier.Send`, `Retry` and `Interrupt` the branches of the `select`
in `send`, `ParkOK` and `ParkFails` the dead-letter write, `Return` the end of
`wg.Wait`. `GiveUp`, `Pause` and `Fits` are the conditions of `send`, in order.

Time is explicit. `Tick` is disabled while a goroutine has to act, so an expired
timeout ends its operation at that instant, and `select` takes any ready branch.
An endpoint may take a message and lose the answer (`took`); a dead-letter write
may time out and be in the stream all the same.

`Fanout` says what remains for a caller: every output gets one outcome, the call
returns once all have one, and the error is nil exactly when no failed send is
unparked. `Contract == INSTANCE Fanout WITH outcome <- ...` is the refinement
mapping: an output that still sends, waits or parks is "pending". `Catcher`
takes its dispatches from `Fanout`, and its `DispatchBudget` is what `Budget`
shows for `Dispatch`.

Left out: what is posted (`Card`), log lines, and the `OnDispatch` record, which
goes to the event log (`Service`). A throttle's decision is an input here.

### Throttle

`admit` has one action per way out (`AdmitResolved`, `HoldRepeat`, `HoldFull`,
`Post`), each starting with `roll`; `Due` is the flusher's call. Both hold the
mutex, so each is one step, but either caller reads the clock before it takes the
mutex: `ReadForAdmit` and `ReadForDue` are steps of their own, and what follows works
with the time they read, whatever the other has done with a later one meanwhile.
`arrivals`, `rolled`, `flushed` and the field `first` of a window are history: the
properties compare the incremental state with a definition over all messages so
far. In it a window, or a key, is over for a message when its time says so, or when
a flush that overtook it closed the window at a time that says so
(`FlushedSince`). A summary's texts (`topKeys`, `message`) are left out; its counts
per key are in.

### Flush

One goroutine: `StartFlush` on a tick, `Collect` for the next output (`due`),
`SendNext` for the next summary of the batch, then `send` as in `Dispatch`, with
the pauses left open. `Exit` is `<-ctx.Done()` or the end of the process, which
does not wait for this goroutine. A window that ends is an input. The outputs
here are those with a throttle, in config order.

### Catcher

The Redis stream, the consumer group and redisqueue are not in this repository
and are marked external in the map: entries are read into a buffer and enter the
group's pending list; XACK removes them; an entry that has been idle for the
visibility timeout is claimed again, by its idle time alone, by any pod. Each pod
of `Pods` has a buffer, one worker, a payload client and throttles of its own;
the pending list, the acks, the endpoints and the dead letter are shared. `Take`
to `LeavePending` are the worker in `handleMessage` and the dispatch handler;
`Shutdown`, `RunReturns`, `Crash` and `Restart` are the life of a pod. A
throttle is reduced to the keys it remembers (`seen`) and the posts it counts in the
open window (`counted`); `Forget` ages a key, `Roll` ends a window, a restart clears
both, and `Repeat` and `Full` are the two ways in which `admit` holds a message back.
When that happens is left open: `Throttle` has the times. All messages are firing
alerts. `out` does not tell an output's endpoint from its dead letter, as the
properties do not. One stream is modelled.
The dead letter is not trimmed here. The group exists at `Init` and ends where
the stream does. Work outside a dispatch takes no time, and a worker does not
idle while an entry is buffered.

### Replay

A run reads the stream once (`Start`: Range and the selection by output, time and
objectId), then takes entry after entry, sends it and deletes it. One `SendTo`
makes up to `Attempts` posts: `SendAgain` is an attempt that fails and is retried,
`Sent` and `SendFails` are the last one. In each of them that fails the endpoint may
have taken a post whose answer was lost (`took`), so one `SendTo` can post an entry
more than once, succeed, and end in exit code 0. Redis may have done a delete it
did not answer (`applied`). A signal cancels the context of the send and of the
delete, and ends the pause between attempts. `Park` is the catcher,
whose XADD may trim; nothing keeps two runs apart. Entries are numbered as they
come, which is the order of their stream ids.

### Message, Card and Routing

A text is a sequence of words, because what the code looks for are words at the
start of a text, brackets around one, and words anywhere in it; case and blanks
at the ends, which it ignores, are left out. `Message` has `AlertStatus`,
`tagValue` and `getField`. `Card` is `buildCard` with the texts it takes from the
message, and `summarizeCard`, `messageKey` and `decodeMessage`, by which the sink
finds the posts of one message. Links, layout and the author's row are left out.

In `Routing`, `Validate`, `RetryFor` and `ThrottleFor` are operators over a
config record, `Matches` one over a message; the state is what the throttles
remember while alerts fire, repeat, resolve and fire again. Fields that work like
another one (`author` like `system`) are left out. Time and the count of `max`
are left out: a key may be forgotten, and a capped output be full, at any moment;
`Throttle` has both. `Firing` and `Resolution` are how omni-pitcher writes an
alert, which is outside this repository (docs/alertmanager.md describes it).
`Takers` is the rule of the fallbacks as a set, after the first of `Dispatch`'s two
loops; no property says the same again. The cards of what is posted are computed in the properties: they change no state.

### Service and Events

`Service` is `runServer` step by step, with SIGTERM at any moment: config, HTTP
server, REDIS_STARTUP_TIMEOUT, the wait for Redis, `NewRedisCatcher`, the hooks
`SetPing` and `SetDeadLetter`, `Run` and the deferred shutdown of the HTTP server.
`env` is what is wrong with the environment, if anything. The worker is reduced to
what the outputs did, to parking the sends that failed, one by one, and to
`Record`; requests read, in the order of their handlers, what main, the worker and
Redis have meanwhile changed. One request at a time shows all they can see, as
they change nothing. A call to Redis ends with its context at the latest, which
is go-redis' part.

`record`, `list` and `writeMetrics` of `Events` hold one mutex, so each is one step
or one look. `log` is history: every dispatch, which `list` and the counters are
compared with.

### Sink and AssertCard

In `Sink` a message is its key (`postKey`). `Store` is `add` or `AddInbox` with
the grouping, both rings and the event for the page; `Received` counts the
channel's fault down when a request comes, and `Accept` or `Refuse` is the answer
when its delay is over, also when the client has stopped waiting: `receive` delays
before it reads the body, and while that is unread net/http does not end the
request's context. What may happen instead is that the body of a client that is
gone cannot be read any more (`Abandon`), but that too shows behind the delay
only. The client is the catcher: dispatches follow each
other, the sends of one start at the same moment, each output retries, gives up
or runs into the deadline. `Clear` of a kind or a channel leaves the
notifications, as in the code.

`NotificationPerDispatch` holds while every output's post was stored once, within
the budget of its dispatch, and before those of a later one (`Clean`). It has to say
so: a post that a fault delays beyond the window is stored although its dispatch is
over, and becomes a notification of its own (with one fault of delay 2 TLC shows it,
if `Clean` leaves out `late`); and after a dispatch whose card was lost, the card of
a repeat within the window joins the older notification, and nothing in a post tells
the two apart when the objectId is the same.

`AssertCard` reduces the sink to the number of posts that match and to whether it
answers. The end of a poll, of a pause and of the deadline may fall together; the
`select` takes either branch.

## Runs and bounds

| Run | Instance | Shows |
|---|---|---|
| `dispatch` | 2 outputs, 4 and 2 attempts, one of them a fallback; unit 5s: budget 6, HTTP timeout 2, park 1; statuses 404 and 429, Retry-After 0 or 3 | `TypeOK`, `Budget`, `ShutdownBounded`, `AckedIsKept`, `RetrySpacing`, `ContractSpec` |
| `throttle` | 2 keys (symmetric), window 2, max 2, 5 messages up to time 3 | `TypeOK`, `DecisionsFollowHistory`, `OneSummaryPerCappedWindow` |
| `flush` | 2 outputs, 2 windows each; unit 5s: interval 3, HTTP timeout 2, 2 attempts | `TypeOK`, `FlushFitsInterval`, `CollectedInTime`, `EverySummarySettled` |
| `catcher` | 2 pods (symmetric); 3 entries, one malformed; 2 outputs, one throttled with max 1, the other may fail to park; buffer 2; visibility 2, a dispatch 1; 2 faults | `TypeOK`, `AckedIsKept`, `InOrderUnlessReclaimed`, `ClientOpenWhileHandling` |
| `catcher_settles` | the same pods, 2 entries of one throttle key, no max, 2 faults, no symmetry | `AckedIsKept`, `EventuallyAcked` |
| `catcher_throttled` | 1 pod, 1 entry for a throttled output whose park may fail | finding: acked but lost |
| `replay` | 2 outputs, 2 runs, 3 entries in a stream of 2, 2 attempts, 1 fault | `TypeOK`, `GoneIsPosted`, `TwiceHasAReason`, `ExitZeroIsDone` |
| `routing` | 15 config files, 8 of them refused; 2 alerts, one tagged and one by its "Resolved: " prefix; 4 other messages; 7 messages | `TypeOK`, `AlertPairs`, `PostsShareTheirKey`, `CardTellsTheAlert` |
| `routing_again` | the docs' pair of outputs with a throttle | finding: a new firing is held back |
| `sink` | a card channel, a webhook channel and the inbox; one message twice; 2 attempts; faults of a delay that ends with the budget, one beyond it and the window, and one refusal; posts kept 1, notifications 2, page buffer 2; 2 other events | `TypeOK`, `NotificationPerDispatch`, `OneMessageEach`, `ViewerMissesNothing` |
| `assert_card` | 2 posts wanted, deadline 8, pause 1, HTTP timeout 2, answer 1, 5 changes of the sink | `AssertTypeOK`, `PassIsReal`, `FailsInTime` |
| `service` | 2 outputs, 3 kinds of dispatch, a ring of 2, 3 records; startup timeout 1, ping 1, dead letter 2, grace 4; 1 outage | `TypeOK`, `ListIsNewest`, `CountersAddUp`, `ScrapeAddsUp`, `NothingCutOff`, `StopsWhenTold` |

Why the bounds are enough. In `dispatch` four attempts with waits 1, 2, 2 do not fit
the budget of 6 when sends are slow, so every way out of `send` occurs, among them a
Retry-After of 3 that fits and one that does not, the cap of the doubled wait, a
send cut by the deadline, and a stop in every state; calls follow each other without
a bound, but nothing is carried over except `stopped`. In `throttle` five messages
reach max through a key that a resolved alert cleared or that a flush forgot while
the worker held an older time, have a repeat in a capped window and continue in a
second window; the clock goes on a window after the last message, so that a flush
can be that late. In `flush` two windows per output give batches of two and a second
round after a round that used its whole interval. In `catcher` two faults allow a
crash after a failed park, or a lost ack before a stop; a full buffer, an entry both
pods have buffered, a claimed entry behind a new one, an entry held back above max
by one pod and sent by the other, and one that the same pod sends after the window
occur. A message held back as a repeat of another is in `catcher_settles`. Symmetry
between the pods is sound there, as nothing names one; `catcher_settles` does
without it because it checks liveness. In `replay` the third entry trims the first,
before, between and behind the steps of both runs, and one answer may be lost in a
first attempt or in the last. In `routing` seven messages take an alert through
fire, repeat, resolve and fire again with the other alert and a plain message in
between; the other messages are those a card could tell wrongly: an unknown
severity, none behind a bracket, nothing at all, and a resolution that says so three
times. In `service` the third record overwrites the first, between the reads of a
request or of none; the grace exceeds ping and dead letter together by one unit, as
5s exceeds 1.5s and 2s in the code. In `sink` the window equals the budget, the
tightest that `SinkAssumption` allows (30s and 30s in the code), so that a retry or
a fault's delay lands exactly on its edge, or a delay behind it, and the second
dispatch begins before or after it; one channel drops its post while the
notification stays, and the other way round; the page's channel fills up.
`MaxGroups` is free: the code keeps 4 times the capacity, and a smaller ratio drops
notifications earlier. In `assert_card` eight units are room for a poll that hangs,
several that answer, and a restart of the sink between two.

`MaxFaults`, `MaxArrivals`, `LastArrival`, `Windows`, `LastEnd`, `Parks`,
`Faults` (of `Replay`), `Messages` (of `Routing`), `Records`, `Outages`, `Dispatches`
(of `Sink`), `Others`, `Changes`, `Horizon` and the horizon of `Tick` in `Throttle` and
`Flush` are the only caps. The idle time of an entry stops at the visibility
timeout because nothing looks at more.

`throttle`, `flush` and `sink` run without the deadlock check because their time or
their inputs end at a bound; after SIGTERM the flusher is gone; `replay`,
`assert_card` and `service` are processes that end, and `routing` stops with a
refused config or at its bound. `dispatch` and the catcher's runs check deadlock
and do not stop.

The passing `catcher` runs let only the unthrottled output fail to park: what
happens otherwise is finding 1, with a run of its own. `AckedIsKept` lets a throttle
hold a message back only for messages that are themselves out: the one whose key it
repeats, or as many as `max` in the window (`aboveMax` has which). It leaves out
messages that are malformed or whose payload could not be read, which the code
acks on purpose.

## Fairness

* `Flush`: `Tick`, the ticker and the flusher's own steps. No signal has to come.
* `Catcher` (`catcher_settles`): each pod's poller, worker and reclaim loop, the end
  of a shutdown, a restart (the deployment restarts a pod) and time. Faults are
  finitely many, which is the assumption under which every entry is settled: with
  a Redis or dead letter that fails for ever nothing could be.
* `Service`: main, the goroutine that waits for the signal, a dispatch in flight
  (`Dispatch` shows that it ends), a request, and time, by which calls end. Redis
  does not have to come back, and no request or message has to come.
* The other modules assume none: their properties are safety. `Budget` bounds the
  time of a dispatch; that its goroutines take the steps they can is the runtime's
  part.

## What is proved

For any outputs, policies, timeouts, statuses and Retry-After delays, from
`DispatchAssumption` (attempts at least 1 as `RetryFor` resolves them, backoffs
between 0 and the cap as `validateRetry` checks, fallbacks are outputs):

* `TypeCorrect`: `[]TypeOK`, the cap of the doubled wait included.
* `BudgetHolds`: `[]Budget`. The invariant is `TimeInv`: each goroutine is
  before its own deadline, and each of those is before the end of the call: a
  send ends at `SendDue`, a timer fires inside the budget because `Fits` let it,
  and a park began before the budget was over. `Budget` alone says nothing of
  where the goroutines are, so it is not inductive.
* `ShutdownHolds`: `[]ShutdownBounded`, if every backoff is positive. `StopInv`
  adds that a wait is positive, that a send in flight began before the stop or as
  a first attempt, and that no waiting output lets time pass once stopped. The
  assumption is needed: with a backoff of 0 the timer and the stop are ready
  together, and the `select` may take the timer.
* `AckedIsKeptHolds`: `[]AckedIsKept`, from `ResultInv` (a result "sent" stands
  for an accepted message, "parked" for a stored entry, "failed" for no dead
  letter) and `AckInv`.
* `ImplementsContract`: `Spec => Contract!Spec`, one lemma for the steps of one
  output and one for the rest.
* `SpacingHolds`: `Spec => RetrySpacing`. `SpacingInv`: an output that sends or
  waits has the wait its attempt calls for, and one that waits has its timer set
  no sooner than that wait and Retry-After demand. The waits are a recursive
  function; `Waits` is unfolded by an argument on the least attempt that differs.

For any keys, window, maximum and number of messages, from `ThrottleAssumption`:

* `TypeCorrect`: `[]TypeOK`.
* `DecisionsHold`: `[]DecisionsFollowHistory`, and `SummariesHold`:
  `[]OneSummaryPerCappedWindow`. Both follow from one invariant, `Reflects`, which
  states each piece of the code's incremental state over the history: the open
  window and the message that opened it (`OpenOK`), the last post of each key
  (`SentOK`), the counts of the open window (`CountsOK`), the summaries of those
  that ended (`ClosedOK`), and every decision so far (`Decided`). Where windows
  start is a recursion over the messages, and `WindowsOK` says what it yields of a
  history that has grown.

For any number of outputs, interval, timeouts and policies, from
`FlushAssumption`:

* `TypeCorrect`: `[]TypeOK`, with the attempts of a summary: an output that pauses
  has one left.
* `RhythmHolds`: `[]FlushFitsInterval`. `Rhythm` ties the clock to the ticker: a
  tick in the channel is as old as the current interval, and the ticker's next
  time is the deadline of the flush, or one interval after it once it has fired.
* `CollectionHolds`: `[]CollectedInTime`. `CollectInv` says since when each
  waiting summary can have been waiting: its output was asked in this round, or
  one interval earlier in the last.

For any number of pods, outputs and entries, any routes, keys, buffer and
visibility timeout, from `CatcherAssumption` (the entries are 1 to n, a dispatch
ends before the visibility timeout):

* `TypeCorrect`: `[]TypeOK`, with the bounds of buffers and dispatches.
* `ClientStaysOpen`: `[]ClientOpenWhileHandling`. `ClientInv`: a client is open
  exactly while its pod runs, and a pod that does not run has no message.
* `AckedStaysKept`: `[]AckedIsKept`, if no throttled output fails to park; without
  that it is false (finding 1). `KeptInv` adds four parts. `SeenInv`: a key that
  some throttle remembers is posted or parked by some message, or pending in the
  dispatch of that pod; this is what a repeat that is held back rests on.
  `CountedInv`: the same of the messages a window counts, whose keys are remembered
  as long as it is open; this is what a message above max rests on. `CallInv`: of
  the message at hand, every output of its routes that is neither pending nor
  unparked has it, or those it was held back for. `ErrorInv`: once the dispatch has
  returned, no output is pending, and one that is unparked shows as an error.
  `AckedIsKept` alone says nothing of the call whose entry is acked next. Crashes,
  lost acks and claims by other pods leave all five alone because posts and parked
  entries only grow.
* `StreamOrderHolds`: `[]InOrderUnlessReclaimed`. `LineInv` orders what a pod has
  handled before what its worker is at, and that before its buffer in its order,
  unless the later one was claimed again; `DeliveredInv` and `PendingInv` say that
  none of these is past the group's position, so that an entry read now is newer
  than all of them.

For any number of replays at once and of entries, any stream length and number of
faults, from `ReplayAssumption` (the stream holds at least one entry, a policy has
at least one attempt):

* `TypeCorrect`: `[]TypeOK`.
* `NothingIsLost`: `[]GoneIsPosted`. `AtInv` is what it rests on: a run that is
  about to delete has posted the entry it is at.
* `ZeroIsDone`: `[]ExitZeroIsDone`. `DoneInv` says for a run without a failure that
  the entries behind it are posted and gone, but for the one it is at. Ids do not
  come back, so no `Park` undoes that.
* `RepeatsAreExcused`: `[]TwiceHasAReason`. The reasons (`excuse`) are a lost answer
  in any attempt, a delete that failed, and a run that selected the entry while
  another had; an operator sees the first as a failure or as more than one attempt.
  `OnceInv` counts, for an entry nobody
  has excused: it is posted once at most, it is in the stream once posted only
  while the run that sent it is about to delete it, and no two live runs have
  chosen it. `posts[e] > 1` alone does not say who might send it next.

For any config files, alerts and other messages, from `RoutingAssumption` (the
defaults are within the caps, the default key is one of known fields) and
`TextAssumption` (a text does not open with a colon, a severity is no bracket, the
rows of a card are a list):

* `TypeCorrect`: `[]TypeOK`, whose point is the policies. What runs was let
  through (`LoadedInv`), and `RetryIsValid` and `ThrottleIsValid` follow what an
  output inherits field by field.
* `PairsHold`: `[]AlertPairs`, if alerts that differ post different messages, no
  other message is one of them, and a resolution says that it is one
  (`AlertsAreDistinct`, which TLC evaluates for the alerts of the run).
  `ClearedInv`: of an alert that resolved and has not fired again, a throttle that
  could clear its key remembers nothing. `last` alone says nothing of the
  throttles the next firing meets.
* `KeysAgree`: `[]PostsShareTheirKey`. `PostedInv`: what was posted came in, under a
  config that was let through. By then every row titled "Severity" that reads back
  has the message's own severity, and if no row has, the sink reads it from the
  preview: `PrefixIsLabel` finds the end of the label at its bracket, whatever
  brackets the title and the text have.
* `CardsTell`: `[]CardTellsTheAlert`, if a text says "resolved:" at its beginning or
  not at all (`SaidFirst`, which TLC evaluates for the messages of the run); a text
  that says it twice keeps one. `PreviewIs` says what stands where in a preview,
  and of the title and the body only the title's first word is the prefix.

For any timeouts, dispatches and number of outages, from `ServiceAssumption` (a
ping and the reads of the dead letter together take less than the grace period):

* `NothingIsCutOff`: `[]NothingCutOff`. `MainInv` ties the hooks, the log and the
  exit code to where main is: `ready` needs the hook, and no way out with 1 comes
  after it is set. `RequestInv` has the reads a handler may still do and their
  timeouts. `GraceInv` bounds, read by read, how long the HTTP server's Shutdown
  has waited plus what is left of the call; the bound is below the grace period,
  so when that is over there is no request in flight.
* `TypeCorrect`: `[]TypeOK`, the event log and counters included.

For any finite set of outputs, results, queries, ring and number of records, from
`EventsAssumption` (finite, as the outputs are a list in the config; only a failed
send is parked, and one is sent or failed exactly if it was attempted) and the part
of `ServiceAssumption` that says a parked send is a result again:

* `NewestAreListed`: `[]ListIsNewest`. `RingInv`: message k of the newest `Capacity`
  is in slot (k-1) mod `Capacity`. The lemmas are about quotients and remainders:
  the next slot, a slot some places back, and that messages less than a round
  apart do not share one.
* `CountersHold`: `[]CountersAddUp`, from `SumsInv` and lemmas on sums over finite
  sets and sequences: what one more dispatch adds to a sum over its outputs.
* `ScrapesHold`: `[]ScrapeAddsUp`. `ScrapeInv`: unless a replay took entries, the
  parked ones that are counted and those the worker has parked but not recorded are
  together at most the backlog; a request that reads
  the counters first and the backlog later can so only be too high in the latter.

For any channels, messages, faults, capacities, window and budget, from
`SinkAssumption` (the budget of a dispatch is at most the window; a fault has a
status or a delay, as `handleSetFault` checks):

* `TypeCorrect`: `[]TypeOK`.
* `OneMessageHolds`: `[]OneMessageEach`. `Good` relates one notification to its posts
  and to the log: one post a channel, all of one message, and what is shown is what
  the posts make of it. `ChannelsInv` ties each kept post to the notification it
  names, in both directions.
* `NotificationsHold`: `[]NotificationPerDispatch`. `GroupingInv` is the property
  for what is stored so far. It takes two arguments. An earlier dispatch's
  notification is complete, so `group` does not add to it. The own one is found: it
  has not taken this output's post, and `AgeInv` says that a notification a dispatch
  made alone is no older than its budget when that budget ends, so what is stored by
  then (`late` counts the others) finds it in the window.
* `PageMissesNothing`: `[]ViewerMissesNothing`, from `ViewerInv`.

For any deadline, pause and client timeout, from `AssertAssumption` (a sink that
is up answers before the client's timeout):

* `PassesAreReal`: `[]PassIsReal`, from `HadInv`: what the sink holds, and what an
  answer on its way says, it had at one moment.
* `FailuresAreInTime`: `[]FailsInTime`. `TimeInv` bounds by phase how long the sink
  can have been good already (`GoodFor`), ties the clock to the poll and the pause
  (`ClockInv`), and the error to report to the sink's (`BlameInv`).
* `PollsAreTyped`: `[]AssertTypeOK`, whose point is the number of polls: `PollsInv`
  says that one more takes one more interval.

Induction over data is done where the data are numbered or finite sets: the least
number, or a smallest subset, for which a statement fails does not exist
(`Waits`, the windows of `Throttle`, the sums of `Events`).

Only model-checked: liveness (`EverySummarySettled`, `EventuallyAcked`,
`StopsWhenTold`), which is out of the prover's reach. Every invariant and every
action property of the passing runs is proved.

## Findings

1. **A throttled message can be acked and lost** (`catcher_throttled`). `admit`
   notes the key before the send. If the send and its park both fail, the entry
   is redelivered, held back as a repeat of a message that never went out, and
   acked.
2. **An alert that fires again can be held back** (`routing_again`). A resolution
   clears the key only in the throttles of outputs whose filters let it through.
   Its severity is `success`, so an output with `severity_min: warning` keeps the
   key, and the next firing within the window is a repeat to it. The same happens
   when the key includes a field in which a resolution differs: `severity`,
   `status`, `message` or `tags`. `AlertPairs` says what does hold.

More came up while modelling and follow from the modules by hand; they have no run
of their own:

* An entry whose JSON.GET fails is acked and gone, a transient Redis error
  included: the code says so (catcher.go:187), docs/configuration.md:291 speaks
  of every stream entry.
* A worker that reads the clock just before a window ends, and gets the mutex just
  after the flusher has closed that window with a later time, finds its key forgotten
  and the count at zero: it posts a repeat less than a window after the last one, or
  a message above max (throttle.go:59: "A key sent within the window is held back").
  `DecisionsFollowHistory` names this exception (`FlushedSince`) and no other.
* The visibility timeout of an entry runs while it waits in the buffer of 100, so
  an entry can be claimed while it is dispatched (`Reclaim` in `Catcher` asks for
  the idle time only; main.go:40 says "never").
* "One at a time, in stream order" (docs/configuration.md:49) is per pod: two pods
  do not wait for each other. Entries buffered when a pod stops are handled after
  newer ones once it is back, which is why `InOrderUnlessReclaimed` has its
  exception.
* The key by which the sink finds the posts of one message without an objectId
  differs between a card and a webhook if the alert is resolved, or if it has no
  severity and a title that opens with a bracket (`ReadsBack` in `Routing`;
  store.go:204, docs/sink.md:29). With an objectId they always agree.
* /healthz is ready once Redis is connected, before Run has created a new consumer
  group at "$": what is pitched in between is not read. Only the first start of a
  group is affected.
* A stopped dispatcher may retry with a backoff of 0s (see `ShutdownHolds`).
* All outputs share the time of one flush: a healthy output behind one with an
  outage can lose its summary, which `due` has already taken (`Resolve("failed")`
  with `CtxOver` in `Flush`).

## Not modelled, and what is left

Worth adding next, in this order:

1. Throttle in `Catcher` replaced by a contract of `Throttle`; resolved alerts
   there; several streams; the first start of a group.
2. The width of a Retry-After.
3. Proofs: an abstract specification of the throttle for point 1, which `Throttle`
   implements.

Not modelled: pages, templates, redaction, authentication and the manifest of the
UI (functions of the config without state), YAML syntax and the Redis settings
(data), smoke (one call of Dispatch), what WaitForRedisContext, redisqueue and
go-redis do inside (libraries; `Catcher` and `Service` state what is assumed of
them: Shutdown before Run is remembered, and a call ends with its context), the
manifests but for the number of pods, and the dagger pipelines.
