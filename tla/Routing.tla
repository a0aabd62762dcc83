------------------------------- MODULE Routing ------------------------------
(***************************************************************************)
(* Which outputs take a message (config/notify.go, notify/filter.go,       *)
(* status.go, the routing loop of Dispatch), what they post (Card.tla),    *)
(* and what that does to the alerts: firing, repeated, resolved, firing    *)
(* again.                                                                  *)
(*                                                                         *)
(* Time is left out: a key may be forgotten at any moment, and an output   *)
(* with a max may be full at any moment (Throttle.tla has the windows).    *)
(***************************************************************************)
EXTENDS Card

CONSTANTS Configs,          \* config files
          Env,              \* environment variables that are set, and not empty
          Alerts,           \* [severity, system, title, summary, labels, tagged]
          Plain,            \* messages that are no alert
          Unset,            \* a duration or a severity that is not given
          DefaultAttempts, DefaultBackoff, MaxRetryAttempts, MaxRetryBackoff,
          DefaultThrottleKey,
          Messages          \* bound: messages dispatched

Rank == [debug |-> 0, info |-> 1, success |-> 2, warning |-> 3, critical |-> 4, error |-> 4]
matchFields == {"status", "severity", "system", "title"}
throttleKeyFields == matchFields \cup {"message", "tags"}
cardFields == {"severity", "system", "title", "message", "tags", "timestamp"}

ASSUME RoutingAssumption ==
  /\ Messages \in Nat
  /\ MaxRetryAttempts \in Nat /\ DefaultAttempts \in 1..MaxRetryAttempts
  /\ MaxRetryBackoff \in Nat /\ DefaultBackoff \in 0..MaxRetryBackoff
  /\ Unset \notin Int /\ Unset \notin DOMAIN Rank
  /\ DefaultThrottleKey \in (SUBSET throttleKeyFields) \ {{}}

VARIABLES cfg,
          phase,       \* "new", "running", "refused"
          sent,        \* per output: the messages whose keys its throttle holds back
          firing,      \* alerts that fire
          resolved,    \* alerts that have resolved before
          last,        \* history: the last dispatch, [message, news, takers, posted, alone]
          dispatched

vars == <<cfg, phase, sent, firing, resolved, last, dispatched>>

outputs == DOMAIN cfg.outputs
-----------------------------------------------------------------------------
(* Validate, and the policies it is for *)

ValidRetryUncapped(r) == r.attempts >= 0 /\ (r.backoff # Unset => r.backoff \in Nat)  \* bug
validateRetry(r) ==
  /\ r.attempts \in 0..MaxRetryAttempts
  /\ r.backoff # Unset => r.backoff \in 0..MaxRetryBackoff

validateThrottle(t, inherited) ==
  /\ t.key \subseteq throttleKeyFields
  /\ t.max >= 0
  /\ t.window # Unset => t.window \in Nat
  /\ t.window = Unset /\ inherited = Unset => t.key = {} /\ t.max = 0

\* One of tag and field, and no status: the cards have fields only.
validFact(f) ==
  /\ f.title # NoWord
  /\ (f.tag = NoWord) # (f.field = NoWord)
  /\ f.field \in cardFields \cup {NoWord}

\* The target of an output, [text, refs]: what is written besides the
\* environment variables that are to be filled in.
NoTarget == [text |-> "", refs |-> {}]
interpolated(c) == \A i \in DOMAIN c.outputs : c.outputs[i].target.refs \subseteq Env

Validate(c) ==
  /\ validateRetry(c.retry)
  /\ validateThrottle(c.throttle, Unset)
  /\ \A i, j \in DOMAIN c.outputs : c.outputs[i].name = c.outputs[j].name => i = j
  /\ \A i \in DOMAIN c.outputs : LET o == c.outputs[i] IN
       /\ o.name # "" /\ o.type \in {"msteams", "webhook"}
       /\ o.target # NoTarget
       /\ o.card # << >> => o.type = "msteams"
       /\ \A j \in DOMAIN o.card : validFact(o.card[j])
       /\ o.filters.severityMin \in DOMAIN Rank \cup {Unset}
       /\ DOMAIN o.filters.match \subseteq matchFields
       /\ validateRetry(o.retry)
       /\ validateThrottle(o.throttle, c.throttle.window)

RetryFor(c, o) ==
  LET set == IF o.retry.attempts > 0 THEN o.retry ELSE c.retry
      dur == IF o.retry.backoff \in Int THEN o.retry.backoff ELSE c.retry.backoff
  IN [attempts |-> IF set.attempts > 0 THEN set.attempts ELSE DefaultAttempts,
      backoff  |-> IF dur \in Int THEN dur ELSE DefaultBackoff]

NoThrottle == [key |-> {}, window |-> 0, max |-> 0]

ThrottleFor(c, o) ==
  LET own == o.throttle
      top == c.throttle
      window == IF own.window \in Int THEN own.window ELSE top.window
      key == IF own.key # {} THEN own.key ELSE top.key
  IN IF window \notin Int \/ window <= 0 THEN NoThrottle
     ELSE [key    |-> IF key # {} THEN key ELSE DefaultThrottleKey,
           window |-> window,
           max    |-> IF own.max > 0 THEN own.max ELSE top.max]

throttle == [i \in outputs |-> ThrottleFor(cfg, cfg.outputs[i])]
-----------------------------------------------------------------------------
(* Matches *)

\* A severity nobody knows counts as info.
SeverityRank(s) == Rank[IF s \in DOMAIN Rank THEN s ELSE "info"]
severityAtLeast(s, min) == min = Unset \/ SeverityRank(s) >= Rank[min]

anySubstring(text, needles) == \E i \in DOMAIN text : text[i] \in needles

Matches(f, m) ==
  /\ severityAtLeast(m.severity, f.severityMin)
  /\ \A k \in DOMAIN f.match : getField(m, k) = f.match[k]
  /\ f.tagsContain # {} => anySubstring(FlattenSeq(m.tags), f.tagsContain)
  /\ ~anySubstring(FlattenSeq(m.tags), f.tagsExclude)
  /\ f.messageContains # {} => anySubstring(m.message, f.messageContains)
  /\ f.sendResolved = "no" => AlertStatus(m) # "resolved"
-----------------------------------------------------------------------------
(* Dispatch *)

Matched(m) == {i \in outputs : Matches(cfg.outputs[i].filters, m)}

\* A loop of its own comes first: it does not matter where in the file an
\* output stands.
Routed(m) == \E i \in Matched(m) : ~cfg.outputs[i].fallback

Takers(m) == {i \in Matched(m) : ~(cfg.outputs[i].fallback /\ Routed(m))}

Throttled(i) == throttle[i].window > 0
key(i, m)    == [k \in throttle[i].key |-> getField(m, k)]
Repeat(i, m) == \E s \in sent[i] : key(i, s) = key(i, m)

\* admit: what a throttle remembers after a message it let pass.
AdmittedKept(i, m) ==   \* bug: a resolved alert returns before its key is cleared
  IF AlertStatus(m) = "resolved" THEN sent[i] ELSE sent[i] \cup {m}
Admitted(i, m) ==
  IF AlertStatus(m) = "resolved" THEN {s \in sent[i] : key(i, s) # key(i, m)}
  ELSE sent[i] \cup {m}

Dispatch(m, news) ==
  /\ phase = "running" /\ dispatched < Messages
  /\ \E full \in SUBSET {i \in outputs : throttle[i].max > 0} :
       LET held == {i \in Takers(m) : /\ Throttled(i) /\ AlertStatus(m) # "resolved"
                                      /\ Repeat(i, m) \/ i \in full}
           posted == Takers(m) \ held
           alone == {i \in outputs : \A s \in sent[i] : key(i, s) = key(i, m) => s = m}
       IN /\ sent' = [i \in outputs |-> IF Throttled(i) /\ i \in posted THEN Admitted(i, m) ELSE sent[i]]
          /\ last' = [message |-> m, news |-> news, takers |-> Takers(m), posted |-> posted,
                       alone |-> alone]
  /\ dispatched' = dispatched + 1
  /\ UNCHANGED <<cfg, phase>>
-----------------------------------------------------------------------------
(* What comes in: as omni-pitcher writes it (docs/alertmanager.md) *)

\* The tags of the endpoint, its own entry first, and the alert's labels.
Tagged(a, status) == IF a.tagged THEN << <<"status", status>> >> \o a.labels ELSE a.labels

Firing(a) ==
  [title |-> a.title, message |-> a.summary, severity |-> a.severity, system |-> a.system,
   timestamp |-> "starts", tags |-> Tagged(a, "firing")]

Resolution(a) ==
  [Firing(a) EXCEPT !.severity = "success", !.message = <<resolvedPrefix>> \o @,
                    !.timestamp = IF a.tagged THEN "ends" ELSE @,
                    !.tags = Tagged(a, "resolved")]

Pitched == Plain \cup {Firing(a) : a \in Alerts} \cup {Resolution(a) : a \in Alerts}

\* Texts as Message.tla has them: a colon belongs to the word before it, and
\* brackets are in texts only.  The rows of a card are a list.
ASSUME TextAssumption ==
  /\ \A m \in Pitched :
       /\ m.title \in Seq(STRING) /\ m.message \in Seq(STRING)
       /\ m.title # << >> => m.title[1] # ":"
       /\ m.severity \in STRING \ {"]"}
  /\ \A c \in Configs : \A i \in DOMAIN c.outputs :
       c.outputs[i].card \in Seq([title : STRING, tag : STRING, field : STRING])

Init == /\ cfg \in Configs /\ phase = "new"
        /\ sent = [i \in outputs |-> {}]
        /\ firing = {} /\ resolved = {}
        /\ last = << >> /\ dispatched = 0

LoadNotifyConfig ==
  /\ phase = "new"
  /\ phase' = IF interpolated(cfg) /\ Validate(cfg) THEN "running" ELSE "refused"
  /\ UNCHANGED <<cfg, sent, firing, resolved, last, dispatched>>

Fire(a)    == /\ a \notin firing /\ Dispatch(Firing(a), a \in resolved)
              /\ firing' = firing \cup {a} /\ UNCHANGED resolved
Resolve(a) == /\ a \in firing /\ Dispatch(Resolution(a), TRUE)
              /\ firing' = firing \ {a} /\ resolved' = resolved \cup {a}

\* Alertmanager repeats an alert that still fires; a pitcher sends anything.
FireOn(a)  == a \in firing /\ Dispatch(Firing(a), FALSE) /\ UNCHANGED <<firing, resolved>>
Pitch(m)   == Dispatch(m, FALSE) /\ UNCHANGED <<firing, resolved>>

\* roll: a key older than the window, unused since.
Forget(i, s) ==
  /\ s \in sent[i]
  /\ sent' = [sent EXCEPT ![i] = @ \ {t \in @ : key(i, t) = key(i, s)}]
  /\ UNCHANGED <<cfg, phase, firing, resolved, last, dispatched>>

Next ==
  \/ LoadNotifyConfig
  \/ \E a \in Alerts : Fire(a) \/ Resolve(a) \/ FireOn(a)
  \/ \E m \in Plain : Pitch(m)
  \/ \E i \in outputs : \E s \in sent[i] : Forget(i, s)

Spec == Init /\ [][Next]_vars
-----------------------------------------------------------------------------
(* Properties *)

Policy == [attempts : 1..MaxRetryAttempts, backoff : 0..MaxRetryBackoff]

\* Every variable has its type, and the dispatcher gets what it relies on: an
\* attempt and no wait above the cap for every output, a throttle with a
\* window has a key of known fields, and no target has an open reference.
TypeOK ==
  /\ cfg \in Configs /\ phase \in {"new", "running", "refused"}
  /\ firing \subseteq Alerts /\ resolved \subseteq Alerts
  /\ dispatched \in 0..Messages
  /\ phase = "running" => \A i \in outputs :
       /\ RetryFor(cfg, cfg.outputs[i]) \in Policy
       /\ cfg.outputs[i].target.refs \subseteq Env
       /\ \/ throttle[i] = NoThrottle
          \/ /\ throttle[i].window > 0
             /\ throttle[i].key \in (SUBSET throttleKeyFields) \ {{}}

\* Outputs whose throttle holds the message back for no cap, and no other
\* message of the same key.
Owing == {i \in last.alone : throttle[i].max = 0}

\* What omni-pitcher is relied on for: alerts that differ post different
\* messages, no other message looks like a firing alert, and a resolution
\* says that it is one.
AlertsAreDistinct ==
  /\ \A a, b \in Alerts : Firing(a) = Firing(b) => a = b
  /\ \A a \in Alerts : Firing(a) \notin Plain
  /\ \A a \in Alerts : AlertStatus(Resolution(a)) = "resolved"

\* And of a text: that it is resolved it says at its beginning, or not at all.
SaidFirst ==
  \A m \in Pitched : \A text \in {m.title, m.message} :
    \A k \in DOMAIN text : text[k] = resolvedPrefix => k = 1 /\ Len(text) > 1

\* What an output takes of an alert comes in pairs, however many firings it
\* held back in between: a resolution is posted, and the next firing too, if
\* the throttle saw the resolution under the same key.
AlertPairs ==
  last # << >> /\ last.news => \A i \in last.takers \ last.posted :
    /\ AlertStatus(last.message) # "resolved"
    /\ i \in Owing =>
         \E a \in Alerts : /\ Firing(a) = last.message
                           /\ i \notin Takers(Resolution(a)) \/ key(i, Resolution(a)) # key(i, Firing(a))

PostedKey(i, id) ==
  PostKey(cfg.outputs[i].type, last.message, id, cfg.outputs[i].card)

\* A card of which the sink reads the message's own severity, title and text.
ReadsBack(i) ==
  LET m == last.message
      rows == cfg.outputs[i].card
  IN cfg.outputs[i].type = "msteams" =>
       /\ AlertStatus(m) # "resolved"
       /\ m.severity # NoWord \/ m.title = << >> \/ m.title[1] # "["
       /\ \A j \in DOMAIN rows : rows[j].title = "Severity" => rows[j].field = "severity"

SameKey(i, j, id) == Decodes(last.message) => PostedKey(i, id) = PostedKey(j, id)

\* The sink finds the posts of one message by their keys, whether they are
\* cards of any rows or the message itself: by the objectId, and without one
\* (smoke, older catchers) as long as a card leaves severity, title and text
\* as they are.
PostsShareTheirKey ==
  last # << >> => \A i, j \in last.posted : \A id \in {NoWord, "id"} :
    id # NoWord \/ (ReadsBack(i) /\ ReadsBack(j)) => SameKey(i, j, id)

\* A card says that an alert is resolved, in green and exactly once, in the
\* preview too, whichever of title, text and tag says it; any other is red
\* exactly when severity_min: critical lets it through.
CardTellsTheAlert ==
  last # << >> => \A i \in last.posted :
    LET m == last.message
        card == buildCard(m, NoWord, cfg.outputs[i].card)
        says(text) == Cardinality({k \in DOMAIN text : text[k] = resolvedPrefix})
    IN cfg.outputs[i].type = "msteams" =>
         IF AlertStatus(m) = "resolved"
         THEN /\ card.style = "good" /\ says(card.fallbackText) = 1
              /\ IsPrefix(<<"[", "resolved", "]", resolvedPrefix>>, card.fallbackText)
         ELSE card.style = "attention" <=> severityAtLeast(m.severity, "critical")

\* docs/configuration.md:250: a resolved alert "clears its key, so the next
\* firing one goes out again".
FiringAgainGoesOut ==
  last # << >> /\ last.news /\ AlertStatus(last.message) # "resolved" =>
    last.takers \cap Owing \subseteq last.posted
=============================================================================
