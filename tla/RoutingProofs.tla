---------------------------- MODULE RoutingProofs ---------------------------
(***************************************************************************)
(* For any config files, alerts and other messages: what Validate lets     *)
(* through is what the dispatcher relies on, the posts of an alert come    *)
(* in pairs, the sink finds the posts of one message by their keys, and a  *)
(* card says what the alert is.                                            *)
(***************************************************************************)
EXTENDS Routing, FiniteSetTheorems, SequenceTheorems, WellFoundedInduction, TLAPS

\* The steps that dispatch, and the others.
LEMMA Cases ==
  ASSUME [Next]_vars
  PROVE  \/ LoadNotifyConfig
         \/ \E a \in Alerts : Fire(a) \/ Resolve(a) \/ FireOn(a)
         \/ \E m \in Plain : Pitch(m)
         \/ \E i \in outputs : \E s \in sent[i] : Forget(i, s)
         \/ UNCHANGED vars
BY DEF Next
-----------------------------------------------------------------------------
(* The policies *)

\* A retry block that was let through gives an attempt at least, and no wait
\* above the cap, with whatever the output leaves to the file's own block.
LEMMA RetryIsValid ==
  ASSUME NEW c, NEW o, validateRetry(c.retry), validateRetry(o.retry)
  PROVE  RetryFor(c, o) \in Policy
<1>1. c.retry.attempts \in 0..MaxRetryAttempts /\ o.retry.attempts \in 0..MaxRetryAttempts
  BY DEF validateRetry
<1>2. /\ c.retry.backoff \in Int => c.retry.backoff \in 0..MaxRetryBackoff
      /\ o.retry.backoff \in Int => o.retry.backoff \in 0..MaxRetryBackoff
  BY RoutingAssumption DEF RoutingAssumption, validateRetry
<1> DEFINE set == IF o.retry.attempts > 0 THEN o.retry ELSE c.retry
           dur == IF o.retry.backoff \in Int THEN o.retry.backoff ELSE c.retry.backoff
<1>3. (IF set.attempts > 0 THEN set.attempts ELSE DefaultAttempts) \in 1..MaxRetryAttempts
  <2>1. set.attempts \in 0..MaxRetryAttempts
    BY <1>1
  <2> HIDE DEF set
  <2> QED BY <2>1, RoutingAssumption DEF RoutingAssumption
<1>4. (IF dur \in Int THEN dur ELSE DefaultBackoff) \in 0..MaxRetryBackoff
  <2>1. dur \in Int => dur \in 0..MaxRetryBackoff
    BY <1>2
  <2> HIDE DEF dur
  <2> QED BY <2>1, RoutingAssumption DEF RoutingAssumption
<1>5. RetryFor(c, o) = [attempts |-> IF set.attempts > 0 THEN set.attempts ELSE DefaultAttempts,
                        backoff  |-> IF dur \in Int THEN dur ELSE DefaultBackoff]
  BY DEF RetryFor
<1> HIDE DEF set, dur
<1> QED BY <1>3, <1>4, <1>5 DEF Policy

\* A throttle that has a window has a key of known fields.
LEMMA ThrottleIsValid ==
  ASSUME NEW c, NEW o, validateThrottle(c.throttle, Unset), validateThrottle(o.throttle, c.throttle.window)
  PROVE  \/ ThrottleFor(c, o) = NoThrottle
         \/ /\ ThrottleFor(c, o).window > 0
            /\ ThrottleFor(c, o).key \in (SUBSET throttleKeyFields) \ {{}}
<1>1. c.throttle.key \subseteq throttleKeyFields /\ o.throttle.key \subseteq throttleKeyFields
  BY DEF validateThrottle
<1> DEFINE window == IF o.throttle.window \in Int THEN o.throttle.window ELSE c.throttle.window
           fields == IF o.throttle.key # {} THEN o.throttle.key ELSE c.throttle.key
           max == IF o.throttle.max > 0 THEN o.throttle.max ELSE c.throttle.max
<1>2. fields \subseteq throttleKeyFields
  BY <1>1
<1>3. ThrottleFor(c, o) = IF window \notin Int \/ window <= 0 THEN NoThrottle
                          ELSE [key |-> IF fields # {} THEN fields ELSE DefaultThrottleKey,
                                window |-> window, max |-> max]
  BY DEF ThrottleFor
<1> HIDE DEF window, fields, max
<1>4. (IF fields # {} THEN fields ELSE DefaultThrottleKey) \in (SUBSET throttleKeyFields) \ {{}}
  <2>1. DefaultThrottleKey \in (SUBSET throttleKeyFields) \ {{}}
    BY RoutingAssumption DEF RoutingAssumption
  <2>2. CASE fields = {}
    BY <2>1, <2>2
  <2>3. CASE fields # {}
    BY <1>2, <2>3
  <2> QED BY <2>2, <2>3
<1>5. CASE window \notin Int \/ window <= 0
  BY <1>3, <1>5
<1>6. CASE window \in Int /\ ~(window <= 0)
  BY <1>3, <1>4, <1>6
<1> QED BY <1>5, <1>6

\* What runs was let through.
LoadedInv == phase = "running" => interpolated(cfg) /\ Validate(cfg)

Loads == TypeOK /\ LoadedInv

\* A config that was let through.
LEMMA ValidConfig ==
  ASSUME interpolated(cfg), Validate(cfg), NEW i \in outputs
  PROVE  /\ RetryFor(cfg, cfg.outputs[i]) \in Policy
         /\ cfg.outputs[i].target.refs \subseteq Env
         /\ \/ throttle[i] = NoThrottle
            \/ /\ throttle[i].window > 0
               /\ throttle[i].key \in (SUBSET throttleKeyFields) \ {{}}
<1>1. /\ validateRetry(cfg.retry) /\ validateRetry(cfg.outputs[i].retry)
      /\ validateThrottle(cfg.throttle, Unset)
      /\ validateThrottle(cfg.outputs[i].throttle, cfg.throttle.window)
  BY DEF Validate, outputs
<1>2. cfg.outputs[i].target.refs \subseteq Env
  BY DEF interpolated, outputs
<1>3. throttle[i] = ThrottleFor(cfg, cfg.outputs[i])
  BY DEF throttle
<1> QED BY <1>1, <1>2, <1>3, RetryIsValid, ThrottleIsValid

\* A dispatch changes neither the config nor what runs.
LEMMA DispatchTypes ==
  ASSUME Loads, NEW m, NEW news, Dispatch(m, news)
  PROVE  UNCHANGED <<cfg, phase>> /\ dispatched' \in 0..Messages
BY RoutingAssumption DEF RoutingAssumption, Loads, TypeOK, Dispatch

\* Every step keeps the types, and the policies with them.
LEMMA LoadsStep == Loads /\ [Next]_vars => Loads'
<1> SUFFICES ASSUME Loads, [Next]_vars PROVE Loads'
  OBVIOUS
<1>1. /\ cfg' = cfg
      /\ phase' \in {"new", "running", "refused"}
      /\ dispatched' \in 0..Messages
      /\ firing' \subseteq Alerts /\ resolved' \subseteq Alerts
      /\ phase' = "running" => interpolated(cfg) /\ Validate(cfg)
  <2>1. CASE LoadNotifyConfig
    BY <2>1 DEF LoadNotifyConfig, Loads, TypeOK
  <2>2. ASSUME NEW a \in Alerts, Fire(a) \/ Resolve(a) \/ FireOn(a)
        PROVE  /\ UNCHANGED <<cfg, phase>> /\ dispatched' \in 0..Messages
               /\ firing' \subseteq Alerts /\ resolved' \subseteq Alerts
    BY <2>2, DispatchTypes DEF Fire, Resolve, FireOn, Loads, TypeOK
  <2>3. ASSUME NEW m \in Plain, Pitch(m)
        PROVE  UNCHANGED <<cfg, phase, firing, resolved>> /\ dispatched' \in 0..Messages
    BY <2>3, DispatchTypes DEF Pitch
  <2>4. ASSUME NEW i \in outputs, NEW s \in sent[i], Forget(i, s)
        PROVE  UNCHANGED <<cfg, phase, firing, resolved, dispatched>>
    BY <2>4 DEF Forget
  <2>5. CASE UNCHANGED vars
    BY <2>5 DEF vars, Loads, TypeOK, LoadedInv
  <2> QED BY <2>1, <2>2, <2>3, <2>4, <2>5, Cases DEF Loads, TypeOK, LoadedInv
<1>2. LoadedInv'
  BY <1>1 DEF LoadedInv
<1>3. outputs' = outputs /\ throttle' = throttle
  BY <1>1 DEF outputs, throttle
<1>4. ASSUME phase' = "running", NEW i \in outputs
      PROVE  /\ RetryFor(cfg, cfg.outputs[i]) \in Policy
             /\ cfg.outputs[i].target.refs \subseteq Env
             /\ \/ throttle[i] = NoThrottle
                \/ /\ throttle[i].window > 0
                   /\ throttle[i].key \in (SUBSET throttleKeyFields) \ {{}}
  BY <1>1, <1>4, ValidConfig
<1>5. cfg \in Configs
  BY DEF Loads, TypeOK
<1> QED BY <1>1, <1>2, <1>3, <1>4, <1>5 DEF Loads, TypeOK

\* Every output of a config that runs has an attempt, no wait above the cap,
\* and a key for its throttle.
THEOREM TypeCorrect == Spec => []TypeOK
<1>1. Init => Loads
  BY RoutingAssumption DEF RoutingAssumption, Init, Loads, TypeOK, LoadedInv
<1>2. Loads => TypeOK
  BY DEF Loads
<1> QED BY LoadsStep, <1>1, <1>2, PTL DEF Spec
-----------------------------------------------------------------------------
(* The alerts *)

\* Output i takes the alert's resolution, and knows it by the firing's key.
Clears(i, a) ==
  /\ Throttled(i) /\ i \in Takers(Resolution(a))
  /\ key(i, Resolution(a)) = key(i, Firing(a))

\* What a throttle has of an alert that resolved: nothing, if it could clear it.
ClearedInv ==
  /\ sent = [i \in outputs |-> sent[i]]
  /\ \A a \in resolved \ firing : \A i \in outputs : Clears(i, a) => Firing(a) \notin sent[i]

Paired == TypeOK /\ ClearedInv /\ AlertPairs

\* What stays as long as the config does.
LEMMA SameConfig ==
  ASSUME cfg' = cfg
  PROVE  /\ outputs' = outputs /\ throttle' = throttle
         /\ \A i, m : Throttled(i)' = Throttled(i) /\ key(i, m)' = key(i, m)
         /\ \A m : Takers(m)' = Takers(m)
         /\ \A i, a : Clears(i, a)' = Clears(i, a)
<1>1. outputs' = outputs /\ throttle' = throttle
  BY DEF outputs, throttle
<1>2. \A i, m : Throttled(i)' = Throttled(i) /\ key(i, m)' = key(i, m)
  BY <1>1 DEF Throttled, key
<1>3. \A m : Matched(m)' = Matched(m)
  BY <1>1 DEF Matched
<1>4. \A m : Routed(m)' = Routed(m)
  BY <1>3 DEF Routed
<1>5. \A m : Takers(m)' = Takers(m)
  BY <1>3, <1>4 DEF Takers
<1> QED BY <1>1, <1>2, <1>5 DEF Clears

\* What a dispatch remembers of it: the message at most, and of a
\* resolution nothing, but it clears its key in every throttle it passes.
LEMMA DispatchRemembers ==
  ASSUME NEW m, NEW news, Dispatch(m, news)
  PROVE  /\ cfg' = cfg
         /\ sent' = [i \in outputs |-> sent'[i]]
         /\ \A i \in outputs : sent'[i] \subseteq sent[i] \cup {m}
         /\ AlertStatus(m) = "resolved" =>
              \A i \in outputs :
                /\ sent'[i] \subseteq sent[i]
                /\ i \in Takers(m) /\ Throttled(i) => \A s \in sent'[i] : key(i, s) # key(i, m)
<1>1. PICK full \in SUBSET {i \in outputs : throttle[i].max > 0} :
        LET held == {i \in Takers(m) : /\ Throttled(i) /\ AlertStatus(m) # "resolved"
                                       /\ Repeat(i, m) \/ i \in full}
            posted == Takers(m) \ held
        IN sent' = [i \in outputs |-> IF Throttled(i) /\ i \in posted THEN Admitted(i, m) ELSE sent[i]]
  BY DEF Dispatch
<1> DEFINE held == {i \in Takers(m) : /\ Throttled(i) /\ AlertStatus(m) # "resolved"
                                      /\ Repeat(i, m) \/ i \in full}
<1>2. \A i \in outputs :
        sent'[i] = IF Throttled(i) /\ i \in Takers(m) \ held THEN Admitted(i, m) ELSE sent[i]
  BY <1>1
<1>3. AlertStatus(m) = "resolved" => held = {}
  OBVIOUS
<1>4. \A i : Admitted(i, m) \subseteq sent[i] \cup {m}
  BY DEF Admitted
<1>5. AlertStatus(m) = "resolved" => \A i : Admitted(i, m) = {s \in sent[i] : key(i, s) # key(i, m)}
  BY DEF Admitted
<1>6. sent' = [i \in outputs |-> sent'[i]]
  BY <1>1, <1>2
<1>7. cfg' = cfg
  BY DEF Dispatch
<1> HIDE DEF held
<1> QED BY <1>2, <1>3, <1>4, <1>5, <1>6, <1>7

\* What a dispatch holds back of its takers is no resolution, and a repeat
\* wherever no cap is set.
LEMMA DispatchHolds ==
  ASSUME NEW m, NEW news, Dispatch(m, news), NEW i \in last'.takers \ last'.posted
  PROVE  /\ last'.message = m /\ last'.news = news
         /\ i \in outputs /\ Throttled(i) /\ AlertStatus(m) # "resolved"
         /\ ~(throttle[i].max > 0) /\ i \in last'.alone => m \in sent[i]
<1>1. PICK full \in SUBSET {j \in outputs : throttle[j].max > 0} :
        LET held == {j \in Takers(m) : /\ Throttled(j) /\ AlertStatus(m) # "resolved"
                                       /\ Repeat(j, m) \/ j \in full}
            posted == Takers(m) \ held
            alone == {j \in outputs : \A s \in sent[j] : key(j, s) = key(j, m) => s = m}
        IN last' = [message |-> m, news |-> news, takers |-> Takers(m), posted |-> posted,
                     alone |-> alone]
  BY DEF Dispatch
<1> DEFINE held == {j \in Takers(m) : /\ Throttled(j) /\ AlertStatus(m) # "resolved"
                                      /\ Repeat(j, m) \/ j \in full}
           alone == {j \in outputs : \A s \in sent[j] : key(j, s) = key(j, m) => s = m}
<1>2. /\ last'.message = m /\ last'.news = news /\ last'.alone = alone
      /\ last'.takers = Takers(m) /\ last'.posted = Takers(m) \ held
  BY <1>1
<1>3. i \in held /\ i \in Takers(m)
  BY <1>2
<1>4. i \in outputs
  BY <1>3 DEF Takers, Matched
<1>5. ~(throttle[i].max > 0) => i \notin full
  OBVIOUS
<1>6. i \in held => Throttled(i) /\ AlertStatus(m) # "resolved" /\ (Repeat(i, m) \/ i \in full)
  OBVIOUS
<1>7. Repeat(i, m) /\ i \in alone => m \in sent[i]
  BY DEF Repeat
<1> HIDE DEF held, alone
<1> QED BY <1>2, <1>3, <1>4, <1>5, <1>6, <1>7

\* A step that dispatches what is no news owes nothing.
LEMMA NoNews ==
  ASSUME NEW m, Dispatch(m, FALSE)
  PROVE  AlertPairs'
<1>1. last'.news = FALSE
  BY DEF Dispatch
<1> QED BY <1>1 DEF AlertPairs

LEMMA PairedStep == AlertsAreDistinct /\ Paired /\ TypeOK' /\ [Next]_vars => Paired'
<1> SUFFICES ASSUME AlertsAreDistinct, Paired, TypeOK', [Next]_vars PROVE ClearedInv' /\ AlertPairs'
  BY DEF Paired
<1> USE DEF Paired
\* Alerts that differ from the message leave ClearedInv alone.
<1>1. ASSUME NEW m, NEW news, Dispatch(m, news),
             resolved' \ firing' \subseteq resolved \ firing,
             \A a \in resolved' \ firing' : Firing(a) # m
      PROVE  ClearedInv'
  <2>1. cfg' = cfg /\ sent' = [i \in outputs |-> sent'[i]]
        /\ \A i \in outputs : sent'[i] \subseteq sent[i] \cup {m}
    BY <1>1, DispatchRemembers
  <2>2. outputs' = outputs /\ \A i, a : Clears(i, a)' = Clears(i, a)
    BY <2>1, SameConfig
  <2>3. ASSUME NEW a \in resolved' \ firing', NEW i \in outputs, Clears(i, a)
        PROVE  Firing(a) \notin sent'[i]
    <3>1. Firing(a) \notin sent[i]
      BY <1>1, <2>3 DEF ClearedInv
    <3>2. Firing(a) # m
      BY <1>1
    <3> QED BY <2>1, <3>1, <3>2
  <2> QED BY <2>1, <2>2, <2>3 DEF ClearedInv
<1>2. ASSUME NEW a \in Alerts, Fire(a) PROVE ClearedInv' /\ AlertPairs'
  <2>1. Dispatch(Firing(a), a \in resolved) /\ firing' = firing \cup {a} /\ resolved' = resolved
        /\ a \notin firing
    BY <1>2 DEF Fire
  <2>2. \A b \in resolved' \ firing' : Firing(b) # Firing(a)
    BY <2>1 DEF AlertsAreDistinct, TypeOK
  <2>3. ClearedInv'
    BY <1>1, <2>1, <2>2
  <2>4. cfg' = cfg
    BY <2>1, DispatchRemembers
  <2>5. ASSUME last'.news, NEW i \in last'.takers \ last'.posted
        PROVE  /\ AlertStatus(last'.message) # "resolved"
               /\ i \in Owing' => 
                    \E b \in Alerts :
                      /\ Firing(b) = last'.message
                      /\ i \notin Takers(Resolution(b)) \/ key(i, Resolution(b)) # key(i, Firing(b))
    <3>1. /\ last'.message = Firing(a) /\ last'.news = (a \in resolved)
          /\ i \in outputs /\ Throttled(i) /\ AlertStatus(Firing(a)) # "resolved"
          /\ ~(throttle[i].max > 0) /\ i \in last'.alone => Firing(a) \in sent[i]
      BY <2>1, DispatchHolds
    <3>2. ASSUME i \in Owing'
          PROVE  i \notin Takers(Resolution(a)) \/ key(i, Resolution(a)) # key(i, Firing(a))
      <4>1. i \in last'.alone /\ throttle'[i].max = 0 /\ throttle' = throttle
        BY <3>2, <2>4, SameConfig DEF Owing
      <4>2. ~(throttle[i].max > 0)
        BY <4>1
      <4>3. Firing(a) \in sent[i]
        BY <3>1, <4>1, <4>2
      <4>4. a \in resolved \ firing
        BY <2>1, <2>5, <3>1
      <4>5. ~Clears(i, a)
        BY <3>1, <4>3, <4>4 DEF ClearedInv
      <4> QED BY <3>1, <4>5 DEF Clears
    <3> QED BY <3>1, <3>2
  <2>6. \A m : Takers(m)' = Takers(m) /\ \A i : key(i, m)' = key(i, m)
    BY <2>4, SameConfig
  <2>7. AlertPairs'
    BY <2>5, <2>6 DEF AlertPairs
  <2> QED BY <2>3, <2>7
<1>3. ASSUME NEW a \in Alerts, Resolve(a) PROVE ClearedInv' /\ AlertPairs'
  <2>1. Dispatch(Resolution(a), TRUE) /\ firing' = firing \ {a} /\ resolved' = resolved \cup {a}
    BY <1>3 DEF Resolve
  <2>2. AlertStatus(Resolution(a)) = "resolved"
    BY DEF AlertsAreDistinct
  <2>3. /\ cfg' = cfg /\ sent' = [i \in outputs |-> sent'[i]]
        /\ \A i \in outputs :
             /\ sent'[i] \subseteq sent[i]
             /\ i \in Takers(Resolution(a)) /\ Throttled(i) =>
                  \A s \in sent'[i] : key(i, s) # key(i, Resolution(a))
    BY <2>1, <2>2, DispatchRemembers
  <2>4. outputs' = outputs /\ \A i, b : Clears(i, b)' = Clears(i, b)
    BY <2>3, SameConfig
  <2>5. ASSUME NEW b \in resolved' \ firing', NEW i \in outputs, Clears(i, b)
        PROVE  Firing(b) \notin sent'[i]
    <3>1. CASE b = a
      BY <2>3, <2>5, <3>1 DEF Clears
    <3>2. CASE b # a
      <4>1. b \in resolved \ firing
        BY <2>1, <3>2
      <4> QED BY <2>3, <2>5, <4>1 DEF ClearedInv
    <3> QED BY <3>1, <3>2
  <2>6. ClearedInv'
    BY <2>3, <2>4, <2>5 DEF ClearedInv
  <2>7. ASSUME NEW i \in last'.takers \ last'.posted PROVE FALSE
    BY <2>1, <2>2, DispatchHolds
  <2>8. AlertPairs'
    BY <2>7 DEF AlertPairs
  <2> QED BY <2>6, <2>8
<1>4. ASSUME NEW a \in Alerts, FireOn(a) PROVE ClearedInv' /\ AlertPairs'
  <2>1. a \in firing /\ Dispatch(Firing(a), FALSE) /\ UNCHANGED <<firing, resolved>>
    BY <1>4 DEF FireOn
  <2>2. \A b \in resolved' \ firing' : Firing(b) # Firing(a)
    BY <2>1 DEF AlertsAreDistinct, TypeOK
  <2> QED BY <1>1, <2>1, <2>2, NoNews
<1>5. ASSUME NEW m \in Plain, Pitch(m) PROVE ClearedInv' /\ AlertPairs'
  <2>1. Dispatch(m, FALSE) /\ UNCHANGED <<firing, resolved>>
    BY <1>5 DEF Pitch
  <2>2. \A b \in resolved' \ firing' : Firing(b) # m
    BY <2>1 DEF AlertsAreDistinct, TypeOK
  <2> QED BY <1>1, <2>1, <2>2, NoNews
\* The steps that dispatch nothing.
<1>6. ASSUME cfg' = cfg, UNCHANGED <<firing, resolved, last>>,
             sent' = [i \in outputs |-> sent'[i]],
             \A i \in outputs : sent'[i] \subseteq sent[i]
      PROVE  ClearedInv' /\ AlertPairs'
  <2>1. /\ outputs' = outputs /\ throttle' = throttle
        /\ \A i, a : Clears(i, a)' = Clears(i, a)
        /\ \A i, m : key(i, m)' = key(i, m)
        /\ \A m : Takers(m)' = Takers(m)
    BY <1>6, SameConfig
  <2>2. ClearedInv'
    BY <1>6, <2>1 DEF ClearedInv
  <2>3. Owing' = Owing
    BY <1>6, <2>1 DEF Owing
  <2>4. AlertPairs'
    BY <1>6, <2>1, <2>3 DEF AlertPairs
  <2> QED BY <2>2, <2>4
<1>7. ASSUME NEW i \in outputs, NEW s \in sent[i], Forget(i, s) PROVE ClearedInv' /\ AlertPairs'
  <2>1. /\ cfg' = cfg /\ UNCHANGED <<firing, resolved, last>>
        /\ sent' = [sent EXCEPT ![i] = @ \ {t \in @ : key(i, t) = key(i, s)}]
    BY <1>7 DEF Forget
  <2>2. /\ sent' = [j \in outputs |-> sent'[j]]
        /\ \A j \in outputs : sent'[j] \subseteq sent[j]
    BY <2>1 DEF ClearedInv
  <2> QED BY <1>6, <2>1, <2>2
<1>8. CASE LoadNotifyConfig
  <2>1. cfg' = cfg /\ UNCHANGED <<firing, resolved, last, sent>>
    BY <1>8 DEF LoadNotifyConfig
  <2>2. sent' = [j \in outputs |-> sent'[j]] /\ \A j \in outputs : sent'[j] \subseteq sent[j]
    BY <2>1 DEF ClearedInv
  <2> QED BY <1>6, <2>1, <2>2
<1>9. CASE UNCHANGED vars
  <2>1. cfg' = cfg /\ UNCHANGED <<firing, resolved, last, sent>>
    BY <1>9 DEF vars
  <2>2. sent' = [j \in outputs |-> sent'[j]] /\ \A j \in outputs : sent'[j] \subseteq sent[j]
    BY <2>1 DEF ClearedInv
  <2> QED BY <1>6, <2>1, <2>2
<1> QED BY <1>2, <1>3, <1>4, <1>5, <1>7, <1>8, <1>9, Cases

\* The posts of an alert come in pairs, for alerts that can be told apart.
THEOREM PairsHold ==
  ASSUME AlertsAreDistinct
  PROVE  Spec => []AlertPairs
<1>1. Init => ClearedInv /\ AlertPairs
  BY DEF Init, ClearedInv, AlertPairs
<1>2. TypeOK /\ ClearedInv /\ AlertPairs => Paired
  BY DEF Paired
<1>3. Paired /\ TypeOK' /\ [Next]_vars => Paired'
  BY PairedStep
<1>4. Paired => AlertPairs
  BY DEF Paired
<1> QED BY <1>1, <1>2, <1>3, <1>4, TypeCorrect, PTL DEF Spec
-----------------------------------------------------------------------------
(* The history *)

\* What was dispatched last came in, and was posted by outputs of a config that
\* was let through.
PostedInv ==
  last # << >> => phase = "running" /\ last.message \in Pitched /\ last.posted \subseteq outputs

\* Every step keeps it.
LEMMA PostedStep == PostedInv /\ [Next]_vars => PostedInv'
<1> SUFFICES ASSUME PostedInv, [Next]_vars PROVE PostedInv'
  OBVIOUS
<1>1. ASSUME NEW m \in Pitched, NEW news, Dispatch(m, news) PROVE PostedInv'
  <2>1. cfg' = cfg /\ phase' = "running" /\ phase = "running" /\ last'.message = m
    BY <1>1 DEF Dispatch
  <2>2. last'.posted \subseteq Takers(m)
    BY <1>1 DEF Dispatch
  <2>3. Takers(m) \subseteq outputs /\ outputs' = outputs
    BY <2>1 DEF Takers, Matched, outputs
  <2> QED BY <2>1, <2>2, <2>3 DEF PostedInv
<1>2. ASSUME cfg' = cfg, last' = last, phase' = phase \/ phase = "new" PROVE PostedInv'
  BY <1>2 DEF PostedInv, outputs
<1>3. ASSUME NEW a \in Alerts, Fire(a) \/ Resolve(a) \/ FireOn(a) PROVE PostedInv'
  <2>1. Firing(a) \in Pitched /\ Resolution(a) \in Pitched
    BY DEF Pitched
  <2> QED BY <1>1, <1>3, <2>1 DEF Fire, Resolve, FireOn
<1>4. ASSUME NEW m \in Plain, Pitch(m) PROVE PostedInv'
  BY <1>1, <1>4 DEF Pitch, Pitched
<1>5. ASSUME NEW i \in outputs, NEW s \in sent[i], Forget(i, s) PROVE PostedInv'
  BY <1>2, <1>5 DEF Forget
<1>6. CASE LoadNotifyConfig
  BY <1>2, <1>6 DEF LoadNotifyConfig
<1>7. CASE UNCHANGED vars
  BY <1>2, <1>7 DEF vars
<1> QED BY <1>3, <1>4, <1>5, <1>6, <1>7, Cases
-----------------------------------------------------------------------------
(* What the sink reads of a card *)

\* A set of numbers has a least one: the initial segments are well-founded.
LEMMA LeastNumber ==
  ASSUME NEW S \in SUBSET Nat, S # {}
  PROVE  \E n \in S : \A m \in S : n <= m
<1> DEFINE T == {0..n : n \in S}
           R == StrictSubsetOrdering(Nat)
<1>1. IsWellFoundedOn(R, FiniteSubsetsOf(Nat))
  BY FS_StrictSubsetOrderingWellFounded
<1>2. T \subseteq FiniteSubsetsOf(Nat) /\ T # {}
  <2>1. \A n \in S : 0..n \in SUBSET Nat /\ IsFiniteSet(0..n)
    BY FS_Interval
  <2> QED BY <2>1 DEF FiniteSubsetsOf
<1> HIDE DEF R
<1>3. PICK x \in T : \A y \in T : ~(<<y, x>> \in R)
  BY <1>1, <1>2, WFMin
<1>4. PICK n \in S : x = 0..n
  OBVIOUS
<1>5. ASSUME NEW m \in S, m < n PROVE FALSE
  <2>1. n \in 0..n /\ n \notin 0..m /\ (0..m) \subseteq (0..n)
    BY <1>5
  <2>2. <<0..m, 0..n>> \in R
    BY <2>1 DEF R, StrictSubsetOrdering
  <2> QED BY <1>3, <1>4, <2>2
<1>6. \A m \in S : ~(m < n) /\ m \in Nat /\ n \in Nat
  BY <1>5
<1> QED BY <1>6

\* And a bounded one has a greatest.
LEMMA GreatestNumber ==
  ASSUME NEW n \in Nat, NEW S \in SUBSET (1..n), S # {}
  PROVE  \E m \in S : \A k \in S : k <= m
<1> DEFINE B == {b \in 1..n : \A k \in S : k <= b}
<1>1. B \in SUBSET Nat /\ B # {}
  <2>1. PICK s \in S : TRUE
    OBVIOUS
  <2>2. n \in B
    BY <2>1
  <2> QED BY <2>2
<1>2. PICK b \in B : \A c \in B : b <= c
  BY <1>1, LeastNumber
<1>3. ASSUME b \notin S PROVE FALSE
  <2>1. \A k \in S : k < b
    BY <1>2, <1>3
  <2>2. PICK s \in S : TRUE
    OBVIOUS
  <2>3. b - 1 \in B
    BY <2>1, <2>2
  <2> QED BY <1>2, <2>3
<1> QED BY <1>2, <1>3

\* If every row of the title has the same value, that is the one the sink
\* finds, or it finds none.
LEMMA FactIsThere ==
  ASSUME NEW n \in Nat, NEW facts, DOMAIN facts = 1..n, NEW title, NEW v,
         \A j \in 1..n : facts[j].title = title => facts[j].value = v
  PROVE  factValue(Filled(facts), title) \in {<< >>, v}
<1> DEFINE kept == Filled(facts)
           at == {i \in DOMAIN kept : kept[i].title = title}
<1>1. /\ DOMAIN kept \subseteq 1..n
      /\ \A i \in DOMAIN kept : kept[i] = facts[i]
  BY DEF Filled
<1>2. CASE at = {}
  BY <1>2 DEF factValue
<1>3. CASE at # {}
  <2>1. at \in SUBSET (1..n)
    BY <1>1
  <2> HIDE DEF kept
  <2>2. \E m \in at : \A k \in at : m >= k
    <3>1. \E m \in at : \A k \in at : k <= m
      <4> HIDE DEF at
      <4> QED BY <1>3, <2>1, GreatestNumber
    <3>2. \A m, k \in at : k <= m => m >= k
      BY <2>1
    <3> QED BY <3>1, <3>2
  <2>3. Max(at) \in at
    <3> HIDE DEF at
    <3> QED BY <2>2 DEF Max
  <2>4. kept[Max(at)].value = v
    BY <1>1, <2>1, <2>3
  <2>5. factValue(kept, title) = kept[Max(at)].value
    BY <1>3 DEF factValue
  <2> QED BY <2>4, <2>5 DEF kept
<1> QED BY <1>2, <1>3

\* The words of texts and those the catcher adds, of which the provers do not
\* know that they are strings.
Word == STRING \cup {"[", "]", ":", "resolved", resolvedPrefix, "notification"}

\* What is a word, and lists of them.
LEMMA Wording ==
  /\ \A w \in {"[", "]", ":", "resolved", resolvedPrefix, "notification"} : w \in Word
  /\ \A w \in STRING : w \in Word
  /\ \A t \in Seq(STRING) : t \in Seq(Word)
BY DEF Word

\* Short lists.
LEMMA ShortLists ==
  ASSUME NEW S, NEW x \in S, NEW y \in S, NEW z \in S
  PROVE  /\ << >> \in Seq(S) /\ <<x>> \in Seq(S) /\ <<x, y, z>> \in Seq(S)
         /\ Len(<<x>>) = 1 /\ <<x>>[1] = x
         /\ Len(<<x, y, z>>) = 3
         /\ <<x, y, z>>[1] = x /\ <<x, y, z>>[2] = y /\ <<x, y, z>>[3] = z
OBVIOUS

\* A preview with a label: the label in brackets, the title, and behind it at
\* most a colon and the words of the body.
LEMMA PreviewIs ==
  ASSUME NEW label \in Word, label # NoWord, NEW title \in Seq(Word), NEW body \in Seq(Word)
  PROVE  LET text == buildFallbackText(label, title, body)
         IN /\ text \in Seq(Word) /\ Len(text) \in Nat /\ Len(text) >= 3 + Len(title)
            /\ text[1] = "[" /\ text[2] = label /\ text[3] = "]"
            /\ \A i \in 1..Len(title) : text[3 + i] = title[i]
            /\ \A i \in (4 + Len(title))..Len(text) :
                 /\ body # title
                 /\ text[i] = ":" \/ \E j \in 1..Len(body) : text[i] = body[j]
<1> DEFINE rest == IF body = title THEN << >> ELSE <<":">> \o body
           tag  == <<"[", label, "]">>
           open == tag \o title
           text == buildFallbackText(label, title, body)
<1>1. text = open \o rest
  BY DEF buildFallbackText
<1>2. tag \in Seq(Word) /\ Len(tag) = 3 /\ tag[1] = "[" /\ tag[2] = label /\ tag[3] = "]"
  BY Wording, ShortLists
<1>3. Len(title) \in Nat /\ Len(body) \in Nat
  OBVIOUS
<1>4. rest \in Seq(Word) /\ Len(rest) \in Nat
  <2>1. <<":">> \in Seq(Word) /\ << >> \in Seq(Word)
    BY Wording, ShortLists
  <2>2. <<":">> \o body \in Seq(Word)
    BY <2>1, ConcatProperties
  <2>3. rest \in Seq(Word)
    BY <2>1, <2>2
  <2> HIDE DEF rest
  <2> QED BY <2>3
<1>5. \A i \in 1..Len(rest) :
        body # title /\ (rest[i] = ":" \/ \E j \in 1..Len(body) : rest[i] = body[j])
  <2>1. CASE body = title
    <3>1. Len(rest) = 0
      BY <2>1
    <3> HIDE DEF rest
    <3> QED BY <3>1
  <2>2. CASE body # title
    <3> DEFINE colon == <<":">>
    <3>1. colon \in Seq(Word) /\ Len(colon) = 1 /\ colon[1] = ":"
      BY Wording, ShortLists
    <3>2. rest = colon \o body
      BY <2>2
    <3> HIDE DEF rest, colon
    <3>3. /\ Len(rest) = 1 + Len(body)
          /\ \A i \in 1..(1 + Len(body)) : rest[i] = IF i <= 1 THEN colon[i] ELSE body[i - 1]
      <4>1. /\ Len(rest) = Len(colon) + Len(body)
            /\ \A i \in 1..(Len(colon) + Len(body)) :
                 rest[i] = IF i <= Len(colon) THEN colon[i] ELSE body[i - Len(colon)]
        BY <3>1, <3>2, ConcatProperties
      <4> QED BY <3>1, <4>1
    <3>4. ASSUME NEW i \in 1..Len(rest)
          PROVE  rest[i] = ":" \/ \E j \in 1..Len(body) : rest[i] = body[j]
      <4>1. CASE i = 1
        BY <1>3, <3>1, <3>3, <4>1
      <4>2. CASE i # 1
        <5>1. i - 1 \in 1..Len(body) /\ rest[i] = body[i - 1]
          BY <1>3, <3>3, <4>2
        <5> QED BY <5>1
      <4> QED BY <4>1, <4>2
    <3> QED BY <2>2, <3>4
  <2> QED BY <2>1, <2>2
<1> HIDE DEF rest, tag, text
<1>6. /\ open \in Seq(Word) /\ Len(open) = 3 + Len(title)
      /\ \A i \in 1..(3 + Len(title)) : open[i] = IF i <= 3 THEN tag[i] ELSE title[i - 3]
  <2>1. /\ open \in Seq(Word) /\ Len(open) = Len(tag) + Len(title)
        /\ \A i \in 1..(Len(tag) + Len(title)) :
             open[i] = IF i <= Len(tag) THEN tag[i] ELSE title[i - Len(tag)]
    BY <1>2, ConcatProperties
  <2> QED BY <1>2, <2>1
<1> HIDE DEF open
<1>7. /\ text \in Seq(Word) /\ Len(text) = 3 + Len(title) + Len(rest)
      /\ \A i \in 1..(3 + Len(title) + Len(rest)) :
           text[i] = IF i <= 3 + Len(title) THEN open[i] ELSE rest[i - (3 + Len(title))]
  <2>1. /\ text \in Seq(Word) /\ Len(text) = Len(open) + Len(rest)
        /\ \A i \in 1..(Len(open) + Len(rest)) :
             text[i] = IF i <= Len(open) THEN open[i] ELSE rest[i - Len(open)]
    BY <1>1, <1>4, <1>6, ConcatProperties
  <2> QED BY <1>6, <2>1
<1>8. text[1] = "[" /\ text[2] = label /\ text[3] = "]"
  BY <1>2, <1>3, <1>4, <1>6, <1>7
<1>9. ASSUME NEW i \in 1..Len(title) PROVE text[3 + i] = title[i]
  <2>1. text[3 + i] = open[3 + i]
    BY <1>3, <1>4, <1>7
  <2>2. open[3 + i] = title[(3 + i) - 3]
    BY <1>3, <1>6
  <2>3. (3 + i) - 3 = i
    BY <1>3
  <2> QED BY <2>1, <2>2, <2>3
<1>10. ASSUME NEW i \in (4 + Len(title))..Len(text)
       PROVE  /\ body # title
              /\ text[i] = ":" \/ \E j \in 1..Len(body) : text[i] = body[j]
  <2>1. i - (3 + Len(title)) \in 1..Len(rest) /\ text[i] = rest[i - (3 + Len(title))]
    BY <1>3, <1>4, <1>7
  <2> QED BY <1>5, <2>1
<1>11. Len(text) \in Nat /\ Len(text) >= 3 + Len(title)
  BY <1>3, <1>4, <1>7
<1> QED BY <1>7, <1>8, <1>9, <1>10, <1>11 DEF text

\* The severity of a preview, if the title cannot be taken for one.
LEMMA PrefixIsLabel ==
  ASSUME NEW label \in Word, label # "]", NEW title \in Seq(Word), NEW body \in Seq(Word),
         title # << >>, title[1] # ":", label # NoWord \/ title[1] # "["
  PROVE  SeverityPrefix(buildFallbackText(label, title, body)) = Words(label)
<1> DEFINE text == buildFallbackText(label, title, body)
<1>1. Len(title) \in Nat /\ Len(title) >= 1 /\ title[1] \in Word
  <2>1. Len(title) \in Nat \ {0}
    BY EmptySeq
  <2> QED BY <2>1
<1>2. CASE label = NoWord
  <2> DEFINE rest == IF body = title THEN << >> ELSE <<":">> \o body
             open == << >> \o title
  <2>1. open \in Seq(Word) /\ open = title
    BY ConcatEmptySeq
  <2>2. text = open \o rest
    BY <1>2 DEF buildFallbackText
  <2>3. rest \in Seq(Word) /\ Len(rest) \in Nat
    <3>1. <<":">> \in Seq(Word) /\ << >> \in Seq(Word)
      BY Wording, ShortLists
    <3>2. <<":">> \o body \in Seq(Word)
      BY <3>1, ConcatProperties
    <3>3. rest \in Seq(Word)
      BY <3>1, <3>2
    <3> HIDE DEF rest
    <3> QED BY <3>3
  <2> HIDE DEF rest, text, open
  <2>4. /\ Len(text) = Len(title) + Len(rest) /\ text \in Seq(Word)
        /\ \A i \in 1..(Len(title) + Len(rest)) : text[i] = IF i <= Len(title) THEN title[i] ELSE rest[i - Len(title)]
    BY <2>1, <2>2, <2>3, ConcatProperties
  <2>5. text[1] = title[1]
    BY <1>1, <2>3, <2>4
  <2>6. SeverityPrefix(text) = << >>
    BY <1>2, <2>5 DEF SeverityPrefix
  <2> QED BY <1>2, <2>6 DEF Words, text
<1>3. CASE label # NoWord
  <2> DEFINE ends == {i \in 2..Len(text)-1 : text[i] = "]" /\ text[i+1] # ":"}
  <2>1. /\ text \in Seq(Word) /\ Len(text) \in Nat /\ Len(text) >= 3 + Len(title)
        /\ text[1] = "[" /\ text[2] = label /\ text[3] = "]"
        /\ \A i \in 1..Len(title) : text[3 + i] = title[i]
    BY <1>3, PreviewIs
  <2> HIDE DEF text
  <2>2. text[3 + 1] = title[1] /\ Len(text) >= 4
    BY <1>1, <2>1
  <2>3. 3 \in ends
    BY <2>1, <2>2
  <2>4. \A y \in ends : y \in 2..Len(text)-1 /\ text[y] = "]"
    OBVIOUS
  <2> HIDE DEF ends
  <2>5. \A y \in ends : y \in Int /\ 3 <= y
    BY <2>1, <2>4
  <2>6. Min(ends) = 3
    BY <2>3, <2>5 DEF Min
  <2>7. text # << >>
    BY <2>1, <2>2
  <2>8. SeverityPrefix(text) = SubSeq(text, 2, Min(ends) - 1)
    BY <2>1, <2>3, <2>7 DEF SeverityPrefix, ends
  <2>9. SubSeq(text, 2, 2) = <<label>>
    <3> DEFINE part == SubSeq(text, 2, 2)
    <3>1. part \in Seq(Word) /\ Len(part) = 1 /\ \A i \in 1..1 : part[i] = text[2 + i - 1]
      <4>1. \A i \in 2..2 : text[i] \in Word
        BY <2>1
      <4> QED BY <4>1, SubSeqProperties
    <3>2. part[1] = label
      BY <2>1, <3>1
    <3> HIDE DEF part
    <3>3. part = <<label>>
      BY <3>1, <3>2
    <3> QED BY <3>3 DEF part
  <2> QED BY <1>3, <2>6, <2>8, <2>9 DEF Words, text
<1> QED BY <1>2, <1>3

\* The title of a card is a text, and no bracket or colon if the message's is none.
LEMMA TitleIs ==
  ASSUME NEW m \in Pitched
  PROVE  /\ titleOf(m) \in Seq(Word) /\ titleOf(m) # << >> /\ titleOf(m)[1] # ":"
         /\ (m.title = << >> \/ m.title[1] # "[") => titleOf(m)[1] # "["
         /\ m.message \in Seq(Word) /\ m.severity \in Word /\ m.severity # "]"
<1>1. /\ m.title \in Seq(Word) /\ m.message \in Seq(Word) /\ m.severity \in Word /\ m.severity # "]"
      /\ m.title # << >> => m.title[1] # ":"
  BY TextAssumption, Wording DEF TextAssumption
<1>2. CASE m.title = << >>
  <2>1. titleOf(m) = <<"notification">>
    BY <1>2 DEF titleOf, defaultTitle
  <2>2. <<"notification">> \in Seq(Word) /\ Len(<<"notification">>) = 1 /\ <<"notification">>[1] = "notification"
    BY Wording, ShortLists
  <2>3. <<"notification">> # << >>
    BY <2>2
  <2> QED BY <1>1, <2>1, <2>2, <2>3
<1>3. CASE m.title # << >>
  BY <1>1, <1>3 DEF titleOf
<1> QED BY <1>2, <1>3

\* A card that reads back, of an output of a config that was let through: its
\* rows give the message's severity, if any.
LEMMA RowsTellSeverity ==
  ASSUME NEW m \in Pitched, NEW rows \in Seq([title : STRING, tag : STRING, field : STRING]),
         AlertStatus(m) # "resolved",
         \A j \in DOMAIN rows : validFact(rows[j]),
         \A j \in DOMAIN rows : rows[j].title = "Severity" => rows[j].field = "severity"
  PROVE  factValue(buildCard(m, NoWord, rows).facts, "Severity") \in {<< >>, Words(m.severity)}
<1> DEFINE facts == buildCard(m, NoWord, rows).facts
<1>1. CASE rows = << >>
  <2> DEFINE own == <<Fact("Severity", Words(m.severity)), Fact("System", Words(m.system)),
                      Fact("Tags", FlattenSeq(m.tags)), Fact("Time", Words(m.timestamp))>>
  <2>1. facts = Filled(own)
    BY <1>1 DEF buildCard, buildFacts
  <2>2. DOMAIN own = 1..4 /\ 4 \in Nat
    OBVIOUS
  <2>3. \A j \in 1..4 : own[j].title = "Severity" => own[j].value = Words(m.severity)
    BY DEF Fact
  <2> HIDE DEF own, facts
  <2>4. factValue(Filled(own), "Severity") \in {<< >>, Words(m.severity)}
    <3>1. PICK n \in Nat : n = 4
      BY <2>2
    <3>2. DOMAIN own = 1..n /\ \A j \in 1..n : own[j].title = "Severity" => own[j].value = Words(m.severity)
      BY <2>2, <2>3, <3>1
    <3> QED BY <3>2, FactIsThere
  <2> QED BY <2>1, <2>4 DEF facts
<1>2. CASE rows # << >>
  <2> DEFINE value(i) == IF rows[i].tag # NoWord THEN Words(tagValue(m.tags, rows[i].tag))
                         ELSE getField(m, rows[i].field)
             own == [i \in DOMAIN rows |-> Fact(rows[i].title, value(i))]
  <2>1. facts = Filled(own)
    BY <1>2 DEF buildCard, buildConfiguredFacts
  <2>2. PICK n \in Nat : DOMAIN own = 1..n
    <3>1. DOMAIN rows = 1..Len(rows) /\ Len(rows) \in Nat
      BY LenProperties
    <3> QED BY <3>1
  <2>3. ASSUME NEW j \in 1..n, own[j].title = "Severity" PROVE own[j].value = Words(m.severity)
    <3>1. j \in DOMAIN rows
      BY <2>2
    <3>2. own[j].title = rows[j].title /\ own[j].value = value(j)
      BY <3>1 DEF Fact
    <3>3. rows[j].field = "severity"
      BY <2>3, <3>1, <3>2
    <3>4. (rows[j].tag = NoWord) # (rows[j].field = NoWord)
      BY <3>1, Zenon DEF validFact
    <3>5. "severity" # NoWord
      BY Zenon DEF NoWord
    <3>6. rows[j].tag = NoWord
      BY <3>3, <3>4, <3>5
    <3>7. getField(m, "severity") = Words(m.severity)
      BY DEF getField
    <3> QED BY <3>2, <3>3, <3>6, <3>7
  <2> HIDE DEF own, facts
  <2>4. factValue(Filled(own), "Severity") \in {<< >>, Words(m.severity)}
    BY <2>2, <2>3, FactIsThere
  <2> QED BY <2>1, <2>4 DEF facts
<1> QED BY <1>1, <1>2

\* The key of such a card is the message's own.
LEMMA CardReadsBack ==
  ASSUME NEW m \in Pitched, NEW rows \in Seq([title : STRING, tag : STRING, field : STRING]),
         AlertStatus(m) # "resolved",
         m.severity # NoWord \/ m.title = << >> \/ m.title[1] # "[",
         \A j \in DOMAIN rows : validFact(rows[j]),
         \A j \in DOMAIN rows : rows[j].title = "Severity" => rows[j].field = "severity"
  PROVE  CardKey(m, NoWord, rows) = messageKey(NoWord, Words(m.severity), m.title, m.message)
<1> DEFINE title == titleOf(m)
           body  == IF m.message = << >> THEN title ELSE m.message
           card  == buildCard(m, NoWord, rows)
           post  == summarizeCard(card)
<1>1. /\ title \in Seq(Word) /\ title # << >> /\ title[1] # ":" /\ m.severity \in Word /\ m.severity # "]"
      /\ m.severity # NoWord \/ title[1] # "["
      /\ m.message \in Seq(Word)
  BY TitleIs
<1>2. body \in Seq(Word) /\ body # << >>
  BY <1>1
<1>3. cardTitle(m, FALSE) = title /\ cardBody(m, FALSE) = body
  BY DEF cardTitle, cardBody
<1>4. /\ card.texts = <<title, body>> /\ card.footer = NoWord
      /\ card.fallbackText = buildFallbackText(m.severity, title, body)
  BY <1>3 DEF buildCard
<1> HIDE DEF title, body
<1>5. SeverityPrefix(card.fallbackText) = Words(m.severity)
  BY <1>1, <1>2, <1>4, PrefixIsLabel
<1>6. factValue(card.facts, "Severity") \in {<< >>, Words(m.severity)}
  BY RowsTellSeverity
<1> HIDE DEF card
<1>7. /\ post.title = title /\ post.body = body /\ post.objectID = NoWord
      /\ post.severity = Words(m.severity)
  BY <1>4, <1>5, <1>6 DEF summarizeCard
<1>8. CardKey(m, NoWord, rows) = messageKey(NoWord, Words(m.severity), title, body)
  BY <1>7 DEF CardKey, card
<1>9. messageKey(NoWord, Words(m.severity), title, body) = <<Words(m.severity), title, body>>
  BY <1>1, <1>2 DEF messageKey
<1>10. messageKey(NoWord, Words(m.severity), m.title, m.message) = <<Words(m.severity), title, body>>
  BY DEF messageKey, title, body, titleOf
<1> QED BY <1>8, <1>9, <1>10

\* By its objectId a post is found whatever it is.
LEMMA IdIsKey ==
  ASSUME NEW m, NEW type, NEW rows, NEW id, id # NoWord, Decodes(m)
  PROVE  PostKey(type, m, id, rows) = <<id>>
<1>1. summarizeCard(buildCard(m, id, rows)).objectID = id
  BY DEF summarizeCard, buildCard
<1>2. CardKey(m, id, rows) = <<id>>
  BY <1>1 DEF CardKey, messageKey
<1>3. WebhookKey(m, id) = <<id>>
  BY DEF WebhookKey, messageKey
<1> QED BY <1>2, <1>3 DEF PostKey

\* The sink finds the posts of one message by their keys: by the objectId, and
\* without one if the cards leave severity, title and text as they are.
THEOREM KeysAgree == Spec => []PostsShareTheirKey
<1>1. Init => PostedInv
  BY DEF Init, PostedInv
<1>2. Loads /\ PostedInv => PostsShareTheirKey
  <2> SUFFICES ASSUME Loads, PostedInv, last # << >>, NEW i \in last.posted, NEW j \in last.posted,
                      NEW id \in {NoWord, "id"}, id # NoWord \/ (ReadsBack(i) /\ ReadsBack(j)),
                      Decodes(last.message)
               PROVE  PostedKey(i, id) = PostedKey(j, id)
    BY DEF PostsShareTheirKey, SameKey
  <2> DEFINE m == last.message
  <2>1. m \in Pitched /\ i \in outputs /\ j \in outputs /\ cfg \in Configs /\ Validate(cfg)
    BY DEF Loads, LoadedInv, PostedInv, TypeOK
  <2>2. CASE id # NoWord
    BY <2>2, IdIsKey DEF PostedKey
  <2>3. ASSUME id = NoWord, NEW k \in outputs, ReadsBack(k)
        PROVE  PostedKey(k, id) = messageKey(NoWord, Words(m.severity), m.title, m.message)
    <3> DEFINE rows == cfg.outputs[k].card
    <3>1. rows \in Seq([title : STRING, tag : STRING, field : STRING])
      BY <2>1, TextAssumption DEF TextAssumption, outputs
    <3>2. \A r \in DOMAIN rows : validFact(rows[r])
      BY <2>1, Zenon DEF Validate, outputs
    <3>3. CASE cfg.outputs[k].type = "msteams"
      <4>1. /\ AlertStatus(m) # "resolved"
            /\ m.severity # NoWord \/ m.title = << >> \/ m.title[1] # "["
            /\ \A r \in DOMAIN rows : rows[r].title = "Severity" => rows[r].field = "severity"
        BY <2>3, <3>3 DEF ReadsBack
      <4>2. PostedKey(k, id) = CardKey(m, NoWord, rows)
        BY <2>3, <3>3 DEF PostedKey, PostKey
      <4> HIDE DEF rows, m
      <4> QED BY <2>1, <3>1, <3>2, <4>1, <4>2, CardReadsBack
    <3>4. CASE cfg.outputs[k].type # "msteams"
      BY <2>3, <3>4 DEF PostedKey, PostKey, WebhookKey
    <3> QED BY <3>3, <3>4
  <2>4. CASE id = NoWord
    BY <2>1, <2>3, <2>4
  <2> QED BY <2>2, <2>4
<1>3. Init => Loads
  BY RoutingAssumption DEF RoutingAssumption, Init, Loads, TypeOK, LoadedInv
<1> QED BY <1>1, <1>2, <1>3, LoadsStep, PostedStep, PTL DEF Spec
-----------------------------------------------------------------------------
(* What a card says *)

\* The title of a resolved alert says so at its beginning, and once.
LEMMA ResolvedTitle ==
  ASSUME SaidFirst, NEW m \in Pitched
  PROVE  LET title == cardTitle(m, TRUE)
         IN /\ title \in Seq(Word) /\ Len(title) \in Nat /\ Len(title) >= 1
            /\ title[1] = resolvedPrefix
            /\ \A k \in 2..Len(title) : title[k] # resolvedPrefix
<1> DEFINE plain == titleOf(m)
           title == cardTitle(m, TRUE)
<1>1. plain \in Seq(Word) /\ Len(plain) \in Nat /\ Len(plain) >= 1
  <2>1. plain \in Seq(Word) /\ plain # << >>
    BY TitleIs
  <2> HIDE DEF plain
  <2> QED BY <2>1, EmptySeq
<1>2. \A k \in DOMAIN plain : plain[k] = resolvedPrefix => k = 1 /\ Len(plain) > 1
  <2>1. CASE m.title = << >>
    <3>1. plain = <<"notification">>
      BY <2>1 DEF titleOf, defaultTitle
    <3>2. DOMAIN plain = 1..1 /\ plain[1] = "notification"
      BY <3>1
    <3>3. "notification" # resolvedPrefix
      BY Zenon DEF resolvedPrefix
    <3> HIDE DEF plain
    <3> QED BY <3>2, <3>3
  <2>2. CASE m.title # << >>
    BY <2>2 DEF titleOf, SaidFirst
  <2> QED BY <2>1, <2>2
<1> HIDE DEF plain
<1>3. DOMAIN plain = 1..Len(plain) /\ Head(plain) = plain[1]
  BY <1>1, LenProperties
<1>4. CASE OpensWith(plain, resolvedPrefix)
  <2>1. title = plain
    BY <1>4 DEF cardTitle, plain
  <2>2. plain[1] = resolvedPrefix
    BY <1>3, <1>4 DEF OpensWith
  <2>3. \A k \in 2..Len(plain) : plain[k] # resolvedPrefix
    BY <1>1, <1>2, <1>3
  <2> HIDE DEF title
  <2> QED BY <1>1, <2>1, <2>2, <2>3 DEF title
<1>5. CASE ~OpensWith(plain, resolvedPrefix)
  <2> DEFINE first == <<resolvedPrefix>>
  <2>1. title = first \o plain
    BY <1>5 DEF cardTitle, plain
  <2>2. \A k \in 1..Len(plain) : plain[k] # resolvedPrefix
    BY <1>1, <1>2, <1>3, <1>5 DEF OpensWith
  <2>3. first \in Seq(Word) /\ Len(first) = 1 /\ first[1] = resolvedPrefix
    BY Wording, ShortLists
  <2> HIDE DEF title, first
  <2>4. /\ title \in Seq(Word) /\ Len(title) = 1 + Len(plain)
        /\ \A k \in 1..(1 + Len(plain)) : title[k] = IF k <= 1 THEN first[k] ELSE plain[k - 1]
    <3>1. /\ title \in Seq(Word) /\ Len(title) = Len(first) + Len(plain)
          /\ \A k \in 1..(Len(first) + Len(plain)) :
               title[k] = IF k <= Len(first) THEN first[k] ELSE plain[k - Len(first)]
      BY <1>1, <2>1, <2>3, ConcatProperties
    <3> QED BY <2>3, <3>1
  <2>5. ASSUME NEW k \in 2..Len(title) PROVE title[k] # resolvedPrefix
    <3>1. k - 1 \in 1..Len(plain) /\ title[k] = plain[k - 1]
      BY <1>1, <2>4
    <3> QED BY <2>2, <3>1
  <2>6. title[1] = resolvedPrefix /\ Len(title) \in Nat /\ Len(title) >= 1
    BY <1>1, <2>3, <2>4
  <2> QED BY <2>4, <2>5, <2>6 DEF title
<1> QED BY <1>4, <1>5

\* Its body does not say it again, or is the title, which the preview leaves out.
LEMMA ResolvedBody ==
  ASSUME SaidFirst, NEW m \in Pitched
  PROVE  LET body == cardBody(m, TRUE)
         IN /\ body \in Seq(Word)
            /\ body = cardTitle(m, TRUE) \/ \A k \in 1..Len(body) : body[k] # resolvedPrefix
<1> DEFINE text == m.message
           rest == IF OpensWith(text, resolvedPrefix) THEN Tail(text) ELSE text
<1>1. text \in Seq(Word) /\ Len(text) \in Nat
  BY TitleIs
<1>2. \A k \in DOMAIN text : text[k] = resolvedPrefix => k = 1 /\ Len(text) > 1
  BY DEF SaidFirst
<1>3. DOMAIN text = 1..Len(text) /\ (text # << >> => Head(text) = text[1])
  BY <1>1, LenProperties
<1>4. rest \in Seq(Word) /\ \A k \in 1..Len(rest) : rest[k] # resolvedPrefix
  <2>1. CASE OpensWith(text, resolvedPrefix)
    <3>1. text # << >>
      BY <2>1 DEF OpensWith
    <3>2. /\ Tail(text) \in Seq(Word) /\ Len(Tail(text)) = Len(text) - 1
          /\ \A k \in 1..Len(Tail(text)) : Tail(text)[k] = text[k + 1]
      BY <1>1, <3>1, HeadTailProperties
    <3>3. ASSUME NEW k \in 1..Len(Tail(text)) PROVE Tail(text)[k] # resolvedPrefix
      <4>1. k + 1 \in 1..Len(text) /\ k + 1 # 1 /\ Tail(text)[k] = text[k + 1]
        BY <1>1, <3>2
      <4> QED BY <1>2, <1>3, <4>1
    <3>4. rest = Tail(text)
      BY <2>1
    <3> HIDE DEF rest
    <3> QED BY <3>2, <3>3, <3>4
  <2>2. CASE ~OpensWith(text, resolvedPrefix)
    <3>1. \A k \in 1..Len(text) : text[k] # resolvedPrefix
      <4> SUFFICES ASSUME NEW k \in 1..Len(text), text[k] = resolvedPrefix PROVE FALSE
        OBVIOUS
      <4>1. text[1] = resolvedPrefix /\ Len(text) > 1
        BY <1>2, <1>3
      <4>2. text # << >>
        BY <4>1
      <4> QED BY <1>3, <2>2, <4>1, <4>2 DEF OpensWith
    <3>2. rest = text
      BY <2>2
    <3> HIDE DEF rest
    <3> QED BY <1>1, <3>1, <3>2
  <2> QED BY <2>1, <2>2
<1>5. cardBody(m, TRUE) = IF rest = << >> THEN cardTitle(m, TRUE) ELSE rest
  BY DEF cardBody
<1>6. cardTitle(m, TRUE) \in Seq(Word)
  BY ResolvedTitle
<1> HIDE DEF rest
<1> QED BY <1>4, <1>5, <1>6

\* So the preview says it once, behind the label.
LEMMA ResolvedPreview ==
  ASSUME SaidFirst, NEW m \in Pitched
  PROVE  LET text == buildFallbackText("resolved", cardTitle(m, TRUE), cardBody(m, TRUE))
         IN /\ Cardinality({k \in DOMAIN text : text[k] = resolvedPrefix}) = 1
            /\ IsPrefix(<<"[", "resolved", "]", resolvedPrefix>>, text)
<1> DEFINE title == cardTitle(m, TRUE)
           body  == cardBody(m, TRUE)
           text  == buildFallbackText("resolved", title, body)
<1>1. /\ title \in Seq(Word) /\ Len(title) \in Nat /\ Len(title) >= 1
      /\ title[1] = resolvedPrefix
      /\ \A k \in 2..Len(title) : title[k] # resolvedPrefix
  BY ResolvedTitle
<1>2. body \in Seq(Word) /\ (body = title \/ \A k \in 1..Len(body) : body[k] # resolvedPrefix)
  BY ResolvedBody
<1>3. /\ "resolved" # NoWord /\ "[" # resolvedPrefix /\ "]" # resolvedPrefix
      /\ ":" # resolvedPrefix /\ "resolved" # resolvedPrefix
  BY Zenon DEF NoWord, resolvedPrefix
<1> HIDE DEF title, body
<1>4. /\ text \in Seq(Word) /\ Len(text) \in Nat /\ Len(text) >= 3 + Len(title)
      /\ text[1] = "[" /\ text[2] = "resolved" /\ text[3] = "]"
      /\ \A i \in 1..Len(title) : text[3 + i] = title[i]
      /\ \A i \in (4 + Len(title))..Len(text) :
           /\ body # title
           /\ text[i] = ":" \/ \E j \in 1..Len(body) : text[i] = body[j]
  BY <1>1, <1>2, <1>3, Wording, PreviewIs
<1> HIDE DEF text
<1>5. DOMAIN text = 1..Len(text)
  BY <1>4, LenProperties
<1>6. text[4] = resolvedPrefix /\ 4 \in 1..Len(text)
  <2>1. text[3 + 1] = title[1]
    BY <1>1, <1>4
  <2> QED BY <1>1, <1>4, <2>1
<1>7. ASSUME NEW k \in 1..Len(text), text[k] = resolvedPrefix PROVE k = 4
  <2>1. CASE k \in 1..3
    BY <1>3, <1>4, <1>7, <2>1
  <2>2. CASE k \in 5..(3 + Len(title))
    <3>1. PICK i \in 2..Len(title) : k = 3 + i
      <4>1. k - 3 \in 2..Len(title) /\ k = 3 + (k - 3)
        BY <1>1, <2>2
      <4> QED BY <4>1
    <3>2. i \in 1..Len(title)
      BY <1>1
    <3> QED BY <1>1, <1>4, <1>7, <3>1, <3>2
  <2>3. CASE k \in (4 + Len(title))..Len(text)
    BY <1>2, <1>3, <1>4, <1>7, <2>3
  <2> QED BY <1>1, <1>4, <2>1, <2>2, <2>3
<1>8. {k \in DOMAIN text : text[k] = resolvedPrefix} = {4}
  BY <1>5, <1>6, <1>7
<1>9. Cardinality({4}) = 1
  BY FS_Singleton
<1>10. IsPrefix(<<"[", "resolved", "]", resolvedPrefix>>, text)
  <2> DEFINE tag == <<"[", "resolved", "]", resolvedPrefix>>
  <2>1. /\ Len(tag) = 4 /\ tag[1] = "[" /\ tag[2] = "resolved" /\ tag[3] = "]"
        /\ tag[4] = resolvedPrefix /\ tag \in Seq(Word)
    BY Wording
  <2> HIDE DEF tag
  <2>2. Len(text) >= 4 /\ \A i \in 1..4 : i \in 1..Len(text) /\ tag[i] = text[i] /\ text[i] \in Word /\ tag[i] \in Word
    BY <1>4, <1>6, <2>1
  <2> DEFINE a == SubSeq(tag, 1, 4)
             b == SubSeq(text, 1, 4)
  <2>3. a \in Seq(Word) /\ Len(a) = 4 /\ \A i \in 1..4 : a[i] = tag[1 + i - 1]
    <3>1. \A i \in 1..4 : tag[i] \in Word
      BY <2>2
    <3> QED BY <3>1, SubSeqProperties
  <2>4. b \in Seq(Word) /\ Len(b) = 4 /\ \A i \in 1..4 : b[i] = text[1 + i - 1]
    <3>1. \A i \in 1..4 : text[i] \in Word
      BY <2>2
    <3> QED BY <3>1, SubSeqProperties
  <2> HIDE DEF a, b
  <2>5. \A i \in 1..4 : a[i] = b[i]
    BY <2>2, <2>3, <2>4
  <2>6. a = b
    BY <2>3, <2>4, <2>5, SeqEqual
  <2>7. Len(tag) <= Len(text) /\ SubSeq(tag, 1, Len(tag)) = SubSeq(text, 1, Len(tag))
    BY <2>1, <2>2, <2>6 DEF a, b
  <2> QED BY <2>7 DEF IsPrefix, tag
<1> QED BY <1>8, <1>9, <1>10 DEF text, title, body

\* A card says that an alert is resolved, in green and once; another is red
\* exactly if it is critical.  For texts that say it at their beginning only.
THEOREM CardsTell ==
  ASSUME SaidFirst
  PROVE  Spec => []CardTellsTheAlert
<1>1. Init => PostedInv
  BY DEF Init, PostedInv
<1>2. PostedInv => CardTellsTheAlert
  <2> SUFFICES ASSUME PostedInv, last # << >>, NEW i \in last.posted
               PROVE
                 LET m == last.message
                     card == buildCard(m, NoWord, cfg.outputs[i].card)
                 IN IF AlertStatus(m) = "resolved"
                    THEN /\ card.style = "good"
                         /\ Cardinality({k \in DOMAIN card.fallbackText : card.fallbackText[k] = resolvedPrefix}) = 1
                         /\ IsPrefix(<<"[", "resolved", "]", resolvedPrefix>>, card.fallbackText)
                    ELSE card.style = "attention" <=> severityAtLeast(m.severity, "critical")
    BY DEF CardTellsTheAlert
  <2> DEFINE m == last.message
             card == buildCard(m, NoWord, cfg.outputs[i].card)
  <2>1. m \in Pitched
    BY DEF PostedInv
  <2>2. CASE AlertStatus(m) = "resolved"
    <3>1. /\ card.style = "good"
          /\ card.fallbackText = buildFallbackText("resolved", cardTitle(m, TRUE), cardBody(m, TRUE))
      BY <2>2 DEF buildCard
    <3> HIDE DEF card, m
    <3>2. /\ Cardinality({k \in DOMAIN card.fallbackText : card.fallbackText[k] = resolvedPrefix}) = 1
          /\ IsPrefix(<<"[", "resolved", "]", resolvedPrefix>>, card.fallbackText)
      BY <2>1, <3>1, ResolvedPreview
    <3> QED BY <2>2, <3>1, <3>2 DEF card, m
  <2>3. CASE AlertStatus(m) # "resolved"
    <3>1. card.style = severityToStyle(m.severity)
      BY <2>3 DEF buildCard
    <3>2. severityToStyle(m.severity) = "attention" <=> m.severity \in {"critical", "error"}
      BY DEF severityToStyle
    <3>3. severityAtLeast(m.severity, "critical") <=> m.severity \in {"critical", "error"}
      <4>1. Unset # "critical"
        BY RoutingAssumption DEF RoutingAssumption, Rank
      <4> QED BY <4>1 DEF severityAtLeast, SeverityRank, Rank
    <3> QED BY <2>3, <3>1, <3>2, <3>3
  <2> QED BY <2>2, <2>3
<1> QED BY <1>1, <1>2, PostedStep, PTL DEF Spec
=============================================================================
