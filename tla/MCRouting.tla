------------------------------ MODULE MCRouting -----------------------------
(***************************************************************************)
(* Config files with the outputs the docs show: a severity floor with a    *)
(* second output for resolutions, a fallback before and behind what it     *)
(* covers, inherited and overridden retry and throttle blocks; and some    *)
(* that Validate refuses.                                                  *)
(***************************************************************************)
EXTENDS Routing

None  == [severityMin |-> Unset, match |-> << >>, tagsContain |-> {}, tagsExclude |-> {},
          messageContains |-> {}, sendResolved |-> "unset"]
Retry(n, d)     == [attempts |-> n, backoff |-> d]
Block(k, w, n)  == [key |-> k, window |-> w, max |-> n]
NoRetry == Retry(0, Unset)
NoBlock == Block({}, Unset, 0)
Out(n, f) == [name |-> n, type |-> "msteams", target |-> [text |-> "url", refs |-> {}],
              filters |-> f, fallback |-> FALSE, retry |-> NoRetry, throttle |-> NoBlock,
              card |-> << >>]
File(r, t, outs) == [retry |-> r, throttle |-> t, outputs |-> outs]

Hook(o)  == [o EXCEPT !.type = "webhook"]
Row(t, k, f) == [title |-> t, tag |-> k, field |-> f]
Carded(o, rows) == [o EXCEPT !.card = rows]

Floor    == Out("alerts", [None EXCEPT !.severityMin = "warning"])
Ends     == Out("resolved", [None EXCEPT !.match = [status |-> <<"resolved">>]])
All      == Out("all", None)
Rest     == [Out("rest", None) EXCEPT !.fallback = TRUE]
RestLoud == [Out("loud", [None EXCEPT !.severityMin = "info"]) EXCEPT !.fallback = TRUE]
Flux     == Out("flux", [None EXCEPT !.match = [system |-> <<"flux">>], !.tagsExclude = {"demo"}])
Disk     == Out("disk", [None EXCEPT !.messageContains = {"disk"}, !.sendResolved = "no"])
Prod     == Out("prod", [None EXCEPT !.tagsContain = {"prod"}])
Hour     == Block({}, 1, 0)

Throttling == {File(NoRetry, Hour, <<Floor, Ends>>),
               File(Retry(5, Unset), Hour, <<Rest, Flux, [Disk EXCEPT !.throttle = Block({"severity"}, Unset, 0)]>>),
               File(NoRetry, Block({"title"}, 1, 1), <<[All EXCEPT !.throttle = Block({}, 0, 0)], Floor>>)}

MCConfigs == Throttling \cup
  {File(NoRetry, NoBlock, <<Rest, RestLoud, Prod>>),
   File(NoRetry, Hour, <<All, [Prod EXCEPT !.throttle = Block({"status"}, Unset, 0)]>>),
   File(Retry(0, 3), NoBlock, <<[All EXCEPT !.retry = Retry(2, 0)]>>),
   File(NoRetry, NoBlock, <<Hook(All), Carded(Floor, <<Row("Env", "env", ""), Row("Text", "", "message")>>),
                            Carded(Out("status", None), <<Row("Severity", "status", "")>>)>>),
   \* refused
   File(Retry(11, Unset), NoBlock, <<All>>),
   File(NoRetry, NoBlock, <<[All EXCEPT !.retry = Retry(1, 11)]>>),
   File(NoRetry, NoBlock, <<[All EXCEPT !.throttle = Block({}, Unset, 2)]>>),
   File(NoRetry, NoBlock, <<All, All>>),
   File(NoRetry, NoBlock, <<Carded(All, <<Row("Status", "", "status")>>)>>),
   File(NoRetry, NoBlock, <<Hook(Carded(All, <<Row("Env", "env", "")>>))>>),
   File(NoRetry, NoBlock, <<[All EXCEPT !.target = [text |-> "", refs |-> {"TEAMS"}]]>>),
   File(NoRetry, NoBlock, <<Out("x", [None EXCEPT !.severityMin = "urgent"])>>)}

\* The example of docs/configuration.md:122 with a throttle.
MCDocs == {File(NoRetry, Hour, <<Floor, Ends>>)}

Alert(s, sys, t, w, l, b) ==
  [severity |-> s, system |-> sys, title |-> t, summary |-> w, labels |-> l, tagged |-> b]
MCAlerts == {Alert("error", "flux", <<"full">>, <<"disk">>, << <<"env", "prod">>, <<"status", "bad">> >>, TRUE),
             Alert("warning", "k8s", <<"[", "FIRING", "]", "oom">>, <<"pod">>, << <<"demo">> >>, FALSE)}
\* No alerts: a status nobody knows, no severity behind a bracket, nothing at
\* all, and a resolution of another sender that says so three times.
MCPlain ==
  LET m == Firing(Alert("urgent", "flux", <<"full">>, <<"disk">>, << <<"status", "open">> >>, FALSE))
  IN {m,
      [m EXCEPT !.severity = "", !.title = <<"[", "new", "]", "full">>],
      [m EXCEPT !.severity = "", !.system = "", !.title = << >>, !.message = << >>],
      [m EXCEPT !.title = <<resolvedPrefix, "full">>, !.message = <<resolvedPrefix, "disk">>,
                !.tags = << <<"status", "resolved">> >>]}
MCKey == {"system", "title"}
MCEnv == {"HOOK"}

\* What is proved of alerts and cards is proved from this.
ASSUME MCAssumption == AlertsAreDistinct /\ SaidFirst
=============================================================================
