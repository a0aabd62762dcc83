-------------------------------- MODULE Card -------------------------------
(***************************************************************************)
(* What the two kinds of output make of a message (notify/teams.go,        *)
(* webhook.go), and what the sink reads back of it (sink/store.go): the    *)
(* key by which it finds the posts of one message.                         *)
(*                                                                         *)
(* Texts are those of Message.tla.  An objectId is a word or NoWord.       *)
(* The link, the layout and the author's row are left out.                 *)
(***************************************************************************)
EXTENDS Message

defaultTitle == <<"notification">>

severityToStyle(s) ==
  CASE s \in {"critical", "error"} -> "attention"
    [] s = "warning"               -> "warning"
    [] s = "success"               -> "good"
    [] OTHER                       -> "default"

buildFallbackText(label, title, body) ==
  (IF label = NoWord THEN << >> ELSE <<"[", label, "]">>)
  \o title \o (IF body = title THEN << >> ELSE <<":">> \o body)

\* Rows of a FactSet, [title, value], by their places; those without a value
\* are left out.
Filled(facts) == [i \in {j \in DOMAIN facts : facts[j].value # << >>} |-> facts[i]]

Fact(title, value) == [title |-> title, value |-> value]

buildFacts(m, resolved) ==
  Filled(<<Fact("Severity", Words(m.severity)), Fact("System", Words(m.system)),
           Fact("Tags", FlattenSeq(m.tags)),
           Fact(IF resolved THEN "Resolved" ELSE "Time", Words(m.timestamp))>>)

\* The rows of a card block, [title, tag, field], in its order.
buildConfiguredFacts(m, rows) ==
  Filled([i \in DOMAIN rows |->
            Fact(rows[i].title, IF rows[i].tag # NoWord THEN Words(tagValue(m.tags, rows[i].tag))
                                ELSE getField(m, rows[i].field))])

titleOf(m) == IF m.title = << >> THEN defaultTitle ELSE m.title

PrefixedTitle(m, resolved) ==   \* bug: also before a title that says it
  IF resolved THEN <<resolvedPrefix>> \o titleOf(m) ELSE titleOf(m)
cardTitle(m, resolved) ==
  IF resolved /\ ~OpensWith(titleOf(m), resolvedPrefix) THEN <<resolvedPrefix>> \o titleOf(m)
  ELSE titleOf(m)

cardBody(m, resolved) ==
  LET text == IF resolved /\ OpensWith(m.message, resolvedPrefix) THEN Tail(m.message)
              ELSE m.message
  IN IF text = << >> THEN cardTitle(m, resolved) ELSE text

\* texts are the TextBlocks of the header; the footer, which carries the
\* objectId, is the last one of the card.
buildCard(m, objectID, rows) ==
  LET resolved == AlertStatus(m) = "resolved"
      title == cardTitle(m, resolved)
      body  == cardBody(m, resolved)
  IN [style |-> IF resolved THEN "good" ELSE severityToStyle(m.severity),
      texts |-> <<title, body>>,
      fallbackText |-> buildFallbackText(IF resolved THEN "resolved" ELSE m.severity, title, body),
      facts |-> IF rows = << >> THEN buildFacts(m, resolved) ELSE buildConfiguredFacts(m, rows),
      footer |-> objectID]
-----------------------------------------------------------------------------
(* The sink *)

NoKey == << >>

messageKey(objectID, severity, title, message) ==
  LET t == IF title = << >> THEN defaultTitle ELSE title
  IN IF objectID # NoWord THEN <<objectID>>
     ELSE <<severity, t, IF message = << >> THEN t ELSE message>>

\* The facts go into a map: the last row of a title counts.
factValue(facts, title) ==
  LET at == {i \in DOMAIN facts : facts[i].title = title}
  IN IF at = {} THEN << >> ELSE facts[Max(at)].value

\* The severity of "[severity] title: body": up to the first bracket with a
\* blank behind it.
NoPrefix(text) == << >>         \* bug: severity from the facts only
SeverityPrefix(text) ==
  LET ends == {i \in 2..Len(text)-1 : text[i] = "]" /\ text[i+1] # ":"}
  IN IF text = << >> \/ ends = {} \/ text[1] # "[" THEN << >> ELSE SubSeq(text, 2, Min(ends) - 1)

summarizeCard(card) ==
  LET told == factValue(card.facts, "Severity")
  IN [title |-> card.texts[1], body |-> card.texts[2], objectID |-> card.footer,
      severity |-> IF told # << >> THEN told ELSE SeverityPrefix(card.fallbackText)]

\* decodeMessage: JSON without any of these is not taken for a message.
Decodes(m) == m.title # << >> \/ m.message # << >> \/ m.severity # NoWord \/ m.system # NoWord

CardKey(m, objectID, rows) ==
  LET post == summarizeCard(buildCard(m, objectID, rows))
  IN messageKey(post.objectID, post.severity, post.title, post.body)

WebhookKey(m, objectID) ==
  IF Decodes(m) THEN messageKey(objectID, Words(m.severity), m.title, m.message) ELSE NoKey

PostKey(type, m, objectID, rows) ==
  IF type = "msteams" THEN CardKey(m, objectID, rows) ELSE WebhookKey(m, objectID)
=============================================================================
