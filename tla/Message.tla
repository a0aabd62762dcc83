------------------------------ MODULE Message -------------------------------
(***************************************************************************)
(* What the filters, the throttles and the cards read of a message         *)
(* (notify/status.go, filter.go, teams.go).                                *)
(*                                                                         *)
(* A message is [title, message, severity, system, timestamp, tags]; the   *)
(* author is treated as the system is, and the assignee as neither.        *)
(* title and message are texts: sequences of words, with brackets and the  *)
(* colon of a line of text as words of their own.  severity, system and    *)
(* timestamp are one word or none.  tags is a sequence of entries, <<k>>   *)
(* or <<k, v>> for k=v.  Case and the blanks around a text, which the code *)
(* ignores wherever it looks at one, are left out.                         *)
(***************************************************************************)
EXTENDS Integers, Sequences, FiniteSets, FiniteSetsExt, SequencesExt

NoWord == ""

Words(w) == IF w = NoWord THEN << >> ELSE <<w>>

\* hasPrefixFold: the blank behind the word is part of the prefix.
OpensWith(text, word) == Len(text) > 1 /\ Head(text) = word

\* The first entry of the key.
tagValue(tags, k) ==
  LET at == {i \in DOMAIN tags : Len(tags[i]) = 2 /\ tags[i][1] = k}
  IN IF at = {} THEN NoWord ELSE tags[Min(at)][2]

resolvedPrefix == "resolved:"

AlertStatus(m) ==
  LET s == tagValue(m.tags, "status")
  IN IF s \in {"firing", "resolved"} THEN s
     ELSE IF OpensWith(m.message, resolvedPrefix) THEN "resolved" ELSE NoWord

\* A field as a text.
getField(m, k) ==
  CASE k = "status"                                -> Words(AlertStatus(m))
    [] k = "tags"                                  -> FlattenSeq(m.tags)
    [] k \in {"severity", "system", "timestamp"} -> Words(m[k])
    [] OTHER                                       -> m[k]
=============================================================================
