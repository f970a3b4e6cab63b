----------------------------- MODULE TopicMatch -----------------------------
(***************************************************************************)
(* psmqd_broker_topic_matches of broker.c: does a message published on a   *)
(* topic go to a subscriber of a filter?                                   *)
(*                                                                         *)
(* A topic "/a/b" is the sequence of what stands after each '/', here      *)
(* <<"a", "b">>; "/a//b" is <<"a", "", "b">> and "/a/" is <<"a", "">>.     *)
(* Two strings are equal exactly when these sequences are.                 *)
(***************************************************************************)
EXTENDS Naturals, Sequences

\* strtok_r(_, "/", _) called until it returns NULL: empty parts are never tokens.
Tokens(topic) == SelectSeq(topic, LAMBDA part : part # "")

\* The checks psmqd_broker_subscribe makes before it accepts a filter.
IsFilter(topic) == topic # <<>> /\ \A i \in DOMAIN topic : topic[i] # ""

\* Mutant of TokensMatch: what is left of the longer list is ignored.
TokensMatchPrefix(pub, sub) ==
  LET shorter == IF Len(pub) <= Len(sub) THEN Len(pub) ELSE Len(sub)
      from[i \in 1 .. shorter + 1] ==
        \/ i > shorter
        \/ sub[i] = "*"
        \/ sub[i] \in {"+", pub[i]} /\ from[i + 1]
  IN  from[1]

\* Mutant of TokensMatch: '+' is not accepted as the last part.
TokensMatchPlusNotLast(pub, sub) ==
  LET shorter == IF Len(pub) <= Len(sub) THEN Len(pub) ELSE Len(sub)
      from[i \in 1 .. shorter + 1] ==
        IF i > shorter
        THEN Len(pub) = Len(sub)
        ELSE \/ sub[i] = "*"
             \/ sub[i] = pub[i] /\ from[i + 1]
             \/ sub[i] = "+" /\ i < Len(sub) /\ from[i + 1]
  IN  from[1]

\* The loop over both token lists, from the i-th token of each on.
TokensMatch(pub, sub) ==
  LET shorter == IF Len(pub) <= Len(sub) THEN Len(pub) ELSE Len(sub)
      from[i \in 1 .. shorter + 1] ==
        IF i > shorter
        THEN Len(pub) = Len(sub)
        ELSE \/ sub[i] = "*"
             \/ sub[i] \in {"+", pub[i]} /\ from[i + 1]
  IN  from[1]

TopicMatches(pub_topic, sub_topic) ==
  \/ pub_topic = sub_topic
  \/ TokensMatch(Tokens(pub_topic), Tokens(sub_topic))
=============================================================================
