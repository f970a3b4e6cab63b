---------------------------- MODULE MCTopicMatch ----------------------------
(***************************************************************************)
(* All pairs of a published topic and a filter of at most MaxParts parts,  *)
(* built part by part, to compare TopicMatches with what psmq_overview.7   *)
(* says a filter accepts.                                                  *)
(***************************************************************************)
EXTENDS TopicMatch

CONSTANTS Parts,     \* the parts a topic is built of, "" among them
          MaxParts   \* bound on the length of a topic

VARIABLES pub, sub

vars == <<pub, sub>>

Init == pub = <<>> /\ sub = <<>>

GrowPub == /\ Len(pub) < MaxParts
           /\ \E p \in Parts : pub' = Append(pub, p)
           /\ sub' = sub

GrowSub == /\ Len(sub) < MaxParts
           /\ \E p \in Parts : sub' = Append(sub, p)
           /\ pub' = pub

Next == GrowPub \/ GrowSub
Spec == Init /\ [][Next]_vars
-----------------------------------------------------------------------------
\* What psmq_overview.7:114-205 documents, on two sequences of components: '+'
\* stands for one component, a final '*' for all the remaining ones (at least one),
\* anything else for itself.
Documented(p, s) ==
  LET open == s # <<>> /\ s[Len(s)] = "*"
      n    == IF open THEN Len(s) - 1 ELSE Len(s)
  IN  /\ IF open THEN Len(p) > n ELSE Len(p) = n
      /\ \A i \in 1 .. n : s[i] \in {"+", p[i]}

StarOnlyAtEnd(s) == \A i \in DOMAIN s : s[i] = "*" => i = Len(s)

(***************************************************************************)
(* For every filter that has '*' at most as its last part, the strtok loop *)
(* of psmqd_broker_topic_matches answers what the manual says, whatever    *)
(* empty parts the published topic has (broker.c does not validate it).    *)
(***************************************************************************)
MatchesAsDocumented ==
  pub # <<>> /\ IsFilter(sub) /\ StarOnlyAtEnd(sub)
    => (TopicMatches(pub, sub) <=> pub = sub \/ Documented(Tokens(pub), sub))

(***************************************************************************)
(* A filter accepts, with '+' put for one of its parts, whatever it        *)
(* accepted before: generalising a subscription never loses a message.     *)
(***************************************************************************)
GeneralisingLosesNothing ==
  pub # <<>> /\ IsFilter(sub) /\ TopicMatches(pub, sub)
    => \A i \in DOMAIN sub : sub[i] # "*" => TopicMatches(pub, [sub EXCEPT ![i] = "+"])

(***************************************************************************)
(* psmq_overview.7:203-204: a '*' that is not the last part is an ordinary *)
(* part, which only a '*' in the published topic equals.  broker.c:176     *)
(* returns a match at the first '*' it meets.                              *)
(***************************************************************************)
StarInsideIsOrdinary ==
  pub # <<>> /\ IsFilter(sub) /\ TopicMatches(pub, sub)
    => pub = sub \/ Documented(Tokens(pub), sub)
=============================================================================
