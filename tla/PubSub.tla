------------------------------- MODULE PubSub -------------------------------
(***************************************************************************)
(* The service psmqd gives, with no queues, requests, lists or places in a *)
(* program: clients come and go, subscribe and unsubscribe, and a publish  *)
(* reaches all of them that want it, each once, before anything else       *)
(* happens; but a client may miss it, and only who missed a publish can be *)
(* dropped in the middle of one.                                           *)
(*                                                                         *)
(* Subscriptions count: who subscribed twice to a topic has to unsubscribe *)
(* twice.  This is what psmqd does; psmq_subscribe.3:28 says that after    *)
(* one psmq_unsubscribe no messages come any more.                         *)
(***************************************************************************)
EXTENDS Naturals

CONSTANTS
  Places,    \* where a client can be connected
  Topics,    \* what is published on
  Filters,   \* what is subscribed to
  Matching   \* <<topic, filter>> pairs that match

VARIABLES
  conn,      \* the places where somebody is connected
  subs,      \* how often each topic is subscribed to, for each place
  now,       \* the topic of the publish in service, if there is one
  got,       \* who got that publish
  missed     \* who did not, at some attempt

vars == <<conn, subs, now, got, missed>>

NothingAsked == [f \in Filters |-> 0]

Wants(p) == p \in conn /\ \E t \in now, f \in Filters : subs[p][f] > 0 /\ <<t, f>> \in Matching

Init ==
  /\ conn = {} /\ subs = [p \in Places |-> NothingAsked]
  /\ now = {} /\ got = {} /\ missed = {}

\* Who is accepted takes over what is subscribed to for the place.
Accept(p) ==
  /\ now = {} /\ p \notin conn
  /\ conn' = conn \cup {p}
  /\ UNCHANGED <<subs, now, got, missed>>

Drop(p) ==
  /\ now = {} \/ p \in missed \ got
  /\ conn' = conn \ {p} /\ subs' = [subs EXCEPT ![p] = NothingAsked]
  /\ UNCHANGED <<now, got, missed>>

Subscribe(p, f) ==
  /\ now = {}
  /\ subs' = [subs EXCEPT ![p][f] = @ + 1]
  /\ UNCHANGED <<conn, now, got, missed>>

Unsubscribe(p, f) ==
  /\ now = {} /\ subs[p][f] > 0
  /\ subs' = [subs EXCEPT ![p][f] = @ - 1]
  /\ UNCHANGED <<conn, now, got, missed>>

Begin(t) ==
  /\ now = {}
  /\ now' = {t} /\ got' = {} /\ missed' = {}
  /\ UNCHANGED <<conn, subs>>

Serve(p) ==
  /\ Wants(p) /\ p \notin got
  /\ got' = got \cup {p}
  /\ UNCHANGED <<conn, subs, now, missed>>

Miss(p) ==
  /\ Wants(p) /\ p \notin got
  /\ missed' = missed \cup {p}
  /\ UNCHANGED <<conn, subs, now, got>>

Finish ==
  /\ now # {} /\ \A p \in Places : Wants(p) => p \in got \cup missed
  /\ now' = {} /\ got' = {} /\ missed' = {}
  /\ UNCHANGED <<conn, subs>>

Next ==
  \/ \E p \in Places :
       \/ Accept(p) \/ Drop(p) \/ Serve(p) \/ Miss(p)
       \/ \E f \in Filters : Subscribe(p, f) \/ Unsubscribe(p, f)
  \/ \E t \in Topics : Begin(t)
  \/ Finish

Spec == Init /\ [][Next]_vars
=============================================================================
