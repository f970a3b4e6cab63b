------------------------------ MODULE MCBroker ------------------------------
(***************************************************************************)
(* Small instances of Broker.  Each cfg picks the requests clients may     *)
(* send (Requests), and so the part of the broker it explores.             *)
(***************************************************************************)
EXTENDS BrokerPubSub, TLC

Match == INSTANCE TopicMatch

\* The topics of the instances, as broker.c sees them when it tokenizes them.
PartsOf == ("/a" :> <<"a">>) @@ ("/b" :> <<"b">>) @@ ("/+" :> <<"+">>) @@ ("/*" :> <<"*">>)
Pairs   == {p \in {"/a", "/b"} \X DOMAIN PartsOf : Match!TopicMatches(PartsOf[p[1]], PartsOf[p[2]])}
FiltersDef == {"/a", "/+"}

Req(cmd, fd, arg, prio) == [cmd |-> cmd, fd |-> fd, arg |-> arg, prio |-> prio]
Opens(ns)      == {Req("open", 0, n, 0) : n \in ns}
Closes(fds)    == {Req("close", f, "none", 0) : f \in fds}
Subs(fds, fs)  == {Req("subscribe", f, t, 0) : f \in fds, t \in fs}
Unsubs(fds, fs) == {Req("unsubscribe", f, t, 0) : f \in fds, t \in fs}
Pubs(ts, ps)   == {Req("publish", 0, t, p) : t \in ts, p \in ps}
Ioctls(fds, vs) == {Req("ioctl", f, v, 0) : f \in fds, v \in vs}

\* Every request the handlers refuse, and each command once, on one slot.
RefusedRequests ==
  Opens({"q1", "nosuch"}) \cup Closes({0, 7}) \cup Subs({0}, {"/a", "bad"})
    \cup Unsubs({0}, {"/a"}) \cup Ioctls({0}, {"positive", "bad"})
    \cup {Req("unknown", 0, "none", 0)} \cup Pubs({"/a"}, {0})

\* Fan-out to two slots with overlapping subscriptions, one of which is taken back.
FanOutRequests ==
  Opens({"q1"}) \cup Subs({0}, {"/a"}) \cup Subs({0, 1}, {"/+"}) \cup Unsubs({0}, {"/+"})
    \cup Pubs({"/a"}, {0})

Symmetry == Permutations(Queues)
=============================================================================
