---------------------------- MODULE BrokerPubSub ----------------------------
(***************************************************************************)
(* Broker implements PubSub: how the state of the program is read as that  *)
(* of the service.                                                         *)
(***************************************************************************)
EXTENDS Broker

\* The broker is somewhere in psmqd_broker_publish, or in a close called from there.
InPublish == pc \in {"scan", "deliver", "evict"} \/ (pc = "closing" /\ ret = "scan")

\* A client is connected once it was told its slot, and as long as it has it.
Connected == {s \in Slots : InUse(s) /\ ~(pc = "welcome" /\ s = cur)}

\* A topic can be in the list of a client more than once.
Times(list, f) == Cardinality({i \in DOMAIN list : list[i] = f})

Subscriptions == [s \in Slots |-> [f \in Filters |-> Times(clients[s].topics, f)]]

Service == INSTANCE PubSub WITH
  Places <- Slots,
  Topics <- Args,
  conn   <- Connected,
  subs   <- Subscriptions,
  now    <- IF InPublish THEN {msg.arg} ELSE {},
  got    <- {s \in Slots : copies[s] > 0},
  missed <- lost

(***************************************************************************)
(* The broker is a publish/subscribe service: with the scan over slots and *)
(* lists, full queues, timeouts, evictions in the middle of the scan and   *)
(* clients that come and go under it, a publish is still one step of the   *)
(* service after another, and nothing else in between (broker.c:683-751).  *)
(* Each SUBSCRIBE that is granted counts, and an UNSUBSCRIBE takes back    *)
(* one of them (broker.c:528, 576).                                        *)
(***************************************************************************)
PubSubSpec == Service!Spec
=============================================================================
